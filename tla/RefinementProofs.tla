---------------------------- MODULE RefinementProofs ----------------------------
(***************************************************************************)
(* PermanentIP implements LocationService, for any number of nodes, when   *)
(* machines move only after the last move was pushed to everybody, nobody  *)
(* chats, the server lives and has sockets enough, and the network neither *)
(* loses datagrams nor lets notices overtake each other; and Converged, of *)
(* which the abstract specification makes short work.  The inductive       *)
(* invariant is ConvergenceInv of PermanentIPRefinement, on top of those   *)
(* of the other theorems.                                                  *)
(***************************************************************************)
EXTENDS SubscriptionProofs, PermanentIPRefinement, FiniteSetTheorems,
        WellFoundedInduction

\* What LocationService needs of the environment, besides Peaceful.
Reliable ==
  /\ Visible = Addresses
  /\ Lossy = FALSE /\ InOrder = TRUE
  /\ IsFiniteSet(Names) /\ Cardinality(Names) + MaxMoves <= MaxSockets

-------------------------------------------------------------------------------
(* The order of notices *)

LEMMA LeastNumber ==
  ASSUME NEW T, T \subseteq Nat, T # {}
  PROVE  \E x \in T : \A y \in T : x <= y
<1>1. PICK x \in T : \A y \in T : ~ (<<y, x>> \in OpToRel(<, Nat))
  BY NatLessThanWellFounded, WFMin
<1>2. \A y \in T : ~(y < x)
  BY <1>1 DEF OpToRel
<1>3. QED
  BY <1>2

\* There is one order only.
LEMMA OrderUnique ==
  ASSUME NEW S, \A d \in S : d.seq \in Nat,
         NEW s, NEW t, InOrderSent(s, S), InOrderSent(t, S)
  PROVE  s = t
<1>1. s \in Seq(S) /\ t \in Seq(S)
  BY DEF InOrderSent
<1> DEFINE Differ == {i \in DOMAIN s \cap DOMAIN t : s[i] # t[i]}
<1>2. ASSUME NEW u, NEW v, InOrderSent(u, S), InOrderSent(v, S), NEW i \in Nat,
             i \in DOMAIN u, i \in DOMAIN v, u[i] # v[i],
             \A j \in DOMAIN u \cap DOMAIN v : j < i => u[j] = v[j]
      PROVE  v[i].seq < u[i].seq
  <2>1. u \in Seq(S) /\ v \in Seq(S)
    BY <1>2 DEF InOrderSent
  <2>2. PICK k \in DOMAIN v : v[k] = u[i]
    BY <1>2, <2>1 DEF InOrderSent
  <2>3. ~(k < i)
    <3>1. SUFFICES ASSUME k < i PROVE FALSE
      OBVIOUS
    <3>2. k \in DOMAIN u
      BY <1>2, <2>1, <3>1
    <3>3. u[k].seq < u[i].seq
      BY <1>2, <3>1, <3>2 DEF InOrderSent
    <3>4. u[k] = u[i]
      BY <1>2, <2>2, <3>1, <3>2
    <3>5. QED
      BY <2>1, <3>2, <3>3, <3>4
  <2>4. k # i
    BY <1>2, <2>2
  <2>5. QED
    BY <1>2, <2>1, <2>2, <2>3, <2>4 DEF InOrderSent
<1>3. Differ = {}
  <2> SUFFICES ASSUME Differ # {}
               PROVE  FALSE
    OBVIOUS
  <2>1. Differ \subseteq Nat
    BY <1>1
  <2>2. PICK i \in Differ : \A j \in Differ : i <= j
    BY <2>1, LeastNumber
  <2>3. \A j \in DOMAIN s \cap DOMAIN t : j < i => s[j] = t[j]
    BY <1>1, <2>2
  <2>4. t[i].seq < s[i].seq /\ s[i].seq < t[i].seq
    BY <1>2, <2>1, <2>2, <2>3
  <2>5. s[i] \in S /\ t[i] \in S
    BY <1>1, <2>2
  <2>6. QED
    BY <2>4, <2>5
<1>4. ASSUME NEW u, NEW v, InOrderSent(u, S), InOrderSent(v, S),
             \A i \in DOMAIN u \cap DOMAIN v : u[i] = v[i]
      PROVE  Len(v) <= Len(u)
  <2>1. u \in Seq(S) /\ v \in Seq(S)
    BY <1>4 DEF InOrderSent
  <2> SUFFICES ASSUME Len(u) < Len(v)
               PROVE  FALSE
    BY <2>1
  <2> DEFINE i == Len(u) + 1
  <2>2. i \in DOMAIN v /\ v[i] \in S
    BY <2>1
  <2>3. PICK k \in DOMAIN u : u[k] = v[i]
    BY <1>4, <2>2 DEF InOrderSent
  <2>4. k \in DOMAIN v /\ k < i /\ v[k] = v[i]
    BY <1>4, <2>1, <2>3
  <2>5. v[k].seq < v[i].seq
    BY <1>4, <2>2, <2>4 DEF InOrderSent
  <2>6. QED
    BY <2>2, <2>4, <2>5
<1>5. Len(s) = Len(t)
  BY <1>1, <1>3, <1>4
<1>6. QED
  BY <1>1, <1>3, <1>5

\* It is what Ordered finds.
LEMMA OrderedIs ==
  ASSUME NEW S, \A d \in S : d.seq \in Nat, NEW s, InOrderSent(s, S)
  PROVE  Ordered(S) = s
<1>1. s \in Seq(S) /\ Len(s) \in Nat /\ s \in [1 .. Len(s) -> S]
  BY DEF InOrderSent
<1>2. s \in Bijection(1 .. Len(s), S)
  <2>1. \A i, j \in 1 .. Len(s) : s[i] = s[j] => i = j
    <3> SUFFICES ASSUME NEW i \in 1 .. Len(s), NEW j \in 1 .. Len(s), s[i] = s[j], i # j
                 PROVE  FALSE
      OBVIOUS
    <3>1. CASE i < j
      BY <1>1, <3>1 DEF InOrderSent
    <3>2. CASE j < i
      BY <1>1, <3>2 DEF InOrderSent
    <3>3. QED
      BY <3>1, <3>2
  <2>2. \A d \in S : \E i \in 1 .. Len(s) : s[i] = d
    BY <1>1 DEF InOrderSent
  <2>3. QED
    BY <1>1, <2>1, <2>2 DEF Bijection, Injection, Surjection, IsInjective
<1>3. Cardinality(S) = Len(s)
  BY <1>1, <1>2, FS_CountingElements DEF ExistsBijection
<1>4. s \in [1 .. Cardinality(S) -> S] /\ InOrderSent(s, S)
  BY <1>1, <1>3
<1>5. InOrderSent(Ordered(S), S)
  BY <1>4 DEF Ordered
<1>6. QED
  BY <1>5, OrderUnique

LEMMA OrderedEmpty == InOrderSent(<<>>, {}) /\ Ordered({}) = <<>>
<1>1. InOrderSent(<<>>, {})
  BY DEF InOrderSent
<1>2. QED
  BY <1>1, OrderedIs

\* The last sent comes last.
LEMMA OrderedMore ==
  ASSUME NEW S, \A d \in S : d.seq \in Nat, InOrderSent(Ordered(S), S),
         NEW e, e.seq \in Nat, \A d \in S : d.seq < e.seq
  PROVE  LET more == Append(Ordered(S), e)
         IN  InOrderSent(more, S \cup {e}) /\ Ordered(S \cup {e}) = more
<1> DEFINE s == Ordered(S)
           more == Append(s, e)
<1>1. s \in Seq(S)
  BY DEF InOrderSent
<1> HIDE DEF s
<1>2. /\ more \in Seq(S \cup {e}) /\ DOMAIN more = 1 .. Len(s) + 1
      /\ \A i \in DOMAIN s : more[i] = s[i] /\ s[i] \in S
      /\ more[Len(s) + 1] = e
  BY <1>1
<1>3. \A d \in S \cup {e} : \E i \in DOMAIN more : more[i] = d
  <2>1. Len(s) + 1 \in DOMAIN more /\ DOMAIN s \subseteq DOMAIN more
    BY <1>1, <1>2
  <2>2. \A d \in S : \E i \in DOMAIN s : s[i] = d
    BY DEF InOrderSent, s
  <2>3. QED
    BY <1>2, <2>1, <2>2
<1>4. \A i, j \in DOMAIN more : i < j => more[i].seq < more[j].seq
  <2> SUFFICES ASSUME NEW i \in DOMAIN more, NEW j \in DOMAIN more, i < j
               PROVE  more[i].seq < more[j].seq
    OBVIOUS
  <2>1. i \in DOMAIN s
    BY <1>1, <1>2
  <2>2. CASE j \in DOMAIN s
    BY <1>2, <2>1, <2>2 DEF InOrderSent, s
  <2>3. CASE j = Len(s) + 1
    BY <1>2, <2>1, <2>3
  <2>4. QED
    BY <1>1, <1>2, <2>2, <2>3
<1>5. InOrderSent(more, S \cup {e})
  BY <1>2, <1>3, <1>4 DEF InOrderSent
<1>6. QED
  BY <1>5, OrderedIs DEF s

\* The first sent comes first.
LEMMA OrderedLess ==
  ASSUME NEW S, \A d \in S : d.seq \in Nat, InOrderSent(Ordered(S), S),
         NEW e \in S, \A d \in S : e.seq <= d.seq
  PROVE  LET s == Ordered(S)
         IN  /\ s \in Seq(S) /\ s # <<>> /\ Head(s) = e
             /\ InOrderSent(Tail(s), S \ {e}) /\ Ordered(S \ {e}) = Tail(s)
<1> DEFINE s == Ordered(S)
           less == Tail(s)
<1>1. s \in Seq(S) /\ InOrderSent(s, S)
  BY DEF InOrderSent
<1> HIDE DEF s
<1>2. PICK k \in DOMAIN s : s[k] = e
  BY <1>1 DEF InOrderSent
<1>3. k = 1
  <2>1. 1 \in DOMAIN s /\ s[1] \in S
    BY <1>1, <1>2
  <2>2. ASSUME 1 < k
        PROVE  FALSE
    <3>1. s[1].seq < s[k].seq
      BY <1>1, <1>2, <2>1, <2>2 DEF InOrderSent
    <3>2. e.seq <= s[1].seq /\ s[1].seq \in Nat /\ e.seq \in Nat
      BY <2>1
    <3>3. QED
      BY <1>2, <3>1, <3>2
  <2>3. QED
    BY <1>1, <1>2, <2>2
<1>4. s # <<>> /\ Head(s) = e
  BY <1>1, <1>2, <1>3
<1>5. /\ less \in Seq(S) /\ Len(less) = Len(s) - 1
      /\ \A i \in DOMAIN less : i + 1 \in DOMAIN s /\ less[i] = s[i + 1]
  BY <1>1, <1>4
<1> HIDE DEF less
<1>6. \A i \in DOMAIN less : less[i] \in S \ {e}
  <2> SUFFICES ASSUME NEW i \in DOMAIN less
               PROVE  less[i] \in S /\ less[i] # e
    OBVIOUS
  <2>1. 1 < i + 1 /\ i + 1 \in DOMAIN s /\ 1 \in DOMAIN s
    BY <1>1, <1>2, <1>3, <1>5
  <2>2. s[1].seq < s[i + 1].seq
    BY <1>1, <2>1 DEF InOrderSent
  <2>3. QED
    BY <1>2, <1>3, <1>5, <2>1, <2>2
<1>7. less \in Seq(S \ {e})
  <2>1. DOMAIN less = 1 .. Len(less) /\ Len(less) \in Nat
    BY <1>5
  <2>2. less \in [1 .. Len(less) -> S \ {e}]
    BY <1>5, <1>6, <2>1
  <2>3. QED
    BY <2>1, <2>2
<1>8. \A d \in S \ {e} : \E i \in DOMAIN less : less[i] = d
  <2> SUFFICES ASSUME NEW d \in S \ {e}
               PROVE  \E i \in DOMAIN less : less[i] = d
    OBVIOUS
  <2>1. PICK j \in DOMAIN s : s[j] = d
    BY <1>1 DEF InOrderSent
  <2>2. j # 1
    BY <1>2, <1>3, <2>1
  <2>3. j - 1 \in DOMAIN less /\ less[j - 1] = s[j]
    BY <1>1, <1>5, <2>1, <2>2
  <2>4. QED
    BY <2>1, <2>3
<1>9. \A i, j \in DOMAIN less : i < j => less[i].seq < less[j].seq
  <2> SUFFICES ASSUME NEW i \in DOMAIN less, NEW j \in DOMAIN less, i < j
               PROVE  less[i].seq < less[j].seq
    OBVIOUS
  <2>1. i + 1 < j + 1
    BY <1>5
  <2>2. QED
    BY <1>1, <1>5, <2>1 DEF InOrderSent
<1>10. InOrderSent(less, S \ {e})
  BY <1>7, <1>8, <1>9 DEF InOrderSent
<1>11. QED
  BY <1>1, <1>4, <1>10, OrderedIs DEF s, less

-------------------------------------------------------------------------------
(* What a node is told, as a sequence *)

LEMMA TextsAre ==
  ASSUME NEW S, NEW V, \A d \in S : d.text \in V, NEW q \in Seq(S)
  PROVE  /\ Texts(q) \in Seq(V) /\ Len(Texts(q)) = Len(q)
         /\ \A i \in 1 .. Len(q) : Texts(q)[i] = q[i].text
<1>1. Len(q) \in Nat /\ DOMAIN q = 1 .. Len(q) /\ \A i \in 1 .. Len(q) : q[i] \in S
  OBVIOUS
<1>2. Texts(q) \in [1 .. Len(q) -> V]
  BY <1>1 DEF Texts
<1>3. QED
  BY <1>1, <1>2 DEF Texts

LEMMA SameSequence ==
  ASSUME NEW V, NEW s \in Seq(V), NEW t \in Seq(V), Len(s) = Len(t),
         \A i \in 1 .. Len(s) : s[i] = t[i]
  PROVE  s = t
OBVIOUS

LEMMA TextsMore ==
  ASSUME NEW S, NEW q \in Seq(S), NEW e \in S
  PROVE  Texts(Append(q, e)) = Append(Texts(q), e.text)
<1> DEFINE V == {d.text : d \in S}
<1>0. \A d \in S : d.text \in V
  OBVIOUS
<1> HIDE DEF V
<1>1. /\ Append(q, e) \in Seq(S) /\ Len(Append(q, e)) = Len(q) + 1 /\ Len(q) \in Nat
      /\ \A i \in 1 .. Len(q) : Append(q, e)[i] = q[i]
      /\ Append(q, e)[Len(q) + 1] = e
  OBVIOUS
<1>2. /\ Texts(q) \in Seq(V) /\ Len(Texts(q)) = Len(q)
      /\ \A i \in 1 .. Len(q) : Texts(q)[i] = q[i].text
  BY <1>0, TextsAre
<1>3. /\ Texts(Append(q, e)) \in Seq(V) /\ Len(Texts(Append(q, e))) = Len(q) + 1
      /\ \A i \in 1 .. Len(q) + 1 : Texts(Append(q, e))[i] = Append(q, e)[i].text
  BY <1>0, <1>1, TextsAre
<1>4. /\ Append(Texts(q), e.text) \in Seq(V) /\ Len(Append(Texts(q), e.text)) = Len(q) + 1
      /\ \A i \in 1 .. Len(q) : Append(Texts(q), e.text)[i] = q[i].text
      /\ Append(Texts(q), e.text)[Len(q) + 1] = e.text
  BY <1>0, <1>1, <1>2
<1>5. \A i \in 1 .. Len(q) + 1 : Texts(Append(q, e))[i] = Append(Texts(q), e.text)[i]
  BY <1>1, <1>3, <1>4
<1>6. QED
  BY <1>3, <1>4, <1>5, SameSequence

LEMMA TextsLess ==
  ASSUME NEW S, NEW q \in Seq(S), q # <<>>
  PROVE  /\ Texts(q) # <<>> /\ Head(Texts(q)) = Head(q).text
         /\ Texts(Tail(q)) = Tail(Texts(q))
<1> DEFINE V == {d.text : d \in S}
<1>0. \A d \in S : d.text \in V
  OBVIOUS
<1> HIDE DEF V
<1>1. /\ Tail(q) \in Seq(S) /\ Len(Tail(q)) = Len(q) - 1 /\ Len(q) \in Nat /\ Len(q) > 0
      /\ \A i \in 1 .. Len(q) - 1 : Tail(q)[i] = q[i + 1]
      /\ Head(q) = q[1]
  OBVIOUS
<1>2. /\ Texts(q) \in Seq(V) /\ Len(Texts(q)) = Len(q)
      /\ \A i \in 1 .. Len(q) : Texts(q)[i] = q[i].text
  BY <1>0, TextsAre
<1>3. /\ Texts(Tail(q)) \in Seq(V) /\ Len(Texts(Tail(q))) = Len(q) - 1
      /\ \A i \in 1 .. Len(q) - 1 : Texts(Tail(q))[i] = Tail(q)[i].text
  BY <1>0, <1>1, TextsAre
<1>4. /\ Texts(q) # <<>> /\ Head(Texts(q)) = q[1].text
      /\ Tail(Texts(q)) \in Seq(V) /\ Len(Tail(Texts(q))) = Len(q) - 1
      /\ \A i \in 1 .. Len(q) - 1 : Tail(Texts(q))[i] = q[i + 1].text
  BY <1>0, <1>1, <1>2
<1>5. QED
  BY <1>1, <1>3, <1>4, SameSequence

LEMMA AppendConcat ==
  ASSUME NEW V, NEW s \in Seq(V), NEW t \in Seq(V), NEW x \in V
  PROVE  s \o Append(t, x) = Append(s \o t, x)
OBVIOUS

LEMMA TailConcat ==
  ASSUME NEW V, NEW s \in Seq(V), NEW t \in Seq(V), s # <<>>
  PROVE  /\ s \o t # <<>> /\ Head(s \o t) = Head(s)
         /\ Tail(s \o t) = Tail(s) \o t
OBVIOUS

LEMMA HandConcat ==
  ASSUME NEW V, NEW s \in Seq(V), NEW t \in Seq(V), t # <<>>
  PROVE  Append(s, Head(t)) \o Tail(t) = s \o t
OBVIOUS

-------------------------------------------------------------------------------
(* What the other invariants say of the steps *)

Foundation ==
  /\ TypeOK /\ PeekInv /\ RegistrationInv /\ SubscribedOnlyToKnown
  /\ CrossTalkInv /\ AllRegister /\ SubscriptionInv /\ LastSentIsNoted

LEMMA WhereNodesAre ==
  ASSUME Foundation, NEW h \in Names
  PROVE  loc[h] \in Homes[h] /\ loc[h] \in Addresses /\ loc[h] # NoAddr
<1>1. loc[h] \in Homes[h]
  BY DEF Foundation, AllRegister, LastSentIsNoted, CrossTalkInv, HomeAddresses
<1>2. QED
  BY <1>1, HomesType

LEMMA LocationsDiffer ==
  ASSUME Foundation, DisjointHomes, NEW h \in Names, NEW i \in Names, loc[h] = loc[i]
  PROVE  h = i
  BY WhereNodesAre DEF DisjointHomes

\* The notices that can reach a node are those for one of its addresses.
LEMMA NoticesForNode ==
  ASSUME Foundation, DisjointHomes, NoticesReachable, NEW h \in Names
  PROVE  NoticesTo(h) = NoticesFor(h) /\ (~Running(h) => NoticesTo(h) = {})
<1>1. \A d \in to_app : \A i \in Names : d.to = loc[i] /\ d.to \in Homes[h] => i = h
  BY WhereNodesAre DEF DisjointHomes
<1>2. QED
  BY <1>1, WhereNodesAre, LocationsDiffer DEF NoticesTo, NoticesFor, NoticesReachable

LEMMA SubscribersRun ==
  ASSUME Foundation, NEW h \in Names, Subscribed(h)
  PROVE  /\ app_thread[h] \in {"rs_wait", "found"} /\ Running(h)
         /\ Known(PeerOf[h]) /\ registered_names_[PeerOf[h]] \in Addresses
<1>1. app_thread[h] \in {"rs_wait", "found"}
  BY DEF Foundation, SubscriptionInv, Answered, SubscribedOnce
<1>2. PeerOf[h] \in Names
  BY PeerOfType
<1>3. Known(PeerOf[h])
  BY <1>2 DEF Foundation, SubscribedOnlyToKnown, Subscribed
<1>4. QED
  BY <1>1, <1>2, <1>3 DEF Running, Foundation, TypeOK, TablesTypeOK, Known, SubscriptionInv,
     NoPhantoms

\* When a machine may move nothing is under way and the server is up to date.
LEMMA SettledMeans ==
  ASSUME Foundation, NoticesReachable, Peaceful, Reliable, Settled
  PROVE  /\ to_regist = {} /\ to_lookup = {} /\ to_app = {}
         /\ \A h \in Names : ~Behind(h)
         /\ \A h \in Names : Running(h) =>
              /\ registered_names_[h] = loc[h]
              /\ app_queue[h] = <<>>
              /\ daemon[h] = "asleep"
<1>1. to_regist = {} /\ to_lookup = {} /\ to_app = {}
  BY DEF Settled
<1>2. ASSUME NEW h \in Names, Running(h)
      PROVE  registered_names_[h] = loc[h] /\ app_queue[h] = <<>> /\ daemon[h] = "asleep"
  <2>1. daemon[h] = "asleep" /\ last_known_ip_address_[h] = loc[h]
    BY <1>2, CurrentAddressIsLoc DEF Settled, UpToDate, Reliable, Foundation,
       AllRegister, LastSentIsNoted
  <2>2. registered_names_[h] = loc[h]
    BY <2>1 DEF Foundation, RegistrationInv, RegisteredInLoop, HasLastSent, LoopState,
       AllRegister, LastSentIsNoted, SubscriptionInv, NoPhantoms
  <2>3. DOMAIN app_queue[h] = {}
    BY <1>2 DEF Settled, NoticesReachable
  <2>4. QED
    BY <2>1, <2>2, <2>3, QueueTail DEF Foundation
<1>3. ASSUME NEW h \in Names
      PROVE  ~Behind(h)
  <2>1. Running(h) => ~Outdated(h)
    BY <1>2 DEF Outdated
  <2>2. QED
    BY <1>1, <2>1 DEF Behind
<1>4. QED
  BY <1>1, <1>2, <1>3

\* Only the mover's subscribers are told, and they are where the server believes.
LEMMA SubscribersUpToDate ==
  ASSUME Foundation, ConvergenceInv, NEW m \in to_regist, Known(m.name),
         NEW h \in Names, Subscribed(h), h # m.name
  PROVE  Known(h) /\ registered_names_[h] = loc[h]
<1>1. m.name \in Names
  BY DEF Foundation, TypeOK, NetworkTypeOK, Registration
<1>2. moves > 0
  <2>1. moves # 0
    BY <1>1 DEF Foundation, SubscriptionInv, NoPhantoms
  <2>2. QED
    BY <2>1 DEF Foundation, TypeOK, NetworkTypeOK
<1>3. Known(h) /\ Running(h)
  BY <1>2, SubscribersRun DEF Foundation, SubscriptionInv, NoPhantoms
<1>4. Behind(m.name)
  BY <1>1 DEF ConvergenceInv, RegistersNews, Behind, Outdated
<1>5. QED
  BY <1>1, <1>3, <1>4 DEF ConvergenceInv, OneBehind, Behind, Outdated

\* The tables after a registration: no phantom entries.
LEMMA NamesAfterRegistration ==
  ASSUME Foundation, ConvergenceInv, NEW m \in to_regist
  PROVE  /\ m.name \in Names /\ m.from = loc[m.name] /\ loc[m.name] \in Addresses
         /\ NamesAfterUpdate(m.name, m.from)
              = [registered_names_ EXCEPT ![m.name] = loc[m.name]]
<1>1. m.name \in Names /\ m.from = loc[m.name]
  BY DEF Foundation, TypeOK, NetworkTypeOK, Registration, ConvergenceInv, RegistersNews
<1>2. loc[m.name] \in Addresses
  BY <1>1, WhereNodesAre
<1>3. \A h \in Names, p \in Ports :
        h # m.name /\ <<h, p>> \in subscriptions_[m.name] => Known(h)
  <2> SUFFICES ASSUME NEW h \in Names, NEW p \in Ports, h # m.name,
                      <<h, p>> \in subscriptions_[m.name]
               PROVE  Known(h)
    OBVIOUS
  <2>1. p = AppPort /\ PeerOf[h] = m.name
    BY <1>1 DEF Foundation, SubscriptionInv, LookupUnderWay, CrossTalkInv,
       PeerSubscriptions
  <2>2. Subscribed(h) /\ Known(m.name)
    BY <1>1, <2>1 DEF Subscribed, Foundation, SubscribedOnlyToKnown
  <2>3. QED
    BY <2>2, SubscribersUpToDate
<1>4. registered_names_ \in [Names -> Addresses \cup {Absent, NoAddr}]
  BY DEF Foundation, TypeOK, TablesTypeOK
<1>5. QED
  BY <1>1, <1>2, <1>3, <1>4 DEF NamesAfterUpdate

\* The server does not run out of sockets, and keeps its account.
LEMMA SocketForRegistration ==
  ASSUME Foundation, ConvergenceInv, Reliable, NEW m \in to_regist
  PROVE  /\ SocketLeft
         /\ HandleRegistration(m) /\ UNCHANGED nodeVars => SocketsAccounted'
<1> DEFINE n == m.name
           K == {h \in Names : Known(h)}
           O == {h \in Names : Outdated(h)}
<1>1. /\ n \in Names
      /\ IsFiniteSet(K) /\ IsFiniteSet(O) /\ O \subseteq K /\ K \subseteq Names
      /\ Cardinality(K) \in Nat /\ Cardinality(O) \in Nat /\ Cardinality(Names) \in Nat
      /\ Cardinality(K) <= Cardinality(Names)
  <2>1. n \in Names /\ O \subseteq K
    BY DEF Outdated, Foundation, TypeOK, NetworkTypeOK, Registration
  <2>2. IsFiniteSet(Names) /\ K \subseteq Names /\ O \subseteq Names
    BY DEF Reliable
  <2>3. QED
    BY <2>1, <2>2, FS_Subset, FS_CardinalityType
<1>2. /\ moves <= MaxMoves /\ update_sockets + Cardinality(O) <= Cardinality(K) + moves
      /\ moves \in Nat /\ MaxMoves \in Nat /\ update_sockets \in Nat /\ MaxSockets \in Nat
      /\ Cardinality(Names) + MaxMoves <= MaxSockets
  BY TablesAssumption, PermanentIPAssumption DEF ConvergenceInv, SocketsAccounted,
     Reliable, Foundation, TypeOK, NetworkTypeOK, TablesTypeOK
<1>3. n \notin K => Cardinality(K) + 1 <= Cardinality(Names)
  <2> SUFFICES ASSUME n \notin K
               PROVE  Cardinality(K) + 1 <= Cardinality(Names)
    OBVIOUS
  <2>1. IsFiniteSet(Names \ {n}) /\ Cardinality(Names \ {n}) = Cardinality(Names) - 1
    BY <1>1, FS_RemoveElement DEF Reliable
  <2>2. K \in SUBSET (Names \ {n})
    BY <1>1
  <2>3. Cardinality(K) <= Cardinality(Names \ {n})
    BY <2>1, <2>2, FS_Subset
  <2>4. QED
    BY <1>1, <2>1, <2>3
<1>4. n \in K => n \in O /\ Cardinality(O) >= 1
  <2> SUFFICES ASSUME n \in K
               PROVE  n \in O /\ Cardinality(O) >= 1
    OBVIOUS
  <2>1. n \in O
    BY DEF ConvergenceInv, RegistersNews, Outdated
  <2>2. Cardinality(O) # 0
    BY <1>1, <2>1, FS_EmptySet
  <2>3. QED
    BY <1>1, <2>1, <2>2
<1> HIDE DEF K, O, n
<1>5. SocketLeft
  BY <1>1, <1>2, <1>3, <1>4 DEF SocketLeft
<1>6. ASSUME HandleRegistration(m), UNCHANGED nodeVars
      PROVE  SocketsAccounted'
  <2>1. /\ registered_names_' = [registered_names_ EXCEPT ![n] = loc[n]]
        /\ update_sockets' = update_sockets + 1
        /\ UNCHANGED <<loc, moves>>
    BY <1>5, <1>6, NamesAfterRegistration DEF HandleRegistration, UpdateAddress, n
  <2>2. registered_names_ \in [Names -> Addresses \cup {Absent, NoAddr}] /\ loc[n] # Absent
    BY <1>1, WhereNodesAre, TypesAssumption DEF Foundation, TypeOK, TablesTypeOK
  <2>3. {h \in Names : Known(h)}' = K \cup {n}
    BY <1>1, <2>1, <2>2 DEF K, Known
  <2>4. {h \in Names : Outdated(h)}' = O \ {n}
    BY <1>1, <2>1, <2>2 DEF O, Outdated, Known
  <2>5. /\ Cardinality(K \cup {n}) = IF n \in K THEN Cardinality(K) ELSE Cardinality(K) + 1
        /\ Cardinality(O \ {n}) = IF n \in O THEN Cardinality(O) - 1 ELSE Cardinality(O)
    BY <1>1, FS_AddElement, FS_RemoveElement
  <2>6. n \notin K => n \notin O
    BY <1>1
  <2>7. update_sockets' + Cardinality(O \ {n}) <= Cardinality(K \cup {n}) + moves'
    BY <1>1, <1>2, <1>4, <2>1, <2>5, <2>6
  <2>8. QED
    BY <1>2, <2>1, <2>3, <2>4, <2>7 DEF SocketsAccounted
<1>7. QED
  BY <1>5, <1>6

\* The notice that tells node h, handled as the request it is, of an address.
NoticeTo(h, address) ==
  [to |-> loc[h], port |-> AppPort, text |-> address, seq |-> handled]

\* A registration handled: every subscriber of the name is told, where it is.
LEMMA RegistrationEffect ==
  ASSUME Foundation, ConvergenceInv, DisjointHomes, Reliable, NEW m \in to_regist,
         HandleRegistration(m), UNCHANGED nodeVars
  PROVE  LET n == m.name
             audience == {h \in Names : Subscribed(h) /\ PeerOf[h] = n}
         IN  /\ n \in Names
             /\ registered_names_' = [registered_names_ EXCEPT ![n] = loc[n]]
             /\ to_app' = to_app \cup {NoticeTo(h, loc[n]) : h \in audience}
             /\ handled' = handled + 1
             /\ to_regist' = to_regist \ {m} /\ \A q \in to_regist' : q.name # n
             /\ UNCHANGED <<subscriptions_, loc, moves, incarnation, to_lookup, app_queue,
                            crashes, nodeVars>>
<1> DEFINE n == m.name
           audience == {h \in Names : Subscribed(h) /\ PeerOf[h] = n}
           after == NamesAfterUpdate(n, m.from)
<1>1. /\ n \in Names /\ m.from = loc[n] /\ loc[n] \in Addresses
      /\ after = [registered_names_ EXCEPT ![n] = loc[n]]
      /\ registered_names_ \in [Names -> Addresses \cup {Absent, NoAddr}]
      /\ subscriptions_ \in [Names -> SUBSET Subscriber]
  BY NamesAfterRegistration DEF Foundation, TypeOK, TablesTypeOK
<1>2. /\ registered_names_' = after
      /\ to_app' = to_app \cup Noted({u \in Updates(n, m.from) : u.to # NoAddr})
      /\ handled' = handled + 1
      /\ to_regist' = to_regist \ {m}
      /\ UNCHANGED <<subscriptions_, loc, moves, incarnation, to_lookup, app_queue, crashes,
                     nodeVars>>
  BY DEF HandleRegistration, UpdateAddress
<1>3. \A q \in to_regist' : q.name # n
  BY <1>1, <1>2, OneRegistration DEF Foundation, AllRegister
<1>4. \A s \in subscriptions_[n] :
        /\ s = <<s[1], AppPort>> /\ s[1] \in Names /\ s[1] \in audience
        /\ after[s[1]] = loc[s[1]]
  <2> SUFFICES ASSUME NEW s \in subscriptions_[n]
               PROVE  /\ s = <<s[1], AppPort>> /\ s[1] \in Names /\ s[1] \in audience
                      /\ after[s[1]] = loc[s[1]]
    OBVIOUS
  <2>1. s = <<s[1], AppPort>> /\ s[1] \in Names
    BY <1>1 DEF Subscriber, Foundation, SubscriptionInv, LookupUnderWay
  <2>2. PeerOf[s[1]] = n
    BY <1>1 DEF Foundation, CrossTalkInv, PeerSubscriptions
  <2>3. Subscribed(s[1])
    BY <2>1, <2>2 DEF Subscribed
  <2>4. Known(n)
    BY <1>1 DEF Foundation, SubscribedOnlyToKnown
  <2>5. after[s[1]] = loc[s[1]]
    BY <1>1, <2>1, <2>3, <2>4, SubscribersUpToDate
  <2>6. QED
    BY <2>1, <2>2, <2>3, <2>5
<1>5. \A h \in audience : <<h, AppPort>> \in subscriptions_[n]
  BY DEF Subscribed
<1> HIDE DEF n, audience, after
<1>6. Updates(n, m.from)
        = {[to |-> loc[h], port |-> AppPort, text |-> loc[n]] : h \in audience}
  <2>0. SocketLeft
    BY SocketForRegistration
  <2>1. Updates(n, m.from)
          = {[to |-> after[s[1]], port |-> s[2], text |-> m.from] : s \in subscriptions_[n]}
    BY <2>0, Zenon DEF Updates, after
  <2>2. ASSUME NEW s \in subscriptions_[n]
        PROVE  s[1] \in audience /\ [to |-> after[s[1]], port |-> s[2], text |-> loc[n]]
                 = [to |-> loc[s[1]], port |-> AppPort, text |-> loc[n]]
    <3>1. s[2] = AppPort /\ after[s[1]] = loc[s[1]] /\ s[1] \in audience
      BY <1>4
    <3>2. QED
      BY <3>1
  <2>3. ASSUME NEW h \in audience
        PROVE  \E s \in subscriptions_[n] :
                 [to |-> after[s[1]], port |-> s[2], text |-> loc[n]]
                   = [to |-> loc[h], port |-> AppPort, text |-> loc[n]]
    <3>1. PICK s \in subscriptions_[n] : s[1] = h /\ s[2] = AppPort
      BY <1>5
    <3>2. after[s[1]] = loc[h]
      BY <1>4, <3>1
    <3>3. QED
      BY <3>1, <3>2
  <2>4. ASSUME NEW u
        PROVE  u \in Updates(n, m.from)
                 <=> \E h \in audience :
                       u = [to |-> loc[h], port |-> AppPort, text |-> loc[n]]
    <3>1. u \in Updates(n, m.from)
            <=> \E s \in subscriptions_[n] :
                  u = [to |-> after[s[1]], port |-> s[2], text |-> loc[n]]
      BY <1>1, <2>1
    <3>2. QED
      BY <2>2, <2>3, <3>1
  <2>5. QED
    BY <2>4
<1>7. \A u \in Updates(n, m.from) : u.to # NoAddr
  <2>1. \A h \in audience : loc[h] # NoAddr
    BY WhereNodesAre DEF audience
  <2>2. QED
    BY <1>6, <2>1
<1>8. Noted({u \in Updates(n, m.from) : u.to # NoAddr})
        = {NoticeTo(h, loc[n]) : h \in audience}
  <2>1. {u \in Updates(n, m.from) : u.to # NoAddr}
          = {[to |-> loc[h], port |-> AppPort, text |-> loc[n]] : h \in audience}
    BY <1>6, <1>7
  <2> DEFINE Update(h) == [to |-> loc[h], port |-> AppPort, text |-> loc[n]]
             note(u) == [to |-> u.to, port |-> u.port, text |-> u.text, seq |-> handled]
             updates == {Update(h) : h \in audience}
  <2>2. \A h : note(Update(h)) = NoticeTo(h, loc[n])
    BY DEF NoticeTo
  <2>3. Noted(updates) = {note(u) : u \in updates}
    BY DEF Noted
  <2> HIDE DEF note
  <2>4. \A u \in updates : \E h \in audience : note(u) = NoticeTo(h, loc[n])
    BY <2>2
  <2>5. \A h \in audience : \E u \in updates : note(u) = NoticeTo(h, loc[n])
    BY <2>2
  <2> HIDE DEF Update, updates
  <2>6. {note(u) : u \in updates} = {NoticeTo(h, loc[n]) : h \in audience}
    BY <2>4, <2>5
  <2>7. QED
    BY <2>1, <2>3, <2>6 DEF updates, Update
<1>9. QED
  BY <1>1, <1>2, <1>3, <1>8 DEF n, audience, after

\* A lookup handled: a known peer gets a subscriber, who is told; an unknown one
\* does not, and the node is told that.
LEMMA LookupEffect ==
  ASSUME Foundation, DisjointHomes, NEW m \in to_lookup, HandleLookup(m),
         UNCHANGED nodeVars
  PROVE  LET s == m.subscriber
             peer == PeerOf[s]
         IN  /\ s \in Names /\ peer \in Names /\ app_thread[s] = "rs_wait"
             /\ ~Subscribed(s) /\ NothingTold(s)
             /\ \A h \in Names : Subscribed(h)' <=> Subscribed(h) \/ (h = s /\ Known(peer))
             /\ to_app' = to_app \cup {NoticeTo(s, LookupResult(peer))}
             /\ handled' = handled + 1
             /\ UNCHANGED <<registered_names_, update_sockets, loc, moves, incarnation,
                            to_regist, app_queue, crashes, nodeVars>>
<1> DEFINE s == m.subscriber
<1>1. /\ s \in Names /\ m.subscribee = PeerOf[s] /\ PeerOf[s] \in Names
      /\ m.port = AppPort /\ m.from = loc[s] /\ app_thread[s] = "rs_wait"
  BY PeerOfType DEF Foundation, TypeOK, NetworkTypeOK, Lookup, CrossTalkInv,
     PeerSubscriptions, SubscriptionInv, LookupUnderWay
<1>2. ~Subscribed(s) /\ NothingTold(s)
  BY <1>1 DEF Foundation, SubscriptionInv, Answered, SubscribedOnce, UnknownToldOnce,
     LookupSent
<1>3. subscriptions_' = IF Known(PeerOf[s])
                          THEN [subscriptions_ EXCEPT ![PeerOf[s]] =
                                  Toggle(@, <<s, AppPort>>)]
                          ELSE subscriptions_
  BY <1>1 DEF HandleLookup, ChangeSubscription
<1>4. subscriptions_ \in [Names -> SUBSET Subscriber]
  BY DEF Foundation, TypeOK, TablesTypeOK
<1>5. \A h \in Names : Subscribed(h)' <=> Subscribed(h) \/ (h = s /\ Known(PeerOf[s]))
  BY <1>1, <1>2, <1>3, <1>4, PeerOfType DEF Subscribed, Toggle
<1>6. to_app' = to_app \cup {NoticeTo(s, LookupResult(PeerOf[s]))}
  BY <1>1 DEF HandleLookup, Noted, NoticeTo
<1>7. QED
  BY <1>1, <1>2, <1>5, <1>6 DEF HandleLookup, ChangeSubscription

\* A delivery takes the oldest notice.
LEMMA DeliveryEffect ==
  ASSUME Foundation, DisjointHomes, Reliable, NoticesReachable, NEW h \in Names, Delivery(h)
  PROVE  \E d \in NoticesTo(h) :
           /\ \A e \in NoticesTo(h) : d.seq <= e.seq
           /\ to_app' = to_app \ {d}
           /\ app_queue' = [app_queue EXCEPT ![h] =
                              Append(@, [from |-> RendezvousServer, text |-> d.text])]
           /\ Running(h)
           /\ UNCHANGED <<loc, moves, incarnation, to_regist, to_lookup, serverVars, nodeVars>>
<1>1. DeliverNotice(h, AppPort)
  BY DEF Delivery, DeliverPeer, Foundation, SubscriptionInv, NobodyChats
<1>2. QED
  BY <1>1 DEF Delivery, DeliverNotice, NoticesTo, Reliable

\* The network has nothing to lose that somebody waits for.
LEMMA LossEffect ==
  ASSUME Foundation, Reliable, NoticesReachable, Loss
  PROVE  UNCHANGED <<loc, moves, incarnation, to_regist, to_lookup, to_app, app_queue,
                     serverVars, nodeVars>>
<1>1. ~LoseRequest
  BY DEF LoseRequest, Reliable
<1>2. \A d \in to_app : ~MayVanish(d.to, {h \in Names : Running(h)})
  BY DEF MayVanish, NoticesReachable, Reliable
<1>3. ~LoseNotice({h \in Names : Running(h)})
  BY <1>2 DEF LoseNotice
<1>4. QED
  BY <1>1, <1>3 DEF Loss, LoseReply, LosePeer

-------------------------------------------------------------------------------
(* Who registers what: RegistersNews, OneBehind, ThreadsEnd, SocketsAccounted *)

Account == RegistersNews /\ OneBehind /\ ThreadsEnd /\ SocketsAccounted

LEMMA AccountQuiet ==
  ASSUME Account, to_regist' \subseteq to_regist,
         UNCHANGED <<loc, moves, registered_names_, update_sockets>>,
         \A h \in Names : /\ Running(h)' => Running(h)
                          /\ ~Running(h)' => daemon'[h] = "stopped"
                          /\ daemon'[h] = "start" => daemon[h] = "start"
  PROVE  Account'
<1>1. \A h \in Names : /\ Known(h)' <=> Known(h)
                       /\ Outdated(h)' <=> Outdated(h)
                       /\ Behind(h)' => Behind(h)
  BY DEF Known, Outdated, Behind
<1>2. RegistersNews'
  BY DEF Account, RegistersNews, Known
<1>3. OneBehind'
  BY <1>1 DEF Account, OneBehind
<1>4. ThreadsEnd'
  BY <1>1 DEF Account, ThreadsEnd
<1>5. SocketsAccounted'
  BY DEF Account, SocketsAccounted, Known, Outdated
<1>6. QED
  BY <1>2, <1>3, <1>4, <1>5 DEF Account

\* Whoever registers is known under another address, or not at all.
LEMMA SendAccount ==
  ASSUME Foundation, Account, NEW g \in Names, NEW waiting \in {"registering", "updating"},
         SendRegistration(g, waiting), UNCHANGED <<registered_names_, update_sockets>>,
         daemon[g] # "stopped", Known(g) => registered_names_[g] # loc[g]
  PROVE  Account'
<1> DEFINE m == [name |-> g, from |-> loc[g], inc |-> incarnation[g]]
<1>1. /\ to_regist' = to_regist \cup {m}
      /\ daemon' = [daemon EXCEPT ![g] = waiting]
      /\ UNCHANGED <<loc, moves, registered_names_, update_sockets, app_thread>>
  BY DEF SendRegistration, Sent, Foundation, AllRegister, LastSentIsNoted
<1>2. Running(g) /\ daemon \in [Names -> DaemonState]
  BY DEF Account, ThreadsEnd, Foundation, TypeOK, MobileNodeTypeOK
<1>3. \A h \in Names : /\ Known(h)' <=> Known(h)
                       /\ Running(h)' <=> Running(h)
                       /\ Outdated(h)' <=> Outdated(h)
                       /\ Behind(h)' <=> Behind(h)
  BY <1>1, <1>2 DEF Known, Running, Outdated, Behind
<1>4. RegistersNews'
  BY <1>1 DEF Account, RegistersNews, Known
<1>5. OneBehind'
  BY <1>3 DEF Account, OneBehind
<1>6. ThreadsEnd'
  BY <1>1, <1>2, <1>3 DEF Account, ThreadsEnd
<1>7. SocketsAccounted'
  BY <1>1 DEF Account, SocketsAccounted, Known, Outdated
<1>8. QED
  BY <1>4, <1>5, <1>6, <1>7 DEF Account

LEMMA DaemonAccount ==
  ASSUME Foundation, Account, Reliable, NEW g \in Names, DaemonThread(g)
  PROVE  Account'
<1>1. /\ UNCHANGED <<registered_names_, update_sockets>>
      /\ daemon \in [Names -> DaemonState]
  BY DEF DaemonThread, serverVars, tableVars, Foundation, TypeOK, MobileNodeTypeOK
<1>2. CASE FirstRegistration(g)
  BY <1>1, <1>2, SendAccount DEF FirstRegistration, Account, ThreadsEnd
<1>3. CASE WakeMoved(g)
  <2>1. daemon[g] = "asleep" /\ last_known_ip_address_[g] # loc[g]
    BY <1>3, CurrentAddressIsLoc DEF WakeMoved, Reliable, Foundation, AllRegister,
       LastSentIsNoted
  <2>2. registered_names_[g] = last_known_ip_address_[g]
    BY <2>1 DEF Foundation, RegistrationInv, RegisteredInLoop, HasLastSent, LoopState,
       AllRegister, LastSentIsNoted, SubscriptionInv, NoPhantoms
  <2>3. QED
    BY <1>1, <1>3, <2>1, <2>2, SendAccount DEF WakeMoved
<1>4. CASE RegistrationAcked(g)
  BY <1>1, <1>4, AccountQuiet DEF RegistrationAcked, Account, ThreadsEnd, Running
<1>5. CASE WakeUnmoved(g)
  BY <1>1, <1>5, AccountQuiet DEF WakeUnmoved, DaemonGoto, Account, ThreadsEnd, Running
<1>6. CASE PollSubscriptions(g) \/ NoteAddress(g)
  <2>1. /\ daemon[g] # "stopped"
        /\ \E next \in DaemonState \ {"start"} : DaemonGoto(g, next)
    BY <1>6 DEF PollSubscriptions, PollNothing, PollError, PeekUpdate, TakeUpdate,
       WriteAddress, CopyMessages, Resend, Resent, NoteAddress, DaemonState, LoopState,
       PollingState
  <2>2. QED
    BY <1>1, <2>1, AccountQuiet DEF DaemonGoto, Account, ThreadsEnd, Running
<1>7. QED
  BY <1>2, <1>3, <1>4, <1>5, <1>6 DEF DaemonThread, Daemon, RegistrationFails,
     Foundation, AllRegister

LEMMA AppAccount ==
  ASSUME Foundation, Account, Peaceful, NEW g \in Names, AppThread(g)
  PROVE  Account'
<1>1. /\ UNCHANGED <<registered_names_, update_sockets>>
      /\ daemon \in [Names -> DaemonState] /\ app_thread \in [Names -> AppState]
      /\ app_thread[g] \notin {"receive", "take", "echoed", "send", "sent"}
  BY DEF AppThread, serverVars, tableVars, Foundation, TypeOK, MobileNodeTypeOK,
     SubscriptionInv, NobodyChats, RegisterPeerState
<1>2. CASE RegisterPeer(g)
  BY <1>1, <1>2, AccountQuiet DEF RegisterPeer, QueryDns, QueryFails, DnsReplied,
     LookupPeer, LookupReplied, AppGoto, Account, ThreadsEnd, Running, networkVars,
     flightVars
<1>3. CASE GiveUp(g) \/ BindFails(g)
  BY <1>1, <1>3, AccountQuiet DEF GiveUp, BindFails, ProcessEnds, AppGoto, Account,
     ThreadsEnd, Running, flightVars
<1>4. CASE Retry(g)
  BY <1>1, <1>4, AccountQuiet DEF Retry, AppGoto, Account, ThreadsEnd, Running,
     networkVars, flightVars
<1>5. QED
  BY <1>1, <1>2, <1>3, <1>4 DEF AppThread, App, Peaceful, Connected, ReceiveNothing,
     ReceiveError, PeekMessage, ReceiveOwn, ReceiveAndEcho, TakeMessage, SendKeyword,
     SkipSend, NoteSent

LEMMA RegistrationAccount ==
  ASSUME Foundation, ConvergenceInv, DisjointHomes, Reliable, NEW m \in to_regist,
         HandleRegistration(m), UNCHANGED nodeVars
  PROVE  Account'
<1> DEFINE n == m.name
<1>1. /\ n \in Names
      /\ registered_names_' = [registered_names_ EXCEPT ![n] = loc[n]]
      /\ to_regist' = to_regist \ {m} /\ \A q \in to_regist' : q.name # n
      /\ UNCHANGED <<loc, moves, daemon, app_thread>>
      /\ registered_names_ \in [Names -> Addresses \cup {Absent, NoAddr}]
  BY RegistrationEffect DEF nodeVars, Foundation, TypeOK, TablesTypeOK
<1>2. daemon[n] # "start"
  BY <1>1 DEF Foundation, AllRegister, RegistrationInv, RegistrationUnderWay, Waiting
<1>3. \A q \in to_regist : q.name \in Names
  BY DEF Foundation, TypeOK, NetworkTypeOK, Registration
<1> HIDE DEF n
<1>4. \A h \in Names : /\ Known(h)' => Known(h) \/ h = n
                       /\ Outdated(h)' => Outdated(h) /\ h # n
                       /\ Behind(h)' => Behind(h)
  BY <1>1 DEF Known, Outdated, Behind, Running
<1>5. RegistersNews'
  BY <1>1, <1>3 DEF ConvergenceInv, RegistersNews, Known
<1>6. OneBehind'
  BY <1>4 DEF ConvergenceInv, OneBehind
<1>7. ThreadsEnd'
  BY <1>1, <1>2, <1>4 DEF ConvergenceInv, ThreadsEnd, Running
<1>8. QED
  BY <1>5, <1>6, <1>7, SocketForRegistration DEF Account

LEMMA MoveAccount ==
  ASSUME Foundation, ConvergenceInv, Peaceful, Reliable, NEW g \in Names, MachineMoves(g)
  PROVE  Account'
<1>1. Settled /\ moves < MaxMoves
  BY DEF MachineMoves, MayMove, Peaceful
<1>2. /\ to_regist = {} /\ to_regist' = {} /\ moves' = moves + 1
      /\ \A h \in Names \ {g} : loc'[h] = loc[h]
      /\ \A h \in Names : ~Behind(h)
      /\ UNCHANGED <<registered_names_, update_sockets, daemon, app_thread>>
  BY <1>1, SettledMeans DEF ConvergenceInv, MachineMoves, Move, Foundation, TypeOK,
     NetworkTypeOK, flightVars, serverVars, tableVars, nodeVars
<1>3. \A h \in Names : /\ Known(h)' <=> Known(h)
                       /\ Running(h)' <=> Running(h)
                       /\ h # g => (Outdated(h)' <=> Outdated(h))
                       /\ h # g => ~Behind(h)'
  BY <1>2 DEF Known, Running, Outdated, Behind
<1>4. RegistersNews' /\ OneBehind'
  BY <1>2, <1>3 DEF RegistersNews, OneBehind
<1>5. ThreadsEnd'
  BY <1>2, <1>3 DEF ConvergenceInv, ThreadsEnd
<1>6. SocketsAccounted'
  <2> DEFINE K == {h \in Names : Known(h)}
             O == {h \in Names : Outdated(h)}
             after == {h \in Names : Outdated(h)'}
  <2>1. /\ IsFiniteSet(K) /\ IsFiniteSet(O)
        /\ Cardinality(K) \in Nat /\ Cardinality(O) \in Nat
    <3>1. IsFiniteSet(Names) /\ K \subseteq Names /\ O \subseteq Names
      BY DEF Reliable
    <3>2. QED
      BY <3>1, FS_Subset, FS_CardinalityType
  <2>2. /\ moves \in Nat /\ MaxMoves \in Nat /\ update_sockets \in Nat
        /\ update_sockets + Cardinality(O) <= Cardinality(K) + moves
    BY TablesAssumption, PermanentIPAssumption DEF ConvergenceInv, SocketsAccounted,
       Foundation, TypeOK, NetworkTypeOK, TablesTypeOK
  <2>3. after \subseteq O \cup {g}
    BY <1>3
  <2> HIDE DEF K, O, after
  <2>4. /\ IsFiniteSet(O \cup {g})
        /\ Cardinality(O \cup {g}) \in Nat /\ Cardinality(O \cup {g}) <= Cardinality(O) + 1
    <3>1. /\ IsFiniteSet(O \cup {g})
          /\ Cardinality(O \cup {g}) = IF g \in O THEN Cardinality(O) ELSE Cardinality(O) + 1
      BY <2>1, FS_AddElement
    <3>2. QED
      BY <2>1, <3>1
  <2>5. Cardinality(after) \in Nat /\ Cardinality(after) <= Cardinality(O \cup {g})
    BY <2>3, <2>4, FS_Subset, FS_CardinalityType
  <2>6. update_sockets + Cardinality(after) <= Cardinality(K) + (moves + 1)
    BY <2>1, <2>2, <2>4, <2>5
  <2>7. moves' <= MaxMoves
    BY <1>1, <1>2, <2>2
  <2>8. {h \in Names : Known(h)'} = K /\ {h \in Names : Outdated(h)'} = after
    BY <1>3 DEF K, after
  <2>9. QED
    BY <1>2, <2>6, <2>7, <2>8 DEF SocketsAccounted
<1>7. QED
  BY <1>4, <1>5, <1>6 DEF Account

-------------------------------------------------------------------------------
(* What is on its way to a node, subscribed or not *)

Words == Addresses \cup {NoAddr} \cup Names
Heard(h) == Texts(app_queue[h]) \o Texts(Ordered(NoticesTo(h)))
InOrderTo(h) == InOrderSent(Ordered(NoticesTo(h)), NoticesTo(h))

LEMMA OnItsWay ==
  ASSUME Foundation, NoticesReachable, NEW h \in Names
  PROVE  /\ NoticesTo(h) \subseteq Notice /\ InOrderTo(h)
         /\ \A d \in NoticesTo(h) : d.seq \in Nat /\ d.seq < handled
         /\ \A d \in Notice : d.text \in Words
         /\ \A d \in Received : d.text \in Words
         /\ handled \in Nat
         /\ app_queue[h] \in Seq(Received) /\ Ordered(NoticesTo(h)) \in Seq(Notice)
         /\ Texts(app_queue[h]) \in Seq(Words) /\ Texts(Ordered(NoticesTo(h))) \in Seq(Words)
         /\ Heard(h) \in Seq(Words)
<1>1. /\ NoticesTo(h) \subseteq Notice /\ handled \in Nat /\ app_queue[h] \in Seq(Received)
      /\ \A d \in Notice : d.text \in Words /\ d.seq \in Nat
      /\ \A d \in Received : d.text \in Words
  BY DEF Foundation, TypeOK, NetworkTypeOK, NoticesTo, Notice, Received, Words
<1>2. InOrderTo(h) /\ \A d \in NoticesTo(h) : d.seq < handled
  BY DEF NoticesReachable, InOrderTo, NoticesTo
<1>3. Ordered(NoticesTo(h)) \in Seq(NoticesTo(h))
  BY <1>2 DEF InOrderTo, InOrderSent
<1>4. Ordered(NoticesTo(h)) \in Seq(Notice)
  BY <1>1, <1>3
<1>5. Texts(app_queue[h]) \in Seq(Words) /\ Texts(Ordered(NoticesTo(h))) \in Seq(Words)
  BY <1>1, <1>4, TextsAre
<1>6. QED
  BY <1>1, <1>2, <1>4, <1>5 DEF Heard

LEMMA NothingHappensTo ==
  ASSUME NEW h \in Names, InOrderTo(h), NoticesTo(h)' = NoticesTo(h),
         app_queue'[h] = app_queue[h]
  PROVE  InOrderTo(h)' /\ Heard(h)' = Heard(h)
BY DEF InOrderTo, Heard

LEMMA NoticeSent ==
  ASSUME Foundation, NoticesReachable, NEW h \in Names, NEW e \in Notice,
         e.seq = handled, NoticesTo(h)' = NoticesTo(h) \cup {e},
         app_queue'[h] = app_queue[h]
  PROVE  InOrderTo(h)' /\ Heard(h)' = Append(Heard(h), e.text)
<1> DEFINE order == Ordered(NoticesTo(h))
<1>1. /\ InOrderSent(Append(order, e), NoticesTo(h) \cup {e})
      /\ Ordered(NoticesTo(h) \cup {e}) = Append(order, e)
  BY OnItsWay, OrderedMore DEF InOrderTo
<1>2. InOrderTo(h)'
  BY <1>1 DEF InOrderTo
<1>3. Texts(Append(order, e)) = Append(Texts(order), e.text)
  <2>1. order \in Seq(Notice) /\ \A d \in Notice : d.text \in Words
    BY OnItsWay
  <2>2. QED
    BY <2>1, TextsMore
<1>4. e.text \in Words
  BY OnItsWay
<1>5. Texts(app_queue[h]) \o Append(Texts(order), e.text)
        = Append(Texts(app_queue[h]) \o Texts(order), e.text)
  BY <1>4, OnItsWay, AppendConcat
<1>6. QED
  BY <1>1, <1>2, <1>3, <1>5 DEF Heard

LEMMA NoticeDelivered ==
  ASSUME Foundation, NoticesReachable, NEW h \in Names, NEW e \in NoticesTo(h),
         \A d \in NoticesTo(h) : e.seq <= d.seq, NoticesTo(h)' = NoticesTo(h) \ {e},
         app_queue'[h] = Append(app_queue[h], [from |-> RendezvousServer, text |-> e.text])
  PROVE  InOrderTo(h)' /\ Heard(h)' = Heard(h)
<1> DEFINE order == Ordered(NoticesTo(h))
           r == [from |-> RendezvousServer, text |-> e.text]
<1>1. /\ order # <<>> /\ Head(order) = e
      /\ InOrderSent(Tail(order), NoticesTo(h) \ {e})
      /\ Ordered(NoticesTo(h) \ {e}) = Tail(order)
  BY OnItsWay, OrderedLess DEF InOrderTo
<1>2. InOrderTo(h)'
  BY <1>1 DEF InOrderTo
<1>3. r \in Received /\ r.text = e.text
  BY OnItsWay DEF Received, Notice
<1> HIDE DEF r
<1>4. Texts(Append(app_queue[h], r)) = Append(Texts(app_queue[h]), e.text)
  <2>1. app_queue[h] \in Seq(Received) /\ \A d \in Received : d.text \in Words
    BY OnItsWay
  <2>2. Texts(Append(app_queue[h], r)) = Append(Texts(app_queue[h]), r.text)
    BY <1>3, <2>1, TextsMore
  <2>3. QED
    BY <1>3, <2>2
<1>5. /\ Texts(order) # <<>> /\ Head(Texts(order)) = e.text
      /\ Texts(Tail(order)) = Tail(Texts(order))
  BY <1>1, OnItsWay, TextsLess
<1>6. Append(Texts(app_queue[h]), e.text) \o Tail(Texts(order))
        = Texts(app_queue[h]) \o Texts(order)
  BY <1>5, OnItsWay, HandConcat
<1>7. QED
  BY <1>1, <1>2, <1>4, <1>5, <1>6 DEF Heard, r

LEMMA NoticeRead ==
  ASSUME Foundation, NoticesReachable, NEW h \in Names, app_queue[h] # <<>>,
         NoticesTo(h)' = NoticesTo(h), app_queue'[h] = Tail(app_queue[h])
  PROVE  /\ InOrderTo(h)' /\ Heard(h) # <<>> /\ Head(Heard(h)) = Head(app_queue[h]).text
         /\ Heard(h)' = Tail(Heard(h))
<1>1. InOrderTo(h)'
  BY OnItsWay DEF InOrderTo
<1>2. /\ Texts(app_queue[h]) # <<>> /\ Head(Texts(app_queue[h])) = Head(app_queue[h]).text
      /\ Texts(Tail(app_queue[h])) = Tail(Texts(app_queue[h]))
  BY OnItsWay, TextsLess
<1> DEFINE s == Texts(app_queue[h])
           order == Texts(Ordered(NoticesTo(h)))
<1>3. s \in Seq(Words) /\ order \in Seq(Words)
  BY OnItsWay
<1>4. s \o order # <<>> /\ Head(s \o order) = Head(s) /\ Tail(s \o order) = Tail(s) \o order
  BY <1>2, <1>3, TailConcat
<1>5. QED
  BY <1>1, <1>2, <1>4 DEF Heard

LEMMA HeardNothing ==
  ASSUME NEW h \in Names, NoticesTo(h) = {}, app_queue[h] = <<>>
  PROVE  Heard(h) = <<>>
<1>1. Texts(<<>>) = <<>>
  BY DEF Texts
<1>2. QED
  BY <1>1, OrderedEmpty DEF Heard

-------------------------------------------------------------------------------
(* Each step is one of LocationService *)

LEMMA ViewType ==
  ASSUME Foundation
  PROVE  View \in [Names -> Addresses \cup {Absent, NoAddr}]
BY IPStringToIntType DEF View, Foundation, TypeOK, MobileNodeTypeOK

\* A thread that has not found its peer has no update to write.
LEMMA ViewOfOthers ==
  ASSUME Foundation, NEW h \in Names, app_thread[h] \in RegisterPeerState \ {"found"}
  PROVE  app_sockets_[h] = Absent /\ daemon[h] # "writing" /\ View[h] = Absent
<1>1. app_sockets_[h] = Absent
  BY DEF Foundation, PeekInv, ConnectedForGood, ConnectedState, RegisterPeerState
<1>2. QED
  BY <1>1 DEF Foundation, PeekInv, ConnectedForGood, View

LEMMA SameView ==
  ASSUME UNCHANGED <<daemon, buffer, app_sockets_>>
  PROVE  UNCHANGED View
BY DEF View

LEMMA ToldIsHeard ==
  \A h \in Names : Told[h] = IF Subscribed(h) THEN Heard(h) ELSE <<>>
BY DEF Told, ToldTo, Heard

\* A registration handled is one of the abstract server.
LEMMA RegistrationSimulated ==
  ASSUME Foundation, ConvergenceInv, DisjointHomes, Reliable, NEW m \in to_regist,
         HandleRegistration(m), UNCHANGED nodeVars
  PROVE  NoticesReachable' /\ Service!Register(m.name)
<1> DEFINE n == m.name
           audience == {h \in Names : Subscribed(h) /\ PeerOf[h] = n}
<1>1. /\ n \in Names
      /\ registered_names_' = [registered_names_ EXCEPT ![n] = loc[n]]
      /\ to_app' = to_app \cup {NoticeTo(h, loc[n]) : h \in audience}
      /\ handled' = handled + 1
      /\ UNCHANGED <<subscriptions_, loc, app_queue, app_thread, View>>
      /\ NoticesReachable
  BY RegistrationEffect, SameView DEF nodeVars, pollVars, ConvergenceInv
<1> HIDE DEF n
<1>2. \A h \in Names : /\ loc[h] \in Addresses /\ (Subscribed(h)' <=> Subscribed(h))
                       /\ (Running(h)' <=> Running(h))
  BY <1>1, WhereNodesAre DEF Subscribed, Running
<1>3. \A h \in Names : /\ NoticeTo(h, loc[n]) \in Notice
                       /\ NoticeTo(h, loc[n]).to = loc[h]
                       /\ NoticeTo(h, loc[n]).port = AppPort
                       /\ NoticeTo(h, loc[n]).seq = handled
                       /\ NoticeTo(h, loc[n]).text = loc[n]
  BY <1>1, <1>2, MobileNodeAssumption DEF NoticeTo, Notice, Foundation, TypeOK
<1>4. ASSUME NEW h \in Names
      PROVE  /\ InOrderTo(h)'
             /\ Heard(h)' = IF h \in audience THEN Append(Heard(h), loc[n]) ELSE Heard(h)
  <2>1. CASE h \in audience
    <3>1. NoticesTo(h)' = NoticesTo(h) \cup {NoticeTo(h, loc[n])}
      BY <1>1, <1>3, <2>1, LocationsDiffer DEF NoticesTo
    <3>2. QED
      BY <1>1, <1>3, <2>1, <3>1, NoticeSent
  <2>2. CASE h \notin audience
    <3>1. NoticesTo(h)' = NoticesTo(h)
      BY <1>1, <1>3, <2>2, LocationsDiffer DEF NoticesTo
    <3>2. QED
      BY <1>1, <2>2, <3>1, OnItsWay, NothingHappensTo
  <2>3. QED
    BY <2>1, <2>2
<1>5. NoticesReachable'
  <2>1. ASSUME NEW d \in to_app'
        PROVE  /\ d.seq < handled' /\ d.port = AppPort
               /\ \E h \in Names : Running(h)' /\ d.to = loc'[h]
    <3>1. handled \in Nat /\ \A e \in to_app : e.seq \in Nat
      BY DEF Foundation, TypeOK, NetworkTypeOK, Notice
    <3>2. \A h \in audience : Running(h)
      BY SubscribersRun
    <3>3. QED
      BY <1>1, <1>2, <1>3, <3>1, <3>2 DEF NoticesReachable
  <2>2. \A h \in Names : \A i \in DOMAIN app_queue'[h] :
          app_queue'[h][i].from = RendezvousServer
    BY <1>1 DEF NoticesReachable
  <2>3. QED
    BY <1>4, <2>1, <2>2 DEF NoticesReachable, InOrderTo
<1>6. Service!Register(n)
  <2>1. UNCHANGED <<UpNodes, Subscribers>>
    BY <1>2 DEF UpNodes, Subscribers
  <2>2. \A h \in Names : Told'[h] = IF h \in Subscribers /\ PeerOf[h] = n
                                      THEN Append(Told[h], loc[n]) ELSE Told[h]
    BY <1>2, <1>4, ToldIsHeard DEF Subscribers, Told, ToldTo, Heard
  <2>3. Told' = [h \in Names |-> IF h \in Subscribers /\ PeerOf[h] = n
                                   THEN Append(Told[h], loc[n]) ELSE Told[h]]
    BY <2>2 DEF Told
  <2>4. QED
    BY <1>1, <2>1, <2>3 DEF Service!Register
<1>7. QED
  BY <1>5, <1>6 DEF n

\* A lookup handled is a subscription, or nothing.
LEMMA LookupSimulated ==
  ASSUME Foundation, ConvergenceInv, DisjointHomes, NEW m \in to_lookup,
         HandleLookup(m), UNCHANGED nodeVars
  PROVE  /\ NoticesReachable'
         /\ Service!Subscribe(m.subscriber) \/ UNCHANGED Service!vars
<1> DEFINE s == m.subscriber
           e == NoticeTo(s, LookupResult(PeerOf[s]))
<1>1. /\ s \in Names /\ PeerOf[s] \in Names /\ app_thread[s] = "rs_wait"
      /\ ~Subscribed(s) /\ NothingTold(s)
      /\ \A h \in Names : Subscribed(h)' <=> Subscribed(h) \/ (h = s /\ Known(PeerOf[s]))
      /\ to_app' = to_app \cup {e}
      /\ handled' = handled + 1
      /\ UNCHANGED <<registered_names_, loc, app_queue, app_thread, View>>
      /\ NoticesReachable
  BY LookupEffect, SameView DEF nodeVars, pollVars, ConvergenceInv
<1> HIDE DEF s
<1>2. e \in Notice /\ e.to = loc[s] /\ e.port = AppPort /\ e.seq = handled
  <2>1. LookupResult(PeerOf[s]) \in Addresses \cup {NoAddr} /\ loc[s] \in Addresses
    BY <1>1, WhereNodesAre DEF LookupResult, Known, Foundation, TypeOK, TablesTypeOK
  <2>2. QED
    BY <1>1, <2>1, MobileNodeAssumption DEF NoticeTo, Notice, Foundation, TypeOK
<1>3. Known(PeerOf[s]) => e.text = registered_names_[PeerOf[s]]
  BY DEF NoticeTo, LookupResult
<1> HIDE DEF e
<1>4. NoticesTo(s) = {} /\ app_queue[s] = <<>> /\ Heard(s) = <<>>
  BY <1>1, NoticesForNode, HeardNothing DEF NothingTold
<1>5. ASSUME NEW h \in Names
      PROVE  /\ InOrderTo(h)'
             /\ Heard(h)' = IF h = s THEN <<e.text>> ELSE Heard(h)
  <2>1. CASE h = s
    <3>1. NoticesTo(h)' = NoticesTo(h) \cup {e}
      BY <1>1, <1>2, <2>1 DEF NoticesTo
    <3>2. InOrderTo(h)' /\ Heard(h)' = Append(Heard(h), e.text)
      BY <1>1, <1>2, <2>1, <3>1, NoticeSent
    <3>3. QED
      BY <1>4, <2>1, <3>2
  <2>2. CASE h # s
    <3>1. NoticesTo(h)' = NoticesTo(h)
      BY <1>1, <1>2, <2>2, LocationsDiffer DEF NoticesTo
    <3>2. QED
      BY <1>1, <2>2, <3>1, OnItsWay, NothingHappensTo
  <2>3. QED
    BY <2>1, <2>2
<1>6. NoticesReachable'
  <2>1. ASSUME NEW d \in to_app'
        PROVE  /\ d.seq < handled' /\ d.port = AppPort
               /\ \E h \in Names : Running(h)' /\ d.to = loc'[h]
    <3>1. handled \in Nat /\ \A f \in to_app : f.seq \in Nat
      BY DEF Foundation, TypeOK, NetworkTypeOK, Notice
    <3>2. QED
      BY <1>1, <1>2, <3>1 DEF NoticesReachable, Running
  <2>2. \A h \in Names : \A i \in DOMAIN app_queue'[h] :
          app_queue'[h][i].from = RendezvousServer
    BY <1>1 DEF NoticesReachable
  <2>3. QED
    BY <1>5, <2>1, <2>2 DEF NoticesReachable, InOrderTo
<1>7. UNCHANGED UpNodes
  BY <1>1 DEF UpNodes, Running
<1>8. \A h \in Names : Told'[h] = IF Subscribed(h)' THEN Heard(h)' ELSE <<>>
  BY DEF Told, ToldTo, Heard
<1>9. CASE Known(PeerOf[s])
  <2>1. Subscribers' = Subscribers \cup {s} /\ s \in UpNodes \ Subscribers
    BY <1>1, <1>9 DEF Subscribers, UpNodes, Running
  <2>2. \A h \in Names : Told'[h] = IF h = s THEN Append(Told[s], registered_names_[PeerOf[s]])
                                            ELSE Told[h]
    <3>1. Told[s] = <<>>
      BY <1>1, ToldIsHeard
    <3>2. QED
      BY <1>1, <1>3, <1>5, <1>8, <1>9, <3>1, ToldIsHeard
  <2>3. Told' = [Told EXCEPT ![s] = Append(@, registered_names_[PeerOf[s]])]
    BY <1>1, <2>2 DEF Told
  <2>4. QED
    BY <1>1, <1>6, <1>7, <1>9, <2>1, <2>3 DEF Service!Subscribe, Known, s
<1>10. CASE ~Known(PeerOf[s])
  <2>1. UNCHANGED Subscribers
    BY <1>1, <1>10 DEF Subscribers
  <2>2. \A h \in Names : Told'[h] = Told[h]
    BY <1>1, <1>5, <1>8, <1>10, ToldIsHeard
  <2>3. UNCHANGED Told
    BY <2>2 DEF Told
  <2>4. QED
    BY <1>1, <1>6, <1>7, <2>1, <2>3 DEF Service!vars
<1>11. QED
  BY <1>9, <1>10

\* A delivery is invisible: what was on its way still is.
LEMMA DeliverySimulated ==
  ASSUME Foundation, NoticesReachable, DisjointHomes, Reliable, NEW g \in Names,
         Delivery(g)
  PROVE  NoticesReachable' /\ UNCHANGED Service!vars
<1>1. PICK e \in NoticesTo(g) :
        /\ \A d \in NoticesTo(g) : e.seq <= d.seq
        /\ to_app' = to_app \ {e}
        /\ app_queue' = [app_queue EXCEPT ![g] =
                           Append(@, [from |-> RendezvousServer, text |-> e.text])]
        /\ UNCHANGED <<loc, serverVars, nodeVars>>
  BY DeliveryEffect
<1>2. /\ UNCHANGED <<loc, registered_names_, subscriptions_, handled, app_thread,
                     View>>
      /\ app_queue \in [Names -> Seq(Received)]
  BY <1>1, SameView DEF serverVars, tableVars, nodeVars, pollVars, Foundation, TypeOK, NetworkTypeOK
<1>3. \A h \in Names : /\ (Subscribed(h)' <=> Subscribed(h))
                       /\ (Running(h)' <=> Running(h))
  BY <1>2 DEF Subscribed, Running
<1>4. ASSUME NEW h \in Names
      PROVE  InOrderTo(h)' /\ Heard(h)' = Heard(h)
  <2>1. CASE h = g
    <3>1. NoticesTo(h)' = NoticesTo(h) \ {e}
      BY <1>1, <1>2, <2>1 DEF NoticesTo
    <3>2. QED
      BY <1>1, <1>2, <2>1, <3>1, NoticeDelivered
  <2>2. CASE h # g
    <3>1. NoticesTo(h)' = NoticesTo(h)
      BY <1>1, <1>2, <2>2, LocationsDiffer DEF NoticesTo
    <3>2. app_queue'[h] = app_queue[h]
      BY <1>1, <1>2, <2>2
    <3>3. QED
      BY <3>1, <3>2, OnItsWay, NothingHappensTo
  <2>3. QED
    BY <2>1, <2>2
<1>5. \A h \in Names : \A i \in DOMAIN app_queue'[h] :
        app_queue'[h][i].from = RendezvousServer
  <2> SUFFICES ASSUME NEW h \in Names, NEW i \in DOMAIN app_queue'[h]
               PROVE  app_queue'[h][i].from = RendezvousServer
    OBVIOUS
  <2> DEFINE r == [from |-> RendezvousServer, text |-> e.text]
  <2>1. app_queue'[h] = IF h = g THEN Append(app_queue[h], r) ELSE app_queue[h]
    BY <1>1, <1>2
  <2>2. r.from = RendezvousServer
    OBVIOUS
  <2> HIDE DEF r
  <2>3. app_queue[h] \in Seq(Received)
    BY <1>2
  <2>4. \/ i \in DOMAIN app_queue[h] /\ app_queue'[h][i] = app_queue[h][i]
        \/ app_queue'[h][i] = r
    BY <2>1, <2>3
  <2>5. QED
    BY <2>2, <2>4 DEF NoticesReachable
<1>6. NoticesReachable'
  BY <1>1, <1>2, <1>3, <1>4, <1>5 DEF NoticesReachable, InOrderTo
<1>7. \A h \in Names : Told'[h] = Told[h]
  BY <1>3, <1>4, ToldIsHeard DEF Told, ToldTo, Heard
<1>8. UNCHANGED <<UpNodes, Subscribers, Told>>
  BY <1>3, <1>7 DEF UpNodes, Subscribers, Told
<1>9. QED
  BY <1>2, <1>6, <1>8 DEF Service!vars

\* Who takes the oldest datagram from its socket has heard it.
LEMMA ReadSimulated ==
  ASSUME Foundation, NoticesReachable, NEW g \in Names, app_queue[g] # <<>>,
         app_queue' = [app_queue EXCEPT ![g] = Tail(@)],
         UNCHANGED <<loc, registered_names_, subscriptions_, handled, to_app>>,
         \A h \in Names : Running(h)' <=> Running(h),
         View' = IF Subscribed(g) THEN [View EXCEPT ![g] = Head(app_queue[g]).text]
                                  ELSE View
  PROVE  /\ NoticesReachable'
         /\ Service!Learn(g) \/ UNCHANGED Service!vars
<1>1. /\ \A h \in Names : Subscribed(h)' <=> Subscribed(h)
      /\ app_queue \in [Names -> Seq(Received)]
  BY DEF Subscribed, Foundation, TypeOK, NetworkTypeOK
<1>2. \A h \in Names : NoticesTo(h)' = NoticesTo(h)
  BY DEF NoticesTo
<1>3. ASSUME NEW h \in Names
      PROVE  /\ InOrderTo(h)'
             /\ h # g => Heard(h)' = Heard(h)
             /\ h = g => /\ Heard(h) # <<>> /\ Head(Heard(h)) = Head(app_queue[h]).text
                         /\ Heard(h)' = Tail(Heard(h))
  <2>1. CASE h = g
    <3>1. app_queue'[h] = Tail(app_queue[h])
      BY <1>1, <2>1
    <3>2. QED
      BY <1>2, <2>1, <3>1, NoticeRead
  <2>2. CASE h # g
    <3>1. app_queue'[h] = app_queue[h]
      BY <1>1, <2>2
    <3>2. QED
      BY <1>2, <2>2, <3>1, OnItsWay, NothingHappensTo
  <2>3. QED
    BY <2>1, <2>2
<1>4. \A h \in Names : \A i \in DOMAIN app_queue'[h] :
        app_queue'[h][i].from = RendezvousServer
  <2> SUFFICES ASSUME NEW h \in Names, NEW i \in DOMAIN app_queue'[h]
               PROVE  app_queue'[h][i].from = RendezvousServer
    OBVIOUS
  <2>1. app_queue'[h] = IF h = g THEN Tail(app_queue[h]) ELSE app_queue[h]
    BY <1>1
  <2>2. app_queue[h] \in Seq(Received)
    BY <1>1
  <2>3. \E j \in DOMAIN app_queue[h] : app_queue'[h][i] = app_queue[h][j]
    <3>1. CASE h = g
      <4>1. i + 1 \in DOMAIN app_queue[h] /\ app_queue'[h][i] = app_queue[h][i + 1]
        BY <2>1, <3>1, QueueTail DEF Foundation
      <4>2. QED
        BY <4>1
    <3>2. CASE h # g
      BY <2>1, <3>2
    <3>3. QED
      BY <3>1, <3>2
  <2>4. QED
    BY <2>3 DEF NoticesReachable
<1>5. NoticesReachable'
  BY <1>3, <1>4 DEF NoticesReachable, InOrderTo
<1>6. UNCHANGED <<UpNodes, Subscribers>>
  BY <1>1 DEF UpNodes, Subscribers
<1>7. \A h \in Names : Told'[h] = IF Subscribed(h) THEN Heard(h)' ELSE <<>>
  BY <1>1 DEF Told, ToldTo, Heard
<1>8. CASE Subscribed(g)
  <2>1. Told[g] # <<>> /\ Head(Told[g]) = Head(app_queue[g]).text
    BY <1>3, <1>8, ToldIsHeard
  <2>2. \A h \in Names : Told'[h] = IF h = g THEN Tail(Told[h]) ELSE Told[h]
    BY <1>3, <1>7, <1>8, ToldIsHeard
  <2>3. Told' = [Told EXCEPT ![g] = Tail(@)]
    BY <2>2 DEF Told
  <2>4. QED
    BY <1>5, <1>6, <1>8, <2>1, <2>3 DEF Service!Learn
<1>9. CASE ~Subscribed(g)
  <2>1. \A h \in Names : Told'[h] = Told[h]
    BY <1>3, <1>7, <1>9, ToldIsHeard
  <2>2. UNCHANGED Told
    BY <2>1 DEF Told
  <2>3. QED
    BY <1>5, <1>6, <1>9, <2>2 DEF Service!vars
<1>10. QED
  BY <1>8, <1>9

\* Nothing that a node is told changes, nor where it is.
LEMMA QuietSimulated ==
  ASSUME NoticesReachable,
         UNCHANGED <<loc, registered_names_, subscriptions_, handled, to_app, app_queue,
                     View>>,
         \A h \in Names : Running(h)' <=> Running(h)
  PROVE  NoticesReachable' /\ UNCHANGED Service!vars
<1>1. \A h \in Names : /\ NoticesTo(h)' = NoticesTo(h)
                       /\ (Subscribed(h)' <=> Subscribed(h))
  BY DEF NoticesTo, Subscribed
<1>2. \A h \in Names : InOrderTo(h)' /\ Heard(h)' = Heard(h)
  BY <1>1, NothingHappensTo DEF NoticesReachable, InOrderTo
<1>3. NoticesReachable'
  BY <1>2 DEF NoticesReachable, InOrderTo
<1>4. \A h \in Names : Told'[h] = Told[h]
  BY <1>1, <1>2, ToldIsHeard DEF Told, ToldTo, Heard
<1>5. UNCHANGED <<UpNodes, Subscribers, Told>>
  BY <1>1, <1>4 DEF UpNodes, Subscribers, Told
<1>6. QED
  BY <1>3, <1>5 DEF Service!vars

\* Only a node that was told nothing ends.
LEMMA GiveUpSimulated ==
  ASSUME Foundation, NoticesReachable, NEW g \in Names,
         app_thread[g] \in {"query", "null"}, ProcessEnds(g),
         UNCHANGED <<serverVars>>
  PROVE  NoticesReachable' /\ Service!GiveUp(g)
<1>1. /\ ~Subscribed(g) /\ NoticesFor(g) = {} /\ app_queue[g] = <<>>
  BY DEF Foundation, SubscriptionInv, Answered, SubscribedOnce, UnknownToldOnce, NothingTold
<1>v. UNCHANGED View
  BY ViewOfOthers DEF View, ProcessEnds, pollVars, RegisterPeerState
<1>2. /\ app_thread' = [app_thread EXCEPT ![g] = "exited"]
      /\ UNCHANGED <<loc, to_app, registered_names_, subscriptions_, handled>>
      /\ app_thread \in [Names -> AppState]
      /\ app_queue \in [Names -> Seq(Received)]
  BY DEF ProcessEnds, AppGoto, flightVars, serverVars, tableVars, Foundation, TypeOK,
     MobileNodeTypeOK, NetworkTypeOK
<1>3. UNCHANGED app_queue
  BY <1>1, <1>2 DEF ProcessEnds
<1>4. \A h \in Names : /\ NoticesTo(h)' = NoticesTo(h)
                       /\ (Subscribed(h)' <=> Subscribed(h))
                       /\ Running(h)' <=> Running(h) /\ h # g
  BY <1>2 DEF NoticesTo, Subscribed, Running
<1>5. \A h \in Names : InOrderTo(h)' /\ Heard(h)' = Heard(h)
  BY <1>3, <1>4, NothingHappensTo DEF NoticesReachable, InOrderTo
<1>6. \A d \in to_app : d.to # loc[g]
  BY <1>1, WhereNodesAre DEF NoticesFor
<1>7. NoticesReachable'
  BY <1>2, <1>3, <1>4, <1>5, <1>6 DEF NoticesReachable, InOrderTo
<1>8. \A h \in Names : Told'[h] = Told[h]
  BY <1>4, <1>5, ToldIsHeard DEF Told, ToldTo, Heard
<1>9. /\ UNCHANGED <<Subscribers, Told>> /\ UpNodes' = UpNodes \ {g}
      /\ g \in UpNodes \ Subscribers
  BY <1>1, <1>4, <1>8 DEF UpNodes, Subscribers, Told, Running
<1>10. QED
  BY <1>v, <1>2, <1>7, <1>9 DEF Service!GiveUp

\* A machine moves when everybody has heard everything.
LEMMA MoveSimulated ==
  ASSUME Foundation, ConvergenceInv, Peaceful, Reliable, NEW g \in Names, MachineMoves(g)
  PROVE  NoticesReachable' /\ Service!Move(g)
<1>1. /\ Settled /\ NoticesReachable
      /\ UNCHANGED <<registered_names_, subscriptions_, handled, to_app, app_queue,
                     View, app_thread>>
  BY SameView DEF MachineMoves, MayMove, Move, Peaceful, ConvergenceInv, flightVars,
     serverVars, tableVars, nodeVars, pollVars
<1>2. /\ to_app = {}
      /\ \A h \in Names : Running(h) => registered_names_[h] = loc[h] /\ app_queue[h] = <<>>
  BY <1>1, SettledMeans
<1>3. /\ \A h \in Names : NoticesTo(h) = {} /\ NoticesTo(h)' = {}
      /\ \A h \in Names : (Subscribed(h)' <=> Subscribed(h)) /\ (Running(h)' <=> Running(h))
  BY <1>1, <1>2 DEF NoticesTo, Subscribed, Running
<1>4. \A h \in Names : InOrderTo(h)' /\ Heard(h)' = Heard(h)
  BY <1>1, <1>3, NothingHappensTo DEF NoticesReachable, InOrderTo
<1>5. NoticesReachable'
  BY <1>1, <1>2, <1>4 DEF NoticesReachable, InOrderTo
<1>6. \A h \in Names : Told'[h] = Told[h]
  BY <1>3, <1>4, ToldIsHeard DEF Told, ToldTo, Heard
<1>7. UNCHANGED <<UpNodes, Subscribers, Told>>
  BY <1>3, <1>6 DEF UpNodes, Subscribers, Told
<1>8. \A h \in UpNodes : /\ registered_names_[h] = loc[h] /\ Told[h] = <<>>
  BY <1>2, <1>3, HeardNothing, ToldIsHeard DEF UpNodes
<1>9. \A h \in UpNodes : h \in Subscribers => View[h] = registered_names_[PeerOf[h]]
  <2> SUFFICES ASSUME NEW h \in UpNodes, Subscribed(h)
               PROVE  View[h] = registered_names_[PeerOf[h]]
    BY DEF Subscribers
  <2>1. h \in Names /\ Newest(h) /\ Told[h] = <<>>
    BY <1>8 DEF UpNodes, ConvergenceInv
  <2>2. <<View[h]>> \o Told[h] = <<View[h]>>
    BY <2>1
  <2>3. QED
    BY <2>1, <2>2 DEF Newest
<1>10. \E a \in Addresses : loc' = [loc EXCEPT ![g] = a]
  BY HomesType DEF MachineMoves, Move
<1>11. QED
  BY <1>1, <1>5, <1>7, <1>8, <1>9, <1>10 DEF Service!Move, Service!Pushed

\* A subscriber finds addresses, the others that their peer is not known.
LEMMA OldestIsAddress ==
  ASSUME Foundation, NoticesReachable, NEW h \in Names, app_queue[h] # <<>>
  PROVE  LET text == Head(app_queue[h]).text
         IN  /\ Subscribed(h) => text # NoAddr /\ IPStringToInt(text) = text
             /\ ~Subscribed(h) => text = NoAddr
<1>1. 1 \in DOMAIN app_queue[h] /\ Head(app_queue[h]) = app_queue[h][1]
  BY QueueTail DEF Foundation
<1>2. app_queue[h][1] \in Received /\ app_queue[h][1].from = RendezvousServer
  BY <1>1 DEF Foundation, TypeOK, NetworkTypeOK, NoticesReachable
<1>3. app_queue[h][1].text \in Addresses \cup {NoAddr}
  BY <1>2, NetworkAssumption DEF Received
<1>4. QED
  BY <1>1, <1>3 DEF IPStringToInt, Foundation, SubscriptionInv, Answered, SubscribedOnce,
     UnknownToldOnce

\* What each step has to be.
Simulated == NoticesReachable' /\ [Service!Next]_(Service!vars)

LEMMA DaemonSimulated ==
  ASSUME Foundation, ConvergenceInv, NEW g \in Names, DaemonThread(g)
  PROVE  Simulated
<1>1. /\ UNCHANGED <<registered_names_, subscriptions_, handled>>
      /\ NoticesReachable
  BY DEF DaemonThread, serverVars, tableVars, ConvergenceInv
<1>t. /\ daemon \in [Names -> DaemonState]
      /\ buffer \in [Names -> Addresses \cup Names \cup {Absent, NoAddr}]
      /\ app_sockets_ \in [Names -> Addresses \cup {Absent, NoAddr}]
  BY DEF Foundation, TypeOK, MobileNodeTypeOK
<1>q. ASSUME UNCHANGED <<loc, to_app, app_queue, app_thread, View>>
      PROVE  Simulated
  <2>1. \A h \in Names : Running(h)' <=> Running(h)
    BY <1>q DEF Running
  <2>2. QED
    BY <1>1, <1>q, <2>1, QuietSimulated DEF Simulated
<1>2. CASE TakeUpdate(g)
  <2>1. /\ app_queue[g] # <<>> /\ daemon[g] = "taking"
        /\ app_queue' = [app_queue EXCEPT ![g] = Tail(@)]
        /\ daemon' = [daemon EXCEPT ![g] = "writing"]
        /\ buffer' = [buffer EXCEPT ![g] = Head(app_queue[g]).text]
        /\ UNCHANGED <<loc, to_app, app_thread, app_sockets_>>
    BY <1>2 DEF TakeUpdate, DaemonGoto
  <2>2. Subscribed(g)
    BY <2>1 DEF Foundation, PeekInv, ConnectedForGood, SubscriptionInv, NobodyChats,
       Answered, UnknownToldOnce
  <2>3. IPStringToInt(Head(app_queue[g]).text) = Head(app_queue[g]).text
    BY <1>1, <2>1, <2>2, OldestIsAddress
  <2>4. \A h \in Names : Running(h)' <=> Running(h)
    BY <2>1 DEF Running
  <2>v. View' = [View EXCEPT ![g] = Head(app_queue[g]).text]
    BY <1>t, <2>1, <2>3 DEF View
  <2>5. NoticesReachable' /\ (Service!Learn(g) \/ UNCHANGED Service!vars)
    BY <1>1, <2>1, <2>2, <2>4, <2>v, ReadSimulated
  <2>6. QED
    BY <2>5 DEF Simulated, Service!Next
<1>3. CASE WriteAddress(g)
  <2>1. /\ daemon[g] = "writing"
        /\ app_sockets_' = [app_sockets_ EXCEPT ![g] = IPStringToInt(buffer[g])]
        /\ daemon' = [daemon EXCEPT ![g] = "copying"]
        /\ buffer' = [buffer EXCEPT ![g] = Absent]
        /\ UNCHANGED <<loc, to_app, app_thread, app_queue>>
    BY <1>3 DEF WriteAddress, DaemonGoto
  <2>2. UNCHANGED View
    BY <1>t, <2>1 DEF View
  <2>3. QED
    BY <1>q, <2>1, <2>2
<1>4. CASE Daemon(g) /\ ~TakeUpdate(g) /\ ~WriteAddress(g)
  <2>1. /\ UNCHANGED <<loc, to_app, app_queue, app_thread, buffer, app_sockets_>>
        /\ daemon[g] # "writing"
        /\ \E next \in DaemonState \ {"writing"} : daemon' = [daemon EXCEPT ![g] = next]
    BY <1>4 DEF Daemon, FirstRegistration, RegistrationAcked, WakeMoved, WakeUnmoved,
       SendRegistration, RegistrationFails, PollSubscriptions, PollNothing, PollError,
       PeekUpdate, CopyMessages, Resend, Resent, NoteAddress, DaemonGoto, pollVars,
       DaemonState, LoopState, PollingState
  <2>2. UNCHANGED View
    BY <1>t, <2>1 DEF View
  <2>3. QED
    BY <1>q, <2>1, <2>2
<1>5. QED
  BY <1>2, <1>3, <1>4 DEF DaemonThread

LEMMA AppSimulated ==
  ASSUME Foundation, ConvergenceInv, Peaceful, NEW g \in Names, AppThread(g)
  PROVE  Simulated
<1>1. /\ UNCHANGED <<registered_names_, subscriptions_, handled>>
      /\ NoticesReachable
      /\ app_thread \in [Names -> AppState]
      /\ app_thread[g] \notin {"receive", "take", "echoed", "send", "sent"}
  BY DEF AppThread, serverVars, tableVars, ConvergenceInv, Foundation, TypeOK,
     MobileNodeTypeOK, SubscriptionInv, NobodyChats, RegisterPeerState
<1>2. CASE LookupReplied(g)
  <2> DEFINE text == Head(app_queue[g]).text
  <2>1. /\ app_thread[g] = "rs_wait" /\ app_queue[g] # <<>>
        /\ app_queue' = [app_queue EXCEPT ![g] = Tail(@)]
        /\ app_thread' = [app_thread EXCEPT ![g] = IF text = NoAddr THEN "null" ELSE "found"]
        /\ app_sockets_' = IF text = NoAddr THEN app_sockets_
                           ELSE [app_sockets_ EXCEPT ![g] = IPStringToInt(text)]
        /\ UNCHANGED <<loc, to_app, daemon, buffer>>
    BY <1>2 DEF LookupReplied, AppGoto, flightVars, pollVars
  <2>2. \A h \in Names : Running(h)' <=> Running(h)
    BY <1>1, <2>1 DEF Running
  <2>3. /\ Subscribed(g) => text # NoAddr /\ IPStringToInt(text) = text
        /\ ~Subscribed(g) => text = NoAddr
    BY <1>1, <2>1, OldestIsAddress
  <2> HIDE DEF text
  <2>v. daemon[g] # "writing" /\ app_sockets_ \in [Names -> Addresses \cup {Absent, NoAddr}]
    BY <2>1, ViewOfOthers DEF RegisterPeerState, Foundation, TypeOK, MobileNodeTypeOK
  <2>4. View' = IF Subscribed(g) THEN [View EXCEPT ![g] = text] ELSE View
    BY <2>1, <2>3, <2>v DEF View
  <2>5. NoticesReachable' /\ (Service!Learn(g) \/ UNCHANGED Service!vars)
    BY <1>1, <2>1, <2>2, <2>4, ReadSimulated DEF text
  <2>6. QED
    BY <2>5 DEF Simulated, Service!Next
<1>3. CASE QueryDns(g) \/ QueryFails(g) \/ DnsReplied(g) \/ LookupPeer(g) \/ Retry(g)
  <2>1. /\ UNCHANGED <<loc, to_app, app_queue, app_sockets_, daemon, buffer>>
        /\ app_thread[g] # "exited"
        /\ \E next \in RegisterPeerState : app_thread' = [app_thread EXCEPT ![g] = next]
    BY <1>3 DEF QueryDns, QueryFails, DnsReplied, LookupPeer, Retry, AppGoto,
       RegisterPeerState, networkVars, flightVars, pollVars
  <2>2. \A h \in Names : Running(h)' <=> Running(h)
    BY <1>1, <2>1 DEF Running, RegisterPeerState
  <2>3. QED
    BY <1>1, <2>1, <2>2, SameView, QuietSimulated DEF Simulated
<1>4. CASE GiveUp(g) \/ BindFails(g)
  <2>1. app_thread[g] \in {"query", "null"} /\ ProcessEnds(g) /\ UNCHANGED serverVars
    BY <1>4 DEF GiveUp, BindFails, AppThread
  <2>2. NoticesReachable' /\ Service!GiveUp(g)
    BY <1>1, <2>1, GiveUpSimulated
  <2>3. QED
    BY <2>2 DEF Simulated, Service!Next
<1>5. QED
  BY <1>1, <1>2, <1>3, <1>4 DEF AppThread, App, Peaceful, RegisterPeer, Connected,
     ReceiveNothing, ReceiveError, PeekMessage, ReceiveOwn, ReceiveAndEcho, TakeMessage,
     SendKeyword, SkipSend, NoteSent

LEMMA NextSimulated ==
  ASSUME Foundation, ConvergenceInv, Peaceful, DisjointHomes, Reliable, [Next]_vars
  PROVE  Simulated
<1> NoticesReachable
  BY DEF ConvergenceInv
<1>q. ASSUME UNCHANGED <<loc, serverVars, to_app, app_queue, nodeVars>>
      PROVE  Simulated
  <2>1. \A h \in Names : Running(h)' <=> Running(h)
    BY <1>q DEF Running, nodeVars
  <2>2. QED
    BY <1>q, <2>1, SameView, QuietSimulated DEF Simulated, serverVars, tableVars, nodeVars,
       pollVars
<1>1. CASE Server
  <2>1. UNCHANGED nodeVars
    BY <1>1 DEF Server
  <2>2. ASSUME NEW m \in to_lookup, HandleLookup(m)
        PROVE  Simulated
    <3>1. m.subscriber \in Names
      BY DEF Foundation, TypeOK, NetworkTypeOK, Lookup
    <3>2. NoticesReachable' /\ (Service!Subscribe(m.subscriber) \/ UNCHANGED Service!vars)
      BY <2>1, <2>2, LookupSimulated
    <3>3. QED
      BY <3>1, <3>2 DEF Simulated, Service!Next
  <2>3. ASSUME NEW m \in to_regist, HandleRegistration(m)
        PROVE  Simulated
    <3>1. m.name \in Names
      BY DEF Foundation, TypeOK, NetworkTypeOK, Registration
    <3>2. NoticesReachable' /\ Service!Register(m.name)
      BY <2>1, <2>3, RegistrationSimulated
    <3>3. QED
      BY <3>1, <3>2 DEF Simulated, Service!Next
  <2>4. QED
    BY <1>1, <2>2, <2>3 DEF Server, HandleRequests
<1>2. ASSUME NEW g \in Names, Delivery(g)
      PROVE  Simulated
  BY <1>2, DeliverySimulated DEF Simulated
<1>3. ASSUME NEW g \in Names, MachineMoves(g)
      PROVE  Simulated
  BY <1>3, MoveSimulated DEF Simulated, Service!Next
<1>4. CASE DNS
  BY <1>4, <1>q DEF DNS, HandleQuery
<1>5. CASE Loss
  BY <1>5, <1>q, LossEffect
<1>6. CASE UNCHANGED vars
  BY <1>6, <1>q DEF vars, networkVars, flightVars
<1>7. CASE ServerCrash
  BY <1>7 DEF ServerCrash, ServerRestarts, Peaceful, Foundation, SubscriptionInv, NoPhantoms
<1>8. QED
  BY <1>1, <1>2, <1>3, <1>4, <1>5, <1>6, <1>7, DaemonSimulated, AppSimulated
     DEF Next, Interrupt, Interrupted, MachineDisconnects, Peaceful

-------------------------------------------------------------------------------
(* Newest is kept by every step of LocationService *)

\* The last element of <<v>> \o s.
LEMMA LastHeard ==
  ASSUME NEW V, NEW v \in V, NEW s \in Seq(V)
  PROVE  /\ s = <<>> => (<<v>> \o s)[Len(<<v>> \o s)] = v
         /\ s # <<>> => (<<v>> \o s)[Len(<<v>> \o s)] = s[Len(s)]
OBVIOUS

LEMMA LastOfMore ==
  ASSUME NEW V, NEW v \in V, NEW s \in Seq(V), NEW x \in V
  PROVE  (<<v>> \o Append(s, x))[Len(<<v>> \o Append(s, x))] = x
OBVIOUS

LEMMA LastOfLess ==
  ASSUME NEW V, NEW v \in V, NEW s \in Seq(V), s # <<>>
  PROVE  (<<Head(s)>> \o Tail(s))[Len(<<Head(s)>> \o Tail(s))]
           = (<<v>> \o s)[Len(<<v>> \o s)]
<1> DEFINE t == Tail(s)
<1>1. /\ t \in Seq(V) /\ Head(s) \in V /\ Len(s) \in Nat \ {0}
      /\ Len(t) = Len(s) - 1 /\ s[1] = Head(s)
      /\ \A i \in 1 .. Len(s) - 1 : t[i] = s[i + 1]
  OBVIOUS
<1> HIDE DEF t
<1>2. CASE t = <<>>
  <2>1. Len(s) = 1
    BY <1>1, <1>2
  <2>2. QED
    BY <1>1, <1>2, <2>1, LastHeard DEF t
<1>3. CASE t # <<>>
  <2>1. Len(t) \in Nat /\ Len(t) # 0
    BY <1>1, <1>3
  <2>2. t[Len(t)] = s[Len(s)]
    BY <1>1, <2>1
  <2>3. QED
    BY <1>1, <1>3, <2>2, LastHeard DEF t
<1>4. QED
  BY <1>2, <1>3

LEMMA NewestStep ==
  ASSUME Foundation, ConvergenceInv, [Service!Next]_(Service!vars), NEW h \in Names
  PROVE  Newest(h)'
<1> DEFINE V == Words \cup {Absent}
           Last(v, heard) == (<<v>> \o heard)[Len(<<v>> \o heard)]
<1>1. /\ Told[h] \in Seq(V) /\ View[h] \in V /\ registered_names_[PeerOf[h]] \in V
      /\ loc[h] \in V /\ PeerOf[h] \in Names
  <2>1. Heard(h) \in Seq(Words) /\ <<>> \in Seq(Words)
    BY OnItsWay DEF ConvergenceInv
  <2>2. Told[h] \in Seq(Words)
    BY <2>1, ToldIsHeard
  <2>3. QED
    BY <2>2, ViewType, PeerOfType, WhereNodesAre DEF Words, Foundation, TypeOK, MobileNodeTypeOK,
       TablesTypeOK
<1>2. h \in Subscribers => Last(View[h], Told[h]) = registered_names_[PeerOf[h]]
  BY DEF ConvergenceInv, Newest, Subscribers
<1>3. /\ View \in [Names -> Addresses \cup {Absent, NoAddr}]
      /\ registered_names_ \in [Names -> Addresses \cup {Absent, NoAddr}]
      /\ Told = [i \in Names |-> Told[i]]
  BY ViewType DEF Foundation, TypeOK, MobileNodeTypeOK, TablesTypeOK, Told
<1> DEFINE Kept == h \in Subscribers'
                     => Last(View'[h], Told'[h]) = registered_names_'[PeerOf[h]]
<1>4. \A x \in V : Last(View[h], Append(Told[h], x)) = x
  BY <1>1, LastOfMore
<1>5. Told[h] # <<>> => Last(Head(Told[h]), Tail(Told[h])) = Last(View[h], Told[h])
  BY <1>1, LastOfLess
<1> HIDE DEF V, Last
<1>6. ASSUME UNCHANGED Service!vars
      PROVE  Kept
  BY <1>2, <1>6 DEF Service!vars
<1>7. ASSUME NEW n \in Names, Service!Move(n) \/ Service!GiveUp(n)
      PROVE  Kept
  BY <1>2, <1>7 DEF Service!Move, Service!GiveUp
<1>8. ASSUME NEW n \in Names, Service!Register(n)
      PROVE  Kept
  <2>1. /\ registered_names_' = [registered_names_ EXCEPT ![n] = loc[n]]
        /\ Told'[h] = IF h \in Subscribers /\ PeerOf[h] = n
                        THEN Append(Told[h], loc[n]) ELSE Told[h]
        /\ UNCHANGED <<Subscribers, View>>
    BY <1>8 DEF Service!Register
  <2>2. CASE PeerOf[h] = n
    <3>1. loc[n] \in V
      BY <2>2, WhereNodesAre DEF V, Words
    <3>2. QED
      BY <1>3, <1>4, <2>1, <2>2, <3>1
  <2>3. CASE PeerOf[h] # n
    BY <1>1, <1>2, <1>3, <2>1, <2>3
  <2>4. QED
    BY <2>2, <2>3
<1>9. ASSUME NEW n \in Names, Service!Subscribe(n)
      PROVE  Kept
  <2>1. /\ Subscribers' = Subscribers \cup {n}
        /\ Told' = [Told EXCEPT ![n] = Append(@, registered_names_[PeerOf[n]])]
        /\ UNCHANGED <<registered_names_, View>>
    BY <1>9 DEF Service!Subscribe
  <2>2. CASE h = n
    BY <1>1, <1>3, <1>4, <2>1, <2>2
  <2>3. CASE h # n
    <3>1. Told'[h] = Told[h]
      BY <1>3, <2>1, <2>3
    <3>2. QED
      BY <1>2, <2>1, <2>3, <3>1
  <2>4. QED
    BY <2>2, <2>3
<1>10. ASSUME NEW n \in Names, Service!Learn(n)
       PROVE  Kept
  <2>1. /\ Told[n] # <<>>
        /\ View' = [View EXCEPT ![n] = Head(Told[n])]
        /\ Told' = [Told EXCEPT ![n] = Tail(@)]
        /\ UNCHANGED <<registered_names_, Subscribers>>
    BY <1>10 DEF Service!Learn
  <2>2. CASE h = n
    <3>1. View'[h] = Head(Told[h]) /\ Told'[h] = Tail(Told[h])
      BY <1>3, <2>1, <2>2
    <3>2. QED
      BY <1>2, <1>5, <2>1, <2>2, <3>1
  <2>3. CASE h # n
    <3>1. View'[h] = View[h] /\ Told'[h] = Told[h]
      BY <1>3, <2>1, <2>3
    <3>2. QED
      BY <1>2, <2>1, <3>1
  <2>4. QED
    BY <2>2, <2>3
<1>11. Kept
  BY <1>6, <1>7, <1>8, <1>9, <1>10 DEF Service!Next
<1>12. QED
  BY <1>11 DEF Newest, Subscribers, Last

-------------------------------------------------------------------------------
(* The theorems *)

LEMMA InitFoundation ==
  ASSUME Init, Peaceful, Reliable
  PROVE  Foundation
BY InitType, InitPeekInv, InitRegistrationInv, InitOnlyKnown, InitCrossTalk,
   InitAllRegister, InitSubscription, InitNoted DEF Foundation, Reliable

LEMMA NextFoundation ==
  ASSUME Foundation, Peaceful, DisjointHomes, Reliable, [Next]_vars
  PROVE  Foundation'
<1>1. [RestartNext]_vars
  BY DEF RestartNext
<1>2. SubscriptionInv'
  BY NextNobodyChats, NextNoPhantoms, NextLookups, NextAnswered
     DEF Foundation, SubscriptionInv
<1>3. LastSentIsNoted'
  BY <1>1, NextNoted DEF Foundation, Peaceful, Reliable
<1>4. QED
  BY <1>1, <1>2, <1>3, NextType, NextPeekInv, NextRegistrationInv, NextCrossTalk,
     NextAllRegister, NextOnlyKnown DEF Foundation

LEMMA NextAccount ==
  ASSUME Foundation, ConvergenceInv, Peaceful, DisjointHomes, Reliable, [Next]_vars
  PROVE  Account'
<1> Account
  BY DEF ConvergenceInv, Account
<1>q. ASSUME UNCHANGED <<loc, moves, to_regist, serverVars, nodeVars>>
      PROVE  Account'
  BY <1>q, AccountQuiet DEF serverVars, tableVars, nodeVars, Account, ThreadsEnd, Running
<1>1. CASE Server
  <2>1. UNCHANGED nodeVars
    BY <1>1 DEF Server
  <2>2. ASSUME NEW m \in to_lookup, HandleLookup(m)
        PROVE  Account'
    BY <2>1, <2>2, AccountQuiet DEF HandleLookup, ChangeSubscription, nodeVars, Account,
       ThreadsEnd, Running
  <2>3. QED
    BY <1>1, <2>1, <2>2, RegistrationAccount DEF Server, HandleRequests
<1>2. ASSUME NEW g \in Names, Delivery(g)
      PROVE  Account'
  BY <1>2, <1>q DEF Delivery, DeliverNotice, DeliverPeer
<1>3. CASE DNS
  BY <1>3, <1>q DEF DNS, HandleQuery
<1>4. CASE Loss
  BY <1>4, <1>q, LossEffect DEF ConvergenceInv
<1>5. CASE UNCHANGED vars
  BY <1>5, <1>q DEF vars, networkVars, flightVars
<1>6. CASE ServerCrash
  BY <1>6 DEF ServerCrash, ServerRestarts, Peaceful, Foundation, SubscriptionInv, NoPhantoms
<1>7. QED
  BY <1>1, <1>2, <1>3, <1>4, <1>5, <1>6, DaemonAccount, AppAccount, MoveAccount
     DEF Next, Interrupt, Interrupted, MachineDisconnects, Peaceful

LEMMA NextConvergence ==
  ASSUME Foundation, ConvergenceInv, Peaceful, DisjointHomes, Reliable, [Next]_vars
  PROVE  ConvergenceInv' /\ [Service!Next]_(Service!vars)
<1>1. Account' /\ Simulated
  BY NextAccount, NextSimulated
<1>2. \A h \in Names : Newest(h)'
  BY <1>1, NewestStep DEF Simulated
<1>3. QED
  BY <1>1, <1>2 DEF Account, Simulated, ConvergenceInv

LEMMA InitConvergence ==
  ASSUME Init
  PROVE  ConvergenceInv /\ Service!Init
<1>1. /\ registered_names_ = [n \in Names |-> Absent] /\ update_sockets = 0
      /\ subscriptions_ = [n \in Names |-> {}]
      /\ loc \in [Names -> Addresses] /\ moves = 0 /\ to_regist = {} /\ to_app = {}
      /\ app_queue = [h \in Names |-> <<>>]
      /\ daemon = [h \in Names |-> "start"] /\ app_thread = [h \in Names |-> "query"]
      /\ View = [h \in Names |-> Absent]
  BY DEF View, Init, ServerInit, TablesInit, NetworkInit, MobileNodeInit
<1>2. \A h \in Names : /\ ~Known(h) /\ ~Outdated(h) /\ ~Behind(h) /\ Running(h)
                       /\ NoticesTo(h) = {} /\ ~Subscribed(h)
  BY <1>1, PeerOfType DEF Known, Outdated, Behind, Running, NoticesTo, Subscribed
<1>3. SocketsAccounted
  <2>1. {h \in Names : Outdated(h)} = {} /\ {h \in Names : Known(h)} = {}
    BY <1>2
  <2>2. /\ Cardinality({h \in Names : Outdated(h)}) = 0
        /\ Cardinality({h \in Names : Known(h)}) = 0
    BY <2>1, FS_EmptySet
  <2>3. moves <= MaxMoves
    BY <1>1, PermanentIPAssumption
  <2>4. QED
    BY <1>1, <2>2, <2>3 DEF SocketsAccounted
<1>4. NoticesReachable
  <2>1. \A h \in Names : InOrderSent(Ordered(NoticesTo(h)), NoticesTo(h))
    BY <1>2, OrderedEmpty
  <2>2. \A h \in Names : app_queue[h] = <<>>
    BY <1>1
  <2>3. QED
    BY <1>1, <2>1, <2>2 DEF NoticesReachable
<1>5. ConvergenceInv
  BY <1>1, <1>2, <1>3, <1>4 DEF ConvergenceInv, RegistersNews, OneBehind, ThreadsEnd, Newest
<1>6. UpNodes = Names /\ Subscribers = {} /\ Told = [n \in Names |-> <<>>]
  BY <1>2 DEF UpNodes, Subscribers, Told, ToldTo
<1>7. QED
  BY <1>1, <1>5, <1>6 DEF Service!Init

\* If machines move only when the last move has been pushed to everybody, nobody
\* chats, the server lives and has sockets enough, no two machines can have the
\* same address, all addresses are visible, nothing is lost and notices arrive in
\* the order they were sent, then the two threads of every node, the two servers
\* and the network are a location service: every registration is pushed to all
\* who subscribed, in order, and a node's view is the last address it heard.
THEOREM LocationsAreServed ==
  ASSUME Peaceful, DisjointHomes, Reliable
  PROVE  Spec => ImplementsLocationService
<1> DEFINE Inv == Foundation /\ ConvergenceInv
<1>1. Init => Inv /\ Service!Init
  BY InitFoundation, InitConvergence
<1>2. Inv /\ [Next]_vars => Inv' /\ [Service!Next]_(Service!vars)
  BY NextFoundation, NextConvergence
<1>3. QED
  BY <1>1, <1>2, PTL DEF Spec, ImplementsLocationService, Service!Spec

\* Under the same conditions, whenever the control traffic has died down every
\* connected application has its peer's address: the last update it was sent, of
\* however many, is the one it ends up with.
THEOREM ContactIsKept ==
  ASSUME Peaceful, DisjointHomes, Reliable
  PROVE  Spec => []Converged
<1> DEFINE Inv == Foundation /\ ConvergenceInv
<1>1. Init => Inv
  BY InitFoundation, InitConvergence
<1>2. Inv /\ [Next]_vars => Inv'
  BY NextFoundation, NextConvergence
<1>3. Inv => Converged
  <2> SUFFICES ASSUME Inv, Settled, NEW h \in Names, app_sockets_[h] # Absent,
                      Running(h), Running(PeerOf[h])
               PROVE  app_sockets_[h] = loc[PeerOf[h]]
    BY DEF Converged
  <2>1. Subscribed(h) /\ Newest(h) /\ NoticesReachable /\ PeerOf[h] \in Names
    BY PeerOfType DEF Foundation, SubscriptionInv, NobodyChats, Answered, UnknownToldOnce,
       ConvergenceInv
  <2>2. to_app = {} /\ app_queue[h] = <<>> /\ registered_names_[PeerOf[h]] = loc[PeerOf[h]]
    BY <2>1, SettledMeans
  <2>v. View[h] = app_sockets_[h]
    BY DEF Settled, UpToDate, View
  <2>3. Told[h] = <<>>
    BY <2>2, HeardNothing, ToldIsHeard DEF NoticesTo
  <2>4. (<<View[h]>> \o Told[h])[Len(<<View[h]>> \o Told[h])] = View[h]
    BY <2>3
  <2>5. QED
    BY <2>1, <2>2, <2>v, <2>4 DEF Newest
<1>4. QED
  BY <1>1, <1>2, <1>3, PTL DEF Spec

===============================================================================
