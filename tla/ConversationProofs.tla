--------------------------- MODULE ConversationProofs ---------------------------
(***************************************************************************)
(* CopiesAreResends, for any number of nodes, any peers and any movement,  *)
(* with and without loss, reordering and restarts.  The inductive          *)
(* invariant says besides that the copies can be counted; it stands on     *)
(* TypeOK and PeekInv, by which an application echoes names only.          *)
(***************************************************************************)
EXTENDS Conversation, PermanentIPProofs, FiniteSetTheorems

Countable ==
  \A h \in Names : IsFiniteSet(InFlight(h)) /\ IsFiniteSet(InQueues(h))

CopiesInv == Countable /\ CopiesAreResends

\* The copies in a bag of datagrams, and in a family of queues.
Flying(B, h) ==
  UNION {{d} \X (1 .. B[d]) : d \in {e \in BagToSet(B) : e.text = h}}
Waited(Q, h) ==
  UNION {{n} \X {i \in DOMAIN Q[n] : Q[n][i].text = h} : n \in Names}

One(text, h) == IF text = h THEN 1 ELSE 0

-------------------------------------------------------------------------------
(* What one datagram more or less does to the number of copies. *)

LEMMA FlyingMembers ==
  ASSUME NEW B, NEW h
  PROVE  /\ \A x \in Flying(B, h) : \E d \in BagToSet(B) :
              d.text = h /\ \E i \in 1 .. B[d] : x = <<d, i>>
         /\ \A d \in BagToSet(B) : d.text = h =>
              \A i \in 1 .. B[d] : <<d, i>> \in Flying(B, h)
<1>1. ASSUME NEW x \in Flying(B, h)
      PROVE  \E d \in BagToSet(B) : d.text = h /\ \E i \in 1 .. B[d] : x = <<d, i>>
  <2>1. PICK d \in BagToSet(B) : d.text = h /\ x \in {d} \X (1 .. B[d])
    BY DEF Flying
  <2>2. QED
    BY <2>1
<1>2. ASSUME NEW d \in BagToSet(B), d.text = h, NEW i \in 1 .. B[d]
      PROVE  <<d, i>> \in Flying(B, h)
  <2>1. <<d, i>> \in {d} \X (1 .. B[d])
    OBVIOUS
  <2>2. QED
    BY <1>2, <2>1 DEF Flying
<1>3. QED
  BY <1>1, <1>2

\* One datagram more in flight.
LEMMA FlyingMore ==
  ASSUME NEW B, IsABag(B), NEW d, NEW h, IsFiniteSet(Flying(B, h))
  PROVE  LET C == B (+) SetToBag({d})
         IN  /\ IsFiniteSet(Flying(C, h))
             /\ Cardinality(Flying(C, h)) = Cardinality(Flying(B, h)) + One(d.text, h)
<1> DEFINE C == B (+) SetToBag({d})
<1>1. /\ BagToSet(C) = BagToSet(B) \cup {d}
      /\ C[d] = IF d \in BagToSet(B) THEN B[d] + 1 ELSE 1
      /\ \A e \in BagToSet(B) \ {d} : C[e] = B[e]
  BY BagAdd
<1>2. \A e \in BagToSet(B) : B[e] \in Nat /\ B[e] > 0
  BY DEF IsABag, BagToSet
<1> HIDE DEF C
<1>3. Cardinality(Flying(B, h)) \in Nat
  BY FS_CardinalityType
<1>4. CASE d.text = h
  <2>1. Flying(C, h) = Flying(B, h) \cup {<<d, C[d]>>}
    <3>1. ASSUME NEW x \in Flying(C, h)
          PROVE  x \in Flying(B, h) \cup {<<d, C[d]>>}
      <4>1. PICK e \in BagToSet(C) : e.text = h /\ \E i \in 1 .. C[e] : x = <<e, i>>
        BY FlyingMembers
      <4>2. PICK i \in 1 .. C[e] : x = <<e, i>>
        BY <4>1
      <4>3. CASE e # d
        BY <1>1, <4>1, <4>2, <4>3, FlyingMembers
      <4>4. CASE e = d /\ i # C[d]
        <5>1. d \in BagToSet(B) /\ i \in 1 .. B[d]
          BY <1>1, <1>2, <4>2, <4>4
        <5>2. QED
          BY <1>4, <4>2, <4>4, <5>1, FlyingMembers
      <4>5. QED
        BY <4>2, <4>3, <4>4
    <3>2. ASSUME NEW x \in Flying(B, h)
          PROVE  x \in Flying(C, h)
      <4>1. PICK e \in BagToSet(B) : e.text = h /\ \E i \in 1 .. B[e] : x = <<e, i>>
        BY FlyingMembers
      <4>2. PICK i \in 1 .. B[e] : x = <<e, i>>
        BY <4>1
      <4>3. e \in BagToSet(C) /\ i \in 1 .. C[e]
        BY <1>1, <1>2, <4>2
      <4>4. QED
        BY <4>1, <4>2, <4>3, FlyingMembers
    <3>3. <<d, C[d]>> \in Flying(C, h)
      <4>1. d \in BagToSet(C) /\ C[d] \in 1 .. C[d]
        BY <1>1, <1>2
      <4>2. QED
        BY <1>4, <4>1, FlyingMembers
    <3>4. QED
      BY <3>1, <3>2, <3>3
  <2>2. <<d, C[d]>> \notin Flying(B, h)
    <3>1. SUFFICES ASSUME <<d, C[d]>> \in Flying(B, h) PROVE FALSE
      OBVIOUS
    <3>2. d \in BagToSet(B) /\ C[d] \in 1 .. B[d]
      BY <3>1, FlyingMembers
    <3>3. QED
      BY <1>1, <1>2, <3>2
  <2>3. /\ IsFiniteSet(Flying(C, h))
        /\ Cardinality(Flying(C, h)) = Cardinality(Flying(B, h)) + 1
    BY <2>1, <2>2, FS_AddElement
  <2>4. QED
    BY <1>4, <2>3 DEF C, One
<1>5. CASE d.text # h
  <2>1. Flying(C, h) = Flying(B, h)
    BY <1>1, <1>5 DEF Flying
  <2>2. QED
    BY <1>3, <1>5, <2>1 DEF C, One
<1>6. QED
  BY <1>4, <1>5

\* One datagram less in flight.
LEMMA FlyingLess ==
  ASSUME NEW B, IsABag(B), NEW d \in BagToSet(B), NEW h, IsFiniteSet(Flying(B, h))
  PROVE  LET C == B (-) SetToBag({d})
         IN  /\ IsFiniteSet(Flying(C, h))
             /\ Cardinality(Flying(C, h)) = Cardinality(Flying(B, h)) - One(d.text, h)
<1> DEFINE C == B (-) SetToBag({d})
<1>1. /\ BagToSet(C) = IF B[d] = 1 THEN BagToSet(B) \ {d} ELSE BagToSet(B)
      /\ d \in BagToSet(C) => C[d] = B[d] - 1
      /\ \A e \in BagToSet(B) \ {d} : C[e] = B[e]
  BY BagRemove
<1>2. \A e \in BagToSet(B) : B[e] \in Nat /\ B[e] > 0
  BY DEF IsABag, BagToSet
<1> HIDE DEF C
<1>3. Cardinality(Flying(B, h)) \in Nat
  BY FS_CardinalityType
<1>4. CASE d.text = h
  <2>1. Flying(C, h) = Flying(B, h) \ {<<d, B[d]>>}
    <3>1. ASSUME NEW x \in Flying(C, h)
          PROVE  x \in Flying(B, h) \ {<<d, B[d]>>}
      <4>1. PICK e \in BagToSet(C) : e.text = h /\ \E i \in 1 .. C[e] : x = <<e, i>>
        BY FlyingMembers
      <4>2. PICK i \in 1 .. C[e] : x = <<e, i>>
        BY <4>1
      <4>3. e \in BagToSet(B) /\ i \in 1 .. B[e] /\ (e = d => i # B[d])
        BY <1>1, <1>2, <4>2
      <4>4. QED
        BY <4>1, <4>2, <4>3, FlyingMembers
    <3>2. ASSUME NEW x \in Flying(B, h) \ {<<d, B[d]>>}
          PROVE  x \in Flying(C, h)
      <4>1. PICK e \in BagToSet(B) : e.text = h /\ \E i \in 1 .. B[e] : x = <<e, i>>
        BY FlyingMembers
      <4>2. PICK i \in 1 .. B[e] : x = <<e, i>>
        BY <4>1
      <4>3. e = d => i # B[d]
        BY <4>2
      <4>4. e \in BagToSet(C) /\ i \in 1 .. C[e]
        BY <1>1, <1>2, <4>2, <4>3
      <4>5. QED
        BY <4>1, <4>2, <4>4, FlyingMembers
    <3>3. QED
      BY <3>1, <3>2
  <2>2. <<d, B[d]>> \in Flying(B, h)
    <3>1. B[d] \in 1 .. B[d]
      BY <1>2
    <3>2. QED
      BY <1>4, <3>1, FlyingMembers
  <2>3. /\ IsFiniteSet(Flying(C, h))
        /\ Cardinality(Flying(C, h)) = Cardinality(Flying(B, h)) - 1
    BY <2>1, <2>2, FS_RemoveElement
  <2>4. QED
    BY <1>4, <2>3 DEF C, One
<1>5. CASE d.text # h
  <2>1. Flying(C, h) = Flying(B, h)
    BY <1>1, <1>5 DEF Flying
  <2>2. QED
    BY <1>3, <1>5, <2>1 DEF C, One
<1>6. QED
  BY <1>4, <1>5

LEMMA WaitedMembers ==
  ASSUME NEW Q, NEW h
  PROVE  /\ \A x \in Waited(Q, h) : \E n \in Names : \E i \in DOMAIN Q[n] :
              Q[n][i].text = h /\ x = <<n, i>>
         /\ \A n \in Names : \A i \in DOMAIN Q[n] :
              Q[n][i].text = h => <<n, i>> \in Waited(Q, h)
<1>1. ASSUME NEW x \in Waited(Q, h)
      PROVE  \E n \in Names : \E i \in DOMAIN Q[n] : Q[n][i].text = h /\ x = <<n, i>>
  <2>1. PICK n \in Names : x \in {n} \X {i \in DOMAIN Q[n] : Q[n][i].text = h}
    BY DEF Waited
  <2>2. QED
    BY <2>1
<1>2. ASSUME NEW n \in Names, NEW i \in DOMAIN Q[n], Q[n][i].text = h
      PROVE  <<n, i>> \in Waited(Q, h)
  <2>1. <<n, i>> \in {n} \X {k \in DOMAIN Q[n] : Q[n][k].text = h}
    BY <1>2
  <2>2. QED
    BY <2>1 DEF Waited
<1>3. QED
  BY <1>1, <1>2

\* One datagram more in the queue of g.
LEMMA WaitedMore ==
  ASSUME NEW Q \in [Names -> Seq(Received)], NEW g \in Names, NEW d, NEW h,
         IsFiniteSet(Waited(Q, h))
  PROVE  LET R == [Q EXCEPT ![g] = Append(@, d)]
         IN  /\ IsFiniteSet(Waited(R, h))
             /\ Cardinality(Waited(R, h)) <= Cardinality(Waited(Q, h)) + One(d.text, h)
<1> DEFINE R == [Q EXCEPT ![g] = Append(@, d)]
           last == Len(Q[g]) + 1
<1>1. Q[g] \in Seq(Received)
  OBVIOUS
<1>2. /\ \A n \in Names \ {g} : R[n] = Q[n]
      /\ DOMAIN R[g] = DOMAIN Q[g] \cup {last} /\ R[g][last] = d
      /\ \A i \in DOMAIN Q[g] : R[g][i] = Q[g][i]
  <2>1. R[g] = Append(Q[g], d)
    OBVIOUS
  <2>2. QED
    BY <1>1, <2>1
<1> HIDE DEF last, R
<1>3. ASSUME NEW x \in Waited(R, h)
      PROVE  x \in Waited(Q, h) \/ (d.text = h /\ x = <<g, last>>)
  <2>1. PICK n \in Names : \E i \in DOMAIN R[n] : R[n][i].text = h /\ x = <<n, i>>
    BY WaitedMembers
  <2>2. PICK i \in DOMAIN R[n] : R[n][i].text = h /\ x = <<n, i>>
    BY <2>1
  <2>3. CASE n # g \/ i \in DOMAIN Q[n]
    <3>1. i \in DOMAIN Q[n] /\ Q[n][i].text = h
      BY <1>2, <2>2, <2>3
    <3>2. QED
      BY <2>2, <3>1, WaitedMembers
  <2>4. CASE n = g /\ i \notin DOMAIN Q[n]
    BY <1>2, <2>2, <2>4
  <2>5. QED
    BY <2>3, <2>4
<1>4. Cardinality(Waited(Q, h)) \in Nat
  BY FS_CardinalityType
<1>5. CASE d.text = h
  <2>1. Waited(R, h) \subseteq Waited(Q, h) \cup {<<g, last>>}
    BY <1>3
  <2>2. /\ IsFiniteSet(Waited(Q, h) \cup {<<g, last>>})
        /\ Cardinality(Waited(Q, h) \cup {<<g, last>>}) =
             IF <<g, last>> \in Waited(Q, h) THEN Cardinality(Waited(Q, h))
                                           ELSE Cardinality(Waited(Q, h)) + 1
    BY FS_AddElement
  <2>a. Cardinality(Waited(Q, h) \cup {<<g, last>>}) \in Nat
    BY <2>2, FS_CardinalityType
  <2>3. /\ IsFiniteSet(Waited(R, h))
        /\ Cardinality(Waited(R, h)) <= Cardinality(Waited(Q, h) \cup {<<g, last>>})
    BY <2>1, <2>2, FS_Subset
  <2>4. Cardinality(Waited(R, h)) \in Nat
    BY <2>3, FS_CardinalityType
  <2>5. Cardinality(Waited(R, h)) <= Cardinality(Waited(Q, h)) + 1
    BY <1>4, <2>2, <2>a, <2>3, <2>4
  <2>6. QED
    BY <1>5, <2>3, <2>5 DEF One, R
<1>6. CASE d.text # h
  <2>1. Waited(R, h) \subseteq Waited(Q, h)
    BY <1>3, <1>6
  <2>2. /\ IsFiniteSet(Waited(R, h))
        /\ Cardinality(Waited(R, h)) <= Cardinality(Waited(Q, h))
    BY <2>1, FS_Subset
  <2>3. QED
    BY <1>4, <1>6, <2>2 DEF One, R
<1>7. QED
  BY <1>5, <1>6

\* The queue of g without its oldest datagram: the other copies in it are those
\* that were there one place further back.
LEMMA WaitedLess ==
  ASSUME NEW Q \in [Names -> Seq(Received)], NEW g \in Names, Q[g] # <<>>, NEW h,
         IsFiniteSet(Waited(Q, h))
  PROVE  LET R == [Q EXCEPT ![g] = Tail(@)]
         IN  /\ IsFiniteSet(Waited(R, h))
             /\ Cardinality(Waited(R, h)) <=
                  Cardinality(Waited(Q, h)) - One(Head(Q[g]).text, h)
<1> DEFINE R == [Q EXCEPT ![g] = Tail(@)]
           Rest == Waited(Q, h) \ {<<g, 1>>}
           Before(x) == IF x[1] = g THEN <<g, x[2] + 1>> ELSE x
           f == [x \in Waited(R, h) |-> Before(x)]
<1>1. Q[g] \in Seq(Received) /\ Len(Q[g]) \in Nat /\ Len(Q[g]) > 0
  OBVIOUS
<1>2. /\ \A n \in Names \ {g} : R[n] = Q[n]
      /\ DOMAIN R[g] = 1 .. (Len(Q[g]) - 1) /\ DOMAIN Q[g] = 1 .. Len(Q[g])
      /\ \A i \in DOMAIN R[g] : R[g][i] = Q[g][i + 1]
  <2>1. R[g] = Tail(Q[g])
    OBVIOUS
  <2>2. QED
    BY <1>1, <2>1
<1>3. \A n \in Names : \A i \in DOMAIN R[n] : i \in Nat
  BY <1>2
<1> HIDE DEF R
<1>4. ASSUME NEW x \in Waited(R, h)
      PROVE  /\ Before(x) \in Rest
             /\ \E n \in Names, i \in Nat : x = <<n, i>>
  <2>1. PICK n \in Names : \E i \in DOMAIN R[n] : R[n][i].text = h /\ x = <<n, i>>
    BY WaitedMembers
  <2>2. PICK i \in DOMAIN R[n] : R[n][i].text = h /\ x = <<n, i>>
    BY <2>1
  <2>3. CASE n = g
    <3>1. /\ i \in Nat /\ i >= 1 /\ i + 1 \in DOMAIN Q[g] /\ Q[g][i + 1].text = h
      BY <1>1, <1>2, <2>2, <2>3
    <3>2. <<g, i + 1>> \in Waited(Q, h)
      BY <3>1, WaitedMembers
    <3>3. Before(x) = <<g, i + 1>> /\ i + 1 # 1
      BY <2>2, <2>3, <3>1
    <3>4. QED
      BY <2>2, <2>3, <3>1, <3>2, <3>3
  <2>4. CASE n # g
    <3>1. x \in Waited(Q, h)
      BY <1>2, <2>2, <2>4, WaitedMembers
    <3>2. Before(x) = x /\ x # <<g, 1>>
      BY <2>2, <2>4
    <3>3. QED
      BY <1>3, <2>2, <3>1, <3>2
  <2>5. QED
    BY <2>3, <2>4
<1>5. ASSUME NEW x \in Waited(R, h), NEW y \in Waited(R, h), Before(x) = Before(y)
      PROVE  x = y
  <2>1. PICK n \in Names, i \in Nat : x = <<n, i>>
    BY <1>4
  <2>2. PICK m \in Names, j \in Nat : y = <<m, j>>
    BY <1>4
  <2>3. QED
    BY <1>5, <2>1, <2>2
<1> HIDE DEF Before
<1>6. f \in Injection(Waited(R, h), Rest)
  BY <1>4, <1>5 DEF Injection, IsInjective
<1> HIDE DEF f, Rest
<1>7. /\ IsFiniteSet(Rest)
      /\ Cardinality(Rest) = IF <<g, 1>> \in Waited(Q, h)
                               THEN Cardinality(Waited(Q, h)) - 1
                               ELSE Cardinality(Waited(Q, h))
  BY FS_RemoveElement DEF Rest
<1>8. /\ IsFiniteSet(Waited(R, h))
      /\ Cardinality(Waited(R, h)) <= Cardinality(Rest)
  BY <1>6, <1>7, FS_Injection
<1>9. Head(Q[g]).text = h => <<g, 1>> \in Waited(Q, h)
  <2>1. Head(Q[g]) = Q[g][1] /\ 1 \in DOMAIN Q[g]
    BY <1>1
  <2>2. QED
    BY <2>1, WaitedMembers
<1>10. Cardinality(Waited(Q, h)) \in Nat /\ Cardinality(Waited(R, h)) \in Nat
  BY <1>8, FS_CardinalityType
<1>11. Cardinality(Waited(R, h)) <= Cardinality(Waited(Q, h)) - One(Head(Q[g]).text, h)
  BY <1>7, <1>8, <1>9, <1>10 DEF One
<1>12. QED
  BY <1>8, <1>11 DEF R

\* An emptied queue holds none.
LEMMA WaitedEmptied ==
  ASSUME NEW Q \in [Names -> Seq(Received)], NEW g \in Names, NEW h,
         IsFiniteSet(Waited(Q, h))
  PROVE  LET R == [Q EXCEPT ![g] = <<>>]
         IN  /\ IsFiniteSet(Waited(R, h))
             /\ Cardinality(Waited(R, h)) <= Cardinality(Waited(Q, h))
<1> DEFINE R == [Q EXCEPT ![g] = <<>>]
<1>1. \A n \in Names : R[n] = Q[n] \/ DOMAIN R[n] = {}
  OBVIOUS
<1> HIDE DEF R
<1>2. Waited(R, h) \subseteq Waited(Q, h)
  <2>1. ASSUME NEW x \in Waited(R, h)
        PROVE  x \in Waited(Q, h)
    <3>1. PICK n \in Names : \E i \in DOMAIN R[n] : R[n][i].text = h /\ x = <<n, i>>
      BY WaitedMembers
    <3>2. R[n] = Q[n]
      BY <1>1, <3>1
    <3>3. QED
      BY <3>1, <3>2, WaitedMembers
  <2>2. QED
    BY <2>1
<1>3. QED
  BY <1>2, FS_Subset DEF R

-------------------------------------------------------------------------------
(* The same of the system's bag and queues. *)

LEMMA CopiesAre ==
  ASSUME NEW k
  PROVE  /\ InFlight(k) = Flying(to_peer, k) /\ InFlight(k)' = Flying(to_peer', k)
         /\ InQueues(k) = Waited(app_queue, k) /\ InQueues(k)' = Waited(app_queue', k)
  BY DEF InFlight, InQueues, Flying, Waited

LEMMA Numbers ==
  ASSUME TypeOK, Countable, NEW k \in Names
  PROVE  /\ Cardinality(InFlight(k)) \in Nat /\ Cardinality(InQueues(k)) \in Nat
         /\ resent[k] \in Nat /\ incarnation[k] \in Nat /\ received_[k] \in BOOLEAN
  BY FS_CardinalityType DEF Countable, TypeOK, NetworkTypeOK, MobileNodeTypeOK,
     EchoAppTypeOK

LEMMA CopiesSent ==
  ASSUME TypeOK, Countable, NEW h \in Names, NEW to, NEW text \in Names,
         to_peer' = SentToPeer(h, to, text), NEW k \in Names
  PROVE  /\ IsFiniteSet(InFlight(k)')
         /\ Cardinality(InFlight(k)') <= Cardinality(InFlight(k)) + One(text, k)
<1>1. IsABag(to_peer) /\ IsFiniteSet(Flying(to_peer, k))
  BY CopiesAre DEF TypeOK, NetworkTypeOK, Countable
<1>2. Cardinality(Flying(to_peer, k)) \in Nat
  BY <1>1, FS_CardinalityType
<1>3. CASE to_peer' = to_peer
  BY <1>1, <1>2, <1>3, CopiesAre DEF One
<1>4. CASE to_peer' # to_peer
  <2>a. PeerDatagram(h, to, text).text = text
    BY DEF PeerDatagram
  <2>1. PICK d : to_peer' = to_peer (+) SetToBag({d}) /\ d.text = text
    BY <1>4, <2>a DEF SentToPeer
  <2>2. /\ IsFiniteSet(Flying(to_peer', k))
        /\ Cardinality(Flying(to_peer', k)) =
             Cardinality(Flying(to_peer, k)) + One(text, k)
    BY <1>1, <2>1, FlyingMore
  <2>3. QED
    BY <1>2, <2>2, CopiesAre DEF One
<1>5. QED
  BY <1>3, <1>4

LEMMA CopyOffFlight ==
  ASSUME TypeOK, Countable, NEW d \in BagToSet(to_peer),
         to_peer' = to_peer (-) SetToBag({d}), NEW k \in Names
  PROVE  /\ IsFiniteSet(InFlight(k)')
         /\ Cardinality(InFlight(k)') = Cardinality(InFlight(k)) - One(d.text, k)
<1>1. IsABag(to_peer) /\ IsFiniteSet(Flying(to_peer, k))
  BY CopiesAre DEF TypeOK, NetworkTypeOK, Countable
<1>2. QED
  BY <1>1, FlyingLess, CopiesAre

LEMMA CopyInQueue ==
  ASSUME TypeOK, Countable, NEW h \in Names, NEW d,
         app_queue' = [app_queue EXCEPT ![h] = Append(@, d)], NEW k \in Names
  PROVE  /\ IsFiniteSet(InQueues(k)')
         /\ Cardinality(InQueues(k)') <= Cardinality(InQueues(k)) + One(d.text, k)
<1>1. app_queue \in [Names -> Seq(Received)] /\ IsFiniteSet(Waited(app_queue, k))
  BY CopiesAre DEF TypeOK, NetworkTypeOK, Countable
<1>2. /\ IsFiniteSet(Waited(app_queue', k))
      /\ Cardinality(Waited(app_queue', k)) <= Cardinality(Waited(app_queue, k)) + One(d.text, k)
  BY <1>1, WaitedMore
<1>3. QED
  BY <1>2, CopiesAre

LEMMA CopyTaken ==
  ASSUME TypeOK, Countable, NEW h \in Names, app_queue[h] # <<>>,
         app_queue' = [app_queue EXCEPT ![h] = Tail(@)], NEW k \in Names
  PROVE  /\ IsFiniteSet(InQueues(k)')
         /\ Cardinality(InQueues(k)') <=
              Cardinality(InQueues(k)) - One(Head(app_queue[h]).text, k)
<1>1. app_queue \in [Names -> Seq(Received)] /\ IsFiniteSet(Waited(app_queue, k))
  BY CopiesAre DEF TypeOK, NetworkTypeOK, Countable
<1>2. /\ IsFiniteSet(Waited(app_queue', k))
      /\ Cardinality(Waited(app_queue', k)) <=
                 Cardinality(Waited(app_queue, k)) - One(Head(app_queue[h]).text, k)
  BY <1>1, WaitedLess
<1>3. QED
  BY <1>2, CopiesAre

LEMMA CopiesForgotten ==
  ASSUME TypeOK, Countable, NEW h \in Names,
         app_queue' = [app_queue EXCEPT ![h] = <<>>], NEW k \in Names
  PROVE  /\ IsFiniteSet(InQueues(k)')
         /\ Cardinality(InQueues(k)') <= Cardinality(InQueues(k))
<1>1. app_queue \in [Names -> Seq(Received)] /\ IsFiniteSet(Waited(app_queue, k))
  BY CopiesAre DEF TypeOK, NetworkTypeOK, Countable
<1>2. /\ IsFiniteSet(Waited(app_queue', k))
      /\ Cardinality(Waited(app_queue', k)) <= Cardinality(Waited(app_queue, k))
  BY <1>1, WaitedEmptied
<1>3. QED
  BY <1>2, CopiesAre

-------------------------------------------------------------------------------
(* The steps. *)

\* A step puts no more copies of k under way than it counts as resent.
Spent(k) == Copies(k) + (IF received_[k] THEN 1 ELSE 0)
Counted(k) == resent[k] + incarnation[k]
Balanced(k) == Spent(k)' + Counted(k) <= Spent(k) + Counted(k)'

LEMMA SpentIs ==
  ASSUME TypeOK, TypeOK', Countable, Countable', NEW k \in Names
  PROVE  /\ Spent(k) \in Nat /\ Spent(k)' \in Nat
         /\ Counted(k) \in Nat /\ Counted(k)' \in Nat
<1>1. /\ Cardinality(InFlight(k)) \in Nat /\ Cardinality(InQueues(k)) \in Nat
      /\ Cardinality(InFlight(k)') \in Nat /\ Cardinality(InQueues(k)') \in Nat
  BY FS_CardinalityType DEF Countable
<1>2. /\ resent[k] \in Nat /\ incarnation[k] \in Nat
      /\ resent'[k] \in Nat /\ incarnation'[k] \in Nat
  BY DEF TypeOK, NetworkTypeOK, MobileNodeTypeOK
<1>3. QED
  BY <1>1, <1>2 DEF Spent, Counted, Copies

LEMMA Balance ==
  ASSUME TypeOK, TypeOK', CopiesInv, Countable', \A k \in Names : Balanced(k)
  PROVE  CopiesInv'
<1>1. ASSUME NEW k \in Names
      PROVE  Spent(k)' <= 1 + Counted(k)'
  <2>1. Spent(k) <= 1 + Counted(k)
    <3>1. Copies(k) + (IF received_[k] THEN 1 ELSE 0) <= 1 + resent[k] + incarnation[k]
      BY DEF CopiesInv, CopiesAreResends
    <3>2. resent[k] \in Nat /\ incarnation[k] \in Nat
      BY DEF TypeOK, NetworkTypeOK, MobileNodeTypeOK
    <3>3. QED
      BY <3>1, <3>2 DEF Spent, Counted
  <2>2. QED
    BY <2>1, SpentIs DEF Balanced, CopiesInv
<1>2. ASSUME NEW k \in Names
      PROVE  Copies(k)' + (IF received_'[k] THEN 1 ELSE 0)
               <= 1 + resent'[k] + incarnation'[k]
  <2>1. resent'[k] \in Nat /\ incarnation'[k] \in Nat
    BY DEF TypeOK, NetworkTypeOK, MobileNodeTypeOK
  <2>2. QED
    BY <1>1, <2>1 DEF Spent, Counted
<1>3. QED
  BY <1>2 DEF CopiesInv, CopiesAreResends

\* Steps that touch no copy.
LEMMA CopiesQuiet ==
  ASSUME TypeOK, TypeOK', CopiesInv,
         UNCHANGED <<to_peer, app_queue, received_, resent, incarnation>>
  PROVE  CopiesInv'
<1>1. \A k \in Names : InFlight(k)' = InFlight(k) /\ InQueues(k)' = InQueues(k)
  BY DEF InFlight, InQueues
<1>2. Countable'
  BY <1>1 DEF CopiesInv, Countable
<1>3. \A k \in Names : Copies(k)' = Copies(k)
  BY <1>1 DEF Copies
<1>4. CopiesAreResends'
  BY <1>3 DEF CopiesInv, CopiesAreResends
<1>5. QED
  BY <1>2, <1>4 DEF CopiesInv

\* Steps that empty a queue, the process being at its end or a new one.
LEMMA ProcessEndsCopies ==
  ASSUME TypeOK, TypeOK', CopiesInv, NEW h \in Names,
         app_queue' = [app_queue EXCEPT ![h] = <<>>],
         UNCHANGED <<to_peer, resent>>,
         \/ UNCHANGED <<received_, incarnation>>
         \/ /\ received_' = [received_ EXCEPT ![h] = TRUE]
            /\ incarnation' = [incarnation EXCEPT ![h] = @ + 1]
  PROVE  CopiesInv'
<1>1. ASSUME NEW k \in Names
      PROVE  /\ InFlight(k)' = InFlight(k) /\ IsFiniteSet(InFlight(k))
             /\ IsFiniteSet(InQueues(k)')
             /\ Cardinality(InQueues(k)') <= Cardinality(InQueues(k))
  BY CopiesForgotten DEF InFlight, CopiesInv, Countable
<1>2. Countable'
  BY <1>1 DEF Countable
<1>3. ASSUME NEW k \in Names
      PROVE  Balanced(k)
  <2>1. /\ Cardinality(InFlight(k)) \in Nat /\ Cardinality(InQueues(k)) \in Nat
        /\ Cardinality(InQueues(k)') \in Nat
    BY <1>1, FS_CardinalityType DEF CopiesInv, Countable
  <2>2. resent[k] \in Nat /\ incarnation[k] \in Nat
    BY DEF TypeOK, NetworkTypeOK, MobileNodeTypeOK
  <2>3. /\ \/ received_'[k] = received_[k] /\ incarnation'[k] = incarnation[k]
           \/ incarnation'[k] = incarnation[k] + 1
        /\ resent'[k] = resent[k] /\ incarnation'[k] \in Nat
    BY DEF TypeOK, NetworkTypeOK, EchoAppTypeOK
  <2>4. (IF received_'[k] THEN 1 ELSE 0) + incarnation[k]
          <= (IF received_[k] THEN 1 ELSE 0) + incarnation'[k]
    BY <2>2, <2>3
  <2>5. Copies(k)' <= Copies(k) /\ Copies(k) \in Nat /\ Copies(k)' \in Nat
    BY <1>1, <2>1 DEF Copies
  <2>6. QED
    BY <2>2, <2>3, <2>4, <2>5 DEF Balanced, Spent, Counted
<1>4. QED
  BY <1>2, <1>3, Balance

\* Steps that take a datagram off a queue, whatever for.
LEMMA TakenCopies ==
  ASSUME TypeOK, TypeOK', CopiesInv, NEW h \in Names, app_queue[h] # <<>>,
         app_queue' = [app_queue EXCEPT ![h] = Tail(@)],
         UNCHANGED <<resent, incarnation>>,
         \/ UNCHANGED <<to_peer, received_>>
         \/ /\ Head(app_queue[h]).text = h
            /\ received_' = [received_ EXCEPT ![h] = TRUE]
            /\ UNCHANGED to_peer
         \/ /\ Head(app_queue[h]).text \in Names
            /\ \E to : to_peer' = SentToPeer(h, to, Head(app_queue[h]).text)
            /\ UNCHANGED received_
  PROVE  CopiesInv'
<1> DEFINE text == Head(app_queue[h]).text
<1>1. ASSUME NEW k \in Names
      PROVE  /\ IsFiniteSet(InQueues(k)')
             /\ Cardinality(InQueues(k)') <= Cardinality(InQueues(k)) - One(text, k)
  BY CopyTaken DEF CopiesInv
<1> HIDE DEF text
<1>2. ASSUME NEW k \in Names
      PROVE  /\ IsFiniteSet(InFlight(k)')
             /\ \/ /\ Cardinality(InFlight(k)') = Cardinality(InFlight(k))
                   /\ received_'[k] = received_[k] \/ text = k
                \/ /\ Cardinality(InFlight(k)') <= Cardinality(InFlight(k)) + One(text, k)
                   /\ received_'[k] = received_[k]
  <2>1. CASE UNCHANGED to_peer /\ \/ UNCHANGED received_
                                  \/ /\ text = h
                                     /\ received_' = [received_ EXCEPT ![h] = TRUE]
    <3>1. received_'[k] = received_[k] \/ text = k
      BY <2>1 DEF TypeOK, EchoAppTypeOK
    <3>2. QED
      BY <2>1, <3>1 DEF InFlight, CopiesInv, Countable
  <2>2. CASE /\ text \in Names
             /\ \E to : to_peer' = SentToPeer(h, to, text)
             /\ UNCHANGED received_
    BY <2>2, CopiesSent DEF CopiesInv
  <2>3. QED
    BY <2>1, <2>2 DEF text
<1>3. Countable'
  BY <1>1, <1>2 DEF Countable
<1>4. ASSUME NEW k \in Names
      PROVE  Balanced(k)
  <2>1. /\ Cardinality(InFlight(k)) \in Nat /\ Cardinality(InQueues(k)) \in Nat
        /\ Cardinality(InFlight(k)') \in Nat /\ Cardinality(InQueues(k)') \in Nat
    BY <1>1, <1>2, FS_CardinalityType DEF CopiesInv, Countable
  <2>2. /\ resent[k] \in Nat /\ incarnation[k] \in Nat
        /\ resent'[k] = resent[k] /\ incarnation'[k] = incarnation[k]
    BY DEF TypeOK, NetworkTypeOK, MobileNodeTypeOK
  <2>3. Copies(k)' + (IF received_'[k] THEN 1 ELSE 0)
          <= Copies(k) + (IF received_[k] THEN 1 ELSE 0)
    BY <1>1, <1>2, <2>1 DEF Copies, One
  <2>4. Copies(k) \in Nat /\ Copies(k)' \in Nat
    BY <2>1 DEF Copies
  <2>5. QED
    BY <2>2, <2>3, <2>4 DEF Balanced, Spent, Counted
<1>5. QED
  BY <1>3, <1>4, Balance

\* Steps that send a copy of text: the daemon's resend, which is counted, and the
\* application's, which has the previous one back.
LEMMA SentCopies ==
  ASSUME TypeOK, TypeOK', CopiesInv, NEW h \in Names, NEW to, NEW text \in Names,
         to_peer' = SentToPeer(h, to, text),
         UNCHANGED <<app_queue, incarnation>>,
         \/ /\ resent' = [resent EXCEPT ![text] = @ + 1]
            /\ UNCHANGED received_
         \/ /\ received_[text]
            /\ received_' = [received_ EXCEPT ![text] = FALSE]
            /\ UNCHANGED resent
  PROVE  CopiesInv'
<1>1. ASSUME NEW k \in Names
      PROVE  /\ IsFiniteSet(InFlight(k)') /\ IsFiniteSet(InQueues(k))
             /\ InQueues(k)' = InQueues(k)
             /\ Cardinality(InFlight(k)') <= Cardinality(InFlight(k)) + One(text, k)
  <2>1. /\ IsFiniteSet(InFlight(k)')
        /\ Cardinality(InFlight(k)') <= Cardinality(InFlight(k)) + One(text, k)
    BY CopiesSent DEF CopiesInv
  <2>2. InQueues(k)' = InQueues(k) /\ IsFiniteSet(InQueues(k))
    BY DEF InQueues, CopiesInv, Countable
  <2>3. QED
    BY <2>1, <2>2
<1>2. Countable'
  BY <1>1 DEF Countable
<1>3. ASSUME NEW k \in Names
      PROVE  Balanced(k)
  <2>1. /\ Cardinality(InFlight(k)) \in Nat /\ Cardinality(InQueues(k)) \in Nat
        /\ Cardinality(InFlight(k)') \in Nat
    BY <1>1, FS_CardinalityType DEF CopiesInv, Countable
  <2>2. resent[k] \in Nat /\ incarnation[k] \in Nat /\ incarnation'[k] = incarnation[k]
    BY DEF TypeOK, NetworkTypeOK, MobileNodeTypeOK
  <2>3. \/ /\ resent'[k] = resent[k] + One(text, k)
           /\ received_'[k] = received_[k]
        \/ /\ resent'[k] = resent[k]
           /\ text = k => received_[k] /\ ~received_'[k]
           /\ text # k => received_'[k] = received_[k]
    BY <2>2 DEF One, TypeOK, MobileNodeTypeOK, EchoAppTypeOK
  <2>4. QED
    BY <1>1, <2>1, <2>2, <2>3 DEF Balanced, Spent, Counted, Copies, One
<1>4. QED
  BY <1>2, <1>3, Balance

\* The network takes a datagram out of flight, and into a queue or nowhere.
LEMMA NetworkCopies ==
  ASSUME TypeOK, TypeOK', CopiesInv, NEW d \in BagToSet(to_peer),
         to_peer' = to_peer (-) SetToBag({d}),
         UNCHANGED <<received_, resent, incarnation>>,
         \/ UNCHANGED app_queue
         \/ \E from : \E h \in Names :
              app_queue' = [app_queue EXCEPT ![h] =
                              Append(@, [from |-> from, text |-> d.text])]
  PROVE  CopiesInv'
<1>1. ASSUME NEW k \in Names
      PROVE  /\ IsFiniteSet(InFlight(k)')
             /\ Cardinality(InFlight(k)') = Cardinality(InFlight(k)) - One(d.text, k)
  BY CopyOffFlight DEF CopiesInv
<1>2. ASSUME NEW k \in Names
      PROVE  /\ IsFiniteSet(InQueues(k)')
             /\ Cardinality(InQueues(k)') <= Cardinality(InQueues(k)) + One(d.text, k)
  <2>1. CASE UNCHANGED app_queue
    <3>1. InQueues(k)' = InQueues(k) /\ IsFiniteSet(InQueues(k))
      BY <2>1 DEF InQueues, CopiesInv, Countable
    <3>2. Cardinality(InQueues(k)) \in Nat
      BY <3>1, FS_CardinalityType
    <3>3. QED
      BY <3>1, <3>2 DEF One
  <2>2. ASSUME NEW h \in Names, NEW from,
               app_queue' = [app_queue EXCEPT ![h] =
                               Append(@, [from |-> from, text |-> d.text])]
        PROVE  /\ IsFiniteSet(InQueues(k)')
               /\ Cardinality(InQueues(k)') <= Cardinality(InQueues(k)) + One(d.text, k)
    <3>1. PICK m : m = [from |-> from, text |-> d.text]
      OBVIOUS
    <3>2. app_queue' = [app_queue EXCEPT ![h] = Append(@, m)] /\ m.text = d.text
      BY <2>2, <3>1
    <3>3. QED
      BY <3>2, CopyInQueue DEF CopiesInv
  <2>3. QED
    BY <2>1, <2>2
<1>3. Countable'
  BY <1>1, <1>2 DEF Countable
<1>4. ASSUME NEW k \in Names
      PROVE  Balanced(k)
  <2>1. /\ Cardinality(InFlight(k)) \in Nat /\ Cardinality(InQueues(k)) \in Nat
        /\ Cardinality(InFlight(k)') \in Nat /\ Cardinality(InQueues(k)') \in Nat
    BY <1>1, <1>2, FS_CardinalityType DEF CopiesInv, Countable
  <2>2. resent[k] \in Nat /\ incarnation[k] \in Nat
    BY DEF TypeOK, NetworkTypeOK, MobileNodeTypeOK
  <2>3. Copies(k)' <= Copies(k)
    BY <1>1, <1>2, <2>1 DEF Copies, One
  <2>4. Copies(k) \in Nat /\ Copies(k)' \in Nat
    BY <2>1 DEF Copies
  <2>5. QED
    BY <2>2, <2>3, <2>4 DEF Balanced, Spent, Counted
<1>5. QED
  BY <1>3, <1>4, Balance

\* A notice of the server's is no copy of a keyword.
LEMMA NoticeCopies ==
  ASSUME TypeOK, TypeOK', CopiesInv, NEW h \in Names, DeliverNotice(h, AppPort),
         UNCHANGED <<received_, resent>>
  PROVE  CopiesInv'
<1>1. PICK d \in to_app :
        /\ app_queue' = [app_queue EXCEPT ![h] =
                           Append(@, [from |-> RendezvousServer, text |-> d.text])]
        /\ UNCHANGED <<to_peer, incarnation>>
  BY DEF DeliverNotice
<1>2. d.text \notin Names
  BY NetworkAssumption DEF TypeOK, NetworkTypeOK, Notice
<1>3. PICK m : m = [from |-> RendezvousServer, text |-> d.text]
  OBVIOUS
<1>4. app_queue' = [app_queue EXCEPT ![h] = Append(@, m)] /\ m.text \notin Names
  BY <1>1, <1>2, <1>3
<1>5. ASSUME NEW k \in Names
      PROVE  /\ IsFiniteSet(InQueues(k)')
             /\ Cardinality(InQueues(k)') <= Cardinality(InQueues(k))
             /\ InFlight(k)' = InFlight(k) /\ IsFiniteSet(InFlight(k))
  <2>1. /\ IsFiniteSet(InQueues(k)')
        /\ Cardinality(InQueues(k)') <= Cardinality(InQueues(k)) + One(m.text, k)
    BY <1>4, CopyInQueue DEF CopiesInv
  <2>2. One(m.text, k) = 0
    BY <1>4 DEF One
  <2>3. Cardinality(InQueues(k)) \in Nat
    BY Numbers DEF CopiesInv
  <2>4. QED
    BY <1>1, <2>1, <2>2, <2>3 DEF InFlight, CopiesInv, Countable
<1>6. Countable'
  BY <1>5 DEF Countable
<1>7. ASSUME NEW k \in Names
      PROVE  Balanced(k)
  <2>1. /\ Cardinality(InFlight(k)) \in Nat /\ Cardinality(InQueues(k)) \in Nat
        /\ Cardinality(InQueues(k)') \in Nat
    BY <1>5, FS_CardinalityType DEF CopiesInv, Countable
  <2>2. resent[k] \in Nat /\ incarnation[k] \in Nat
    BY DEF TypeOK, NetworkTypeOK, MobileNodeTypeOK
  <2>3. QED
    BY <1>1, <1>5, <2>1, <2>2 DEF Balanced, Spent, Counted, Copies
<1>8. QED
  BY <1>6, <1>7, Balance

LEMMA DaemonCopies ==
  ASSUME TypeOK, TypeOK', CopiesInv, NEW h \in Names, DaemonThread(h)
  PROVE  CopiesInv'
<1>1. UNCHANGED <<received_, incarnation>>
  BY DEF DaemonThread, Daemon, appVars, PollSubscriptions, FirstRegistration, WakeMoved,
     SendRegistration, RegistrationAcked, WakeUnmoved, RegistrationFails, PollNothing,
     PollError, PeekUpdate, TakeUpdate, WriteAddress, CopyMessages, Resend, Resent,
     NoteAddress, DaemonGoto
<1>2. CASE TakeUpdate(h)
  BY <1>1, <1>2, TakenCopies DEF TakeUpdate
<1>3. CASE Resend(h)
  <2>1. PICK text \in unsent[h] :
          /\ to_peer' = SentToPeer(h, app_sockets_[h], text)
          /\ resent' = [resent EXCEPT ![text] = @ + 1]
    BY <1>3 DEF Resend
  <2>2. text \in Names /\ UNCHANGED app_queue
    BY <1>3 DEF Resend, TypeOK, MobileNodeTypeOK
  <2>3. QED
    BY <1>1, <2>1, <2>2, SentCopies
<1>4. CASE ~TakeUpdate(h) /\ ~Resend(h)
  <2>1. UNCHANGED <<to_peer, app_queue, resent>>
    BY <1>4 DEF DaemonThread, Daemon, PollSubscriptions, FirstRegistration, WakeMoved,
       SendRegistration, RegistrationAcked, WakeUnmoved, RegistrationFails, PollNothing,
       PollError, PeekUpdate, WriteAddress, CopyMessages, Resent, NoteAddress, pollVars
  <2>2. QED
    BY <1>1, <2>1, CopiesQuiet
<1>5. QED
  BY <1>2, <1>3, <1>4

LEMMA AppCopies ==
  ASSUME TypeOK, TypeOK', PeekInv, CopiesInv, NEW h \in Names, AppThread(h)
  PROVE  CopiesInv'
<1>1. CASE LookupReplied(h)
  BY <1>1, TakenCopies DEF LookupReplied, AppThread, App, appVars, pollVars, flightVars,
     AppGoto, BindFails, Retry, GiveUp, Connected, ReceiveNothing, ReceiveError,
     PeekMessage, ReceiveOwn, ReceiveAndEcho, TakeMessage, SendKeyword, SkipSend, NoteSent
<1>2. CASE /\ QueryDns(h) \/ QueryFails(h) \/ DnsReplied(h) \/ LookupPeer(h)
           /\ UNCHANGED appVars
  <2>1. UNCHANGED <<to_peer, app_queue, received_, resent, incarnation>>
    BY <1>2 DEF QueryDns, QueryFails, DnsReplied, LookupPeer, appVars, pollVars,
       networkVars, flightVars
  <2>2. QED
    BY <2>1, CopiesQuiet
<1>3. CASE ProcessEnds(h)
  <2>1. /\ app_queue' = [app_queue EXCEPT ![h] = <<>>]
        /\ UNCHANGED <<to_peer, resent, received_, incarnation>>
    BY <1>3 DEF ProcessEnds, flightVars, pollVars, appVars
  <2>2. QED
    BY <2>1, ProcessEndsCopies
<1>4. CASE Retry(h) \/ Connected(h) \/ ReceiveNothing(h) \/ PeekMessage(h)
             \/ SkipSend(h) \/ NoteSent(h)
  <2>1. UNCHANGED <<to_peer, app_queue, received_, resent, incarnation>>
    BY <1>4 DEF Retry, Connected, ReceiveNothing, PeekMessage, SkipSend, NoteSent,
       loopUnchanged, appVars, pollVars, networkVars, flightVars
  <2>2. QED
    BY <2>1, CopiesQuiet
<1>5. CASE ReceiveOwn(h)
  BY <1>5, TakenCopies DEF ReceiveOwn, TakeMessage, loopUnchanged, pollVars
<1>6. CASE ReceiveAndEcho(h)
  <2>1. Head(app_queue[h]) \in Received /\ ~FromServer(h) /\ app_queue[h] # <<>>
    BY <1>6 DEF ReceiveAndEcho, TakeMessage, TypeOK, NetworkTypeOK, PeekInv, PeekedIsTaken
  <2>2. Head(app_queue[h]).text \in Names
    BY <2>1 DEF Received, FromServer
  <2>3. /\ app_queue' = [app_queue EXCEPT ![h] = Tail(@)]
        /\ \E to : to_peer' = SentToPeer(h, to, Head(app_queue[h]).text)
        /\ UNCHANGED <<received_, resent, incarnation>>
    BY <1>6 DEF ReceiveAndEcho, TakeMessage, loopUnchanged, pollVars
  <2>4. QED
    BY <2>1, <2>2, <2>3, TakenCopies
<1>7. CASE SendKeyword(h)
  <2>1. /\ to_peer' = SentToPeer(h, app_sockets_[h], h)
        /\ received_[h] /\ received_' = [received_ EXCEPT ![h] = FALSE]
        /\ UNCHANGED <<app_queue, incarnation, resent>>
    BY <1>7 DEF SendKeyword, loopUnchanged, pollVars
  <2>2. QED
    BY <2>1, SentCopies
<1>8. QED
  BY <1>1, <1>2, <1>3, <1>4, <1>5, <1>6, <1>7 DEF AppThread, RegisterPeer, App,
     BindFails, GiveUp, ReceiveError

LEMMA NextCopies ==
  ASSUME TypeOK, PeekInv, CopiesInv, [RestartNext]_vars
  PROVE  CopiesInv'
<1>1. TypeOK'
  BY NextType
<1>2. CASE UNCHANGED vars
  BY <1>1, <1>2, CopiesQuiet DEF vars, networkVars, flightVars, nodeVars, pollVars,
     appVars
<1>3. CASE Server \/ ServerCrash \/ DNS
  <2>1. UNCHANGED <<to_peer, app_queue, incarnation>>
    BY <1>3 DEF Server, ServerCrash, DNS, HandleRequests, HandleLookup,
       HandleRegistration, ServerRestarts, HandleQuery
  <2>2. UNCHANGED <<received_, resent>>
    BY <1>3 DEF Server, ServerCrash, DNS, nodeVars, pollVars, appVars
  <2>3. QED
    BY <1>1, <2>1, <2>2, CopiesQuiet
<1>4. ASSUME NEW h \in Names, Delivery(h)
      PROVE  CopiesInv'
  <2>1. UNCHANGED <<received_, resent>>
    BY <1>4 DEF Delivery, nodeVars, pollVars, appVars
  <2>2. CASE DeliverNotice(h, AppPort)
    BY <1>1, <2>1, <2>2, NoticeCopies
  <2>3. CASE DeliverPeer(h)
    <3>1. PICK d \in BagToSet(to_peer) :
            /\ to_peer' = to_peer (-) SetToBag({d})
            /\ app_queue' = [app_queue EXCEPT ![h] =
                               Append(@, [from |-> d.from, text |-> d.text])]
            /\ UNCHANGED incarnation
      BY <2>3 DEF DeliverPeer
    <3>2. QED
      BY <1>1, <2>1, <3>1, NetworkCopies
  <2>4. QED
    BY <1>4, <2>2, <2>3 DEF Delivery
<1>5. CASE Loss
  <2>1. UNCHANGED <<received_, resent, app_queue, incarnation>>
    BY <1>5 DEF Loss, LoseRequest, LoseReply, LoseNotice, LosePeer, nodeVars, pollVars,
       appVars
  <2>2. CASE UNCHANGED to_peer
    BY <1>1, <2>1, <2>2, CopiesQuiet
  <2>3. CASE \E d \in BagToSet(to_peer) : to_peer' = to_peer (-) SetToBag({d})
    BY <1>1, <2>1, <2>3, NetworkCopies
  <2>4. QED
    BY <1>5, <2>2, <2>3 DEF Loss, LoseRequest, LoseReply, LoseNotice, LosePeer
<1>6. ASSUME NEW h \in Names, MachineMoves(h) \/ MachineDisconnects(h)
      PROVE  CopiesInv'
  <2>1. UNCHANGED <<to_peer, app_queue, received_, resent, incarnation>>
    BY <1>6 DEF MachineMoves, MachineDisconnects, Move, Disconnect, nodeVars, pollVars,
       appVars, flightVars
  <2>2. QED
    BY <1>1, <2>1, CopiesQuiet
<1>7. ASSUME NEW h \in Names, Restart(h)
      PROVE  CopiesInv'
  <2>1. /\ app_queue' = [app_queue EXCEPT ![h] = <<>>]
        /\ received_' = [received_ EXCEPT ![h] = TRUE]
        /\ incarnation' = [incarnation EXCEPT ![h] = @ + 1]
        /\ UNCHANGED <<to_peer, resent>>
    BY <1>7 DEF Restart, flightVars
  <2>2. QED
    BY <1>1, <2>1, ProcessEndsCopies
<1>8. ASSUME NEW h \in Names, Interrupt(h)
      PROVE  CopiesInv'
  <2>1. /\ app_queue' = [app_queue EXCEPT ![h] = <<>>]
        /\ UNCHANGED <<to_peer, resent, received_, incarnation>>
    BY <1>8 DEF Interrupt, Interrupted, ProcessEnds, flightVars, pollVars, appVars
  <2>2. QED
    BY <1>1, <2>1, ProcessEndsCopies
<1>9. QED
  BY <1>1, <1>2, <1>3, <1>4, <1>5, <1>6, <1>7, <1>8, DaemonCopies, AppCopies
     DEF RestartNext, Next

LEMMA InitCopies ==
  ASSUME Init
  PROVE  CopiesInv
<1>1. TypeOK
  BY InitType
<1>2. BagToSet(to_peer) = {} /\ app_queue = [h \in Names |-> <<>>]
  BY NoBag DEF Init, NetworkInit
<1>3. ASSUME NEW h \in Names
      PROVE  InFlight(h) = {} /\ InQueues(h) = {}
  <2>1. Flying(to_peer, h) = {}
    BY <1>2, FlyingMembers
  <2>2. \A n \in Names : DOMAIN app_queue[n] = {}
    BY <1>2
  <2>3. Waited(app_queue, h) = {}
    BY <2>2, WaitedMembers
  <2>4. QED
    BY <2>1, <2>3, CopiesAre
<1>a. IsFiniteSet({}) /\ Cardinality({}) = 0
  BY FS_EmptySet
<1>4. Countable
  BY <1>3, <1>a DEF Countable
<1>5. ASSUME NEW h \in Names
      PROVE  Copies(h) = 0
  <2>1. Cardinality(InFlight(h)) = 0 /\ Cardinality(InQueues(h)) = 0
    BY <1>3, <1>4, FS_EmptySet DEF Countable
  <2>2. QED
    BY <2>1 DEF Copies
<1>6. \A h \in Names : resent[h] = 0 /\ incarnation[h] = 0
  BY DEF Init, MobileNodeInit, NetworkInit
<1>7. QED
  BY <1>4, <1>5, <1>6 DEF CopiesInv, CopiesAreResends

\* However the threads of any number of nodes interleave, whatever is lost, delayed
\* or overtaken, whoever moves, disconnects, is restarted or crashes: each copy of a
\* keyword under way beyond the one its application sent was resent by a daemon, or
\* is left over from the application's former process.
THEOREM CopiesAreCounted == RestartSpec => []CopiesAreResends
<1>1. Init => TypeOK /\ PeekInv /\ CopiesInv
  BY InitType, InitPeekInv, InitCopies
<1>2. TypeOK /\ PeekInv /\ CopiesInv /\ [RestartNext]_vars
        => (TypeOK /\ PeekInv /\ CopiesInv)'
  BY NextType, NextPeekInv, NextCopies
<1>3. CopiesInv => CopiesAreResends
  BY DEF CopiesInv
<1>4. QED
  BY <1>1, <1>2, <1>3, PTL DEF RestartSpec

===============================================================================
