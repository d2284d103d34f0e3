--------------------------- MODULE AddressingProofs ---------------------------
(***************************************************************************)
(* Addresses survive their way through text, however many values an octet  *)
(* has: the octets are the digits of the word in base Base.  And of        *)
(* however many interfaces the lowest visible one is found.                *)
(***************************************************************************)
EXTENDS Addressing, TLAPS

LEMMA Monotonic ==
  ASSUME NEW m \in Nat, NEW x \in Int, NEW y \in Int, x <= y
  PROVE  x * m <= y * m
<1>1. (y - x) * m >= 0
  BY SMT
<1> QED
  BY <1>1, SMT

LEMMA Division ==
  ASSUME NEW w \in Nat, NEW m \in Nat \ {0}
  PROVE  /\ w % m \in 0 .. m - 1
         /\ w \div m \in Nat
         /\ w = (w \div m) * m + (w % m)
  BY SMT

LEMMA UniqueQuotient ==
  ASSUME NEW m \in Nat \ {0}, NEW q \in Nat, NEW r \in 0 .. m - 1,
         NEW p \in Nat, NEW s \in 0 .. m - 1, q * m + r = p * m + s
  PROVE  q = p
<1>1. CASE q < p
  <2>1. (q + 1) * m <= p * m
    BY <1>1, Monotonic, SMT
  <2> QED
    BY <2>1, SMT
<1>2. CASE p < q
  <2>1. (p + 1) * m <= q * m
    BY <1>2, Monotonic, SMT
  <2> QED
    BY <2>1, SMT
<1> QED
  BY <1>1, <1>2, SMT

LEMMA SmallRemainder ==
  ASSUME NEW m \in Nat \ {0}, NEW w \in 0 .. m - 1
  PROVE  w % m = w
<1>1. w \in Nat
  BY SMT
<1>2. PICK p \in Nat, s \in 0 .. m - 1 : s = w % m /\ w = p * m + s
  BY <1>1, Division
<1>3. 0 * m + w = p * m + s
  BY <1>2, SMT
<1>4. p = 0
  BY <1>3, UniqueQuotient, SMT
<1> QED
  BY <1>2, <1>4, SMT

\* Shifting twice is shifting once.
LEMMA QuotientOfQuotient ==
  ASSUME NEW w \in Nat, NEW m \in Nat \ {0}, NEW n \in Nat \ {0}
  PROVE  w \div (m * n) = (w \div m) \div n
<1>1. PICK q \in Nat, r \in 0 .. m - 1 :
        q = w \div m /\ w = q * m + r
  BY Division
<1>2. PICK p \in Nat, s \in 0 .. n - 1 :
        p = q \div n /\ q = p * n + s
  BY Division
<1>3. s * m <= (n - 1) * m
  BY Monotonic, SMT
<1>4. s * m + r \in 0 .. m * n - 1
  <2>1. s * m >= 0
    BY SMT
  <2>2. (n - 1) * m = m * n - m
    BY SMT
  <2> QED
    BY <1>3, <2>1, <2>2, SMT
<1>5. w = p * (m * n) + (s * m + r)
  <2>1. (p * n + s) * m = p * (m * n) + s * m
    BY SMT
  <2>2. w = (p * n + s) * m + r
    BY <1>1, <1>2
  <2>3. p * (m * n) \in Int /\ s * m \in Int
    BY SMT
  <2>4. (p * (m * n) + s * m) + r = p * (m * n) + (s * m + r)
    BY <2>3, SMT
  <2> QED
    BY <2>1, <2>2, <2>4, Zenon
<1>6. m * n \in Nat \ {0}
  BY <1>4, SMT
<1>7. PICK t \in Nat, u \in 0 .. (m * n) - 1 :
        t = w \div (m * n) /\ w = t * (m * n) + u
  BY <1>6, Division
<1>8. t = p
  BY <1>4, <1>5, <1>6, <1>7, UniqueQuotient
<1> QED
  BY <1>1, <1>2, <1>7, <1>8

LEMMA QuotientBound ==
  ASSUME NEW w \in Nat, NEW m \in Nat \ {0}, NEW n \in Nat, w < n * m
  PROVE  w \div m < n
<1>1. PICK q \in Nat, r \in 0 .. m - 1 : q = w \div m /\ w = q * m + r
  BY Division
<1>2. CASE q >= n
  <2>1. n * m <= q * m
    BY <1>2, Monotonic
  <2> QED
    BY <1>1, <2>1, SMT
<1> QED
  BY <1>1, <1>2, SMT

\* The weights of the octets.
B2 == Base * Base
B3 == Base * Base * Base
B4 == Base * Base * Base * Base

LEMMA Weights ==
  /\ Base \in Nat \ {0} /\ B2 \in Nat \ {0} /\ B3 \in Nat \ {0} /\ B4 \in Nat \ {0}
  /\ B3 = B2 * Base /\ B4 = Base * B3
<1>1. Base \in Nat \ {0}
  BY AddressingAssumption
<1>2. B2 \in Nat \ {0}
  BY <1>1, SMT DEF B2
<1>3. B3 = B2 * Base /\ B4 = B3 * Base
  BY <1>1, SMT DEF B2, B3, B4
<1>4. B3 \in Nat \ {0}
  BY <1>1, <1>2, <1>3, SMT
<1>5. B4 \in Nat \ {0}
  BY <1>1, <1>3, <1>4, SMT
<1>6. B3 * Base = Base * B3
  BY <1>1, <1>4, SMT
<1> QED
  BY <1>1, <1>2, <1>3, <1>4, <1>5, <1>6

LEMMA Digits ==
  ASSUME NEW w \in 0 .. B4 - 1
  PROVE  /\ w % Base \in Octet
         /\ (w \div Base) % Base \in Octet
         /\ (w \div B2) % Base \in Octet
         /\ (w \div B3) % Base \in Octet
         /\ (w % Base) + ((w \div Base) % Base) * Base + ((w \div B2) % Base) * B2
              + ((w \div B3) % Base) * B3 = w
<1>a. Base \in Nat \ {0} /\ B2 \in Nat \ {0}
  BY Weights
<1>1. w \in Nat /\ w < Base * B3
  BY Weights, SMT
<1>2. PICK q1 \in Nat, a \in 0 .. Base - 1 :
        q1 = w \div Base /\ a = w % Base /\ w = q1 * Base + a
  BY <1>1, Weights, Division
<1>3. PICK q2 \in Nat, b \in 0 .. Base - 1 :
        q2 = q1 \div Base /\ b = q1 % Base /\ q1 = q2 * Base + b
  BY Weights, Division
<1>4. PICK q3 \in Nat, c \in 0 .. Base - 1 :
        q3 = q2 \div Base /\ c = q2 % Base /\ q2 = q3 * Base + c
  BY Weights, Division
<1>5. q2 = w \div B2
  <2>1. w \div (Base * Base) = (w \div Base) \div Base
    BY <1>1, <1>a, QuotientOfQuotient, Zenon
  <2> QED
    BY <1>2, <1>3, <2>1 DEF B2
<1>6. q3 = w \div B3
  <2>1. w \div (B2 * Base) = (w \div B2) \div Base
    BY <1>1, <1>a, QuotientOfQuotient, Zenon
  <2> QED
    BY <1>4, <1>5, <2>1, Weights, Zenon
<1>7. q3 < Base
  BY <1>1, <1>6, Weights, QuotientBound
<1>8. q3 % Base = q3 /\ q3 \in 0 .. Base - 1
  <2>1. q3 \in 0 .. Base - 1
    BY <1>7, Weights, SMT
  <2> QED
    BY <2>1, Weights, SmallRemainder, Zenon
<1>9. w = a + b * Base + c * B2 + q3 * B3
  <2>1. ((q3 * Base + c) * Base + b) * Base + a
          = a + b * Base + c * (Base * Base) + q3 * (Base * Base * Base)
    BY Weights, SMT
  <2> QED
    BY <1>2, <1>3, <1>4, <2>1 DEF B2, B3
<1> QED
  BY <1>2, <1>3, <1>4, <1>5, <1>6, <1>8, <1>9 DEF Octet

LEMMA Conversions ==
  ASSUME NEW word \in Word
  PROVE  SurvivesText(word)
<1> DEFINE text == IntToIPString(word)
           a == word % Base
           b == (word \div Base) % Base
           c == (word \div B2) % Base
           d == (word \div B3) % Base
<1>1. word \in 0 .. B4 - 1
  BY DEF Word, B4
<1>2. text = <<a, b, c, d>>
  BY DEF IntToIPString, B2, B3
<1>3. /\ a \in Octet /\ b \in Octet /\ c \in Octet /\ d \in Octet
      /\ a + b * Base + c * B2 + d * B3 = word
  BY <1>1, Digits
<1> HIDE DEF text, a, b, c, d
<1>4. text \in [1 .. 4 -> Octet]
  BY <1>2, <1>3
<1>5. Octet \subseteq Int
  BY Weights DEF Octet
<1>6. /\ Shifted(text, 1, 1) = a * 1
      /\ Shifted(text, 2, Base) = b * Base
      /\ Shifted(text, 3, B2) = c * B2
      /\ Shifted(text, 4, B3) = d * B3
  BY <1>2, <1>3, <1>5, AddressingAssumption DEF Shifted, atoi
<1>7. IPStringToInt(text) = (a * 1 + b * Base + c * B2 + d * B3) % B4
  BY <1>6 DEF IPStringToInt, B2, B3, B4
<1>8. a * 1 + b * Base + c * B2 + d * B3 = word
  BY <1>3, <1>5
<1>9. word % B4 = word
  BY <1>1, Weights, SmallRemainder, Zenon
<1>10. IPStringToInt(text) = word
  BY <1>7, <1>8, <1>9
<1> QED
  BY <1>4, <1>10 DEF SurvivesText, text

LEMMA NextInterfaces ==
  ASSUME interfaces \in Seq(Interface), [Next]_interfaces
  PROVE  interfaces' \in Seq(Interface)
<1>1. CASE InterfaceAdded
  BY <1>1 DEF InterfaceAdded
<1>2. CASE InterfaceRemoved
  BY <1>2 DEF InterfaceRemoved
<1>3. CASE UNCHANGED interfaces
  BY <1>3
<1> QED
  BY <1>1, <1>2, <1>3 DEF Next

\* What the server makes of an address, the nodes make the same address of again.
THEOREM AddressesComeBack == Spec => []AddressesSurviveText
<1>1. Init => interfaces \in Seq(Interface)
  BY DEF Init
<1>2. interfaces \in Seq(Interface) /\ [Next]_interfaces
        => (interfaces \in Seq(Interface))'
  BY NextInterfaces
<1>3. interfaces \in Seq(Interface) => AddressesSurviveText
  <2> SUFFICES ASSUME interfaces \in Seq(Interface), NEW i \in DOMAIN interfaces,
                      interfaces[i] # None
               PROVE  SurvivesText(interfaces[i].word)
    BY DEF AddressesSurviveText
  <2>1. interfaces[i].word \in Word
    BY AddressingAssumption DEF Interface
  <2> QED
    BY <2>1, Conversions
<1> QED
  BY <1>1, <1>2, <1>3, PTL DEF Spec

-------------------------------------------------------------------------------
(* GetCurrentIPAddress *)

\* Of the harmless interfaces, only those with a visible address end the search.
LEMMA EligibleInterfaces ==
  ASSUME NEW interface \in Interface
  PROVE  /\ Visible(interface) => Eligible(interface)
         /\ Harmless(interface) /\ Eligible(interface) => Visible(interface)
<1>1. Visible(interface) => Eligible(interface)
  BY DEF Visible, IsIPv4, Eligible, FirstOctet
<1>2. ASSUME Harmless(interface), Eligible(interface), interface.family # "inet"
      PROVE  FALSE
  <2> DEFINE word == interface.word
  <2>1. Base \in Nat \ {0} /\ word \in Nat
    <3>1. interface # None
      BY <1>2 DEF Eligible
    <3>2. word \in Word
      BY <3>1, AddressingAssumption DEF Interface
    <3>3. word \in 0 .. B4 - 1
      BY <3>2 DEF Word, B4
    <3> QED
      BY <3>3, Weights
  <2>2. 2 * word < Base
    BY <1>2, <2>1 DEF Harmless, Eligible
  <2>3. word % Base = word
    <3>1. word \in 0 .. Base - 1
      BY <2>1, <2>2
    <3> QED
      BY <2>1, <3>1, SmallRemainder, Zenon
  <2> QED
    BY <1>2, <2>1, <2>2, <2>3 DEF Eligible, FirstOctet
<1> QED
  BY <1>1, <1>2 DEF Visible, IsIPv4, Eligible, FirstOctet

\* However many interfaces the machine has and in whatever order they are listed,
\* GetCurrentIPAddress finds the lowest whose IPv4 address is above 127, provided
\* those below it have an index below 128 and no flow label.
THEOREM OwnAddressIsFound == Spec => []OwnAddressFound
<1>1. Init => interfaces \in Seq(Interface)
  BY DEF Init
<1>2. interfaces \in Seq(Interface) /\ [Next]_interfaces
        => (interfaces \in Seq(Interface))'
  BY NextInterfaces
<1>3. interfaces \in Seq(Interface) => OwnAddressFound
  <2> SUFFICES ASSUME interfaces \in Seq(Interface),
                      NEW i \in DOMAIN interfaces,
                      Visible(interfaces[i]),
                      \A j \in 1 .. i - 1 :
                        Harmless(interfaces[j]) /\ ~Visible(interfaces[j])
               PROVE  GetCurrentIPAddress = interfaces[i].word
    BY DEF OwnAddressFound
  <2> DEFINE First(k) == /\ Eligible(interfaces[k])
                         /\ \A j \in 1 .. k - 1 : ~Eligible(interfaces[j])
             first == CHOOSE k \in DOMAIN interfaces : First(k)
  <2>1. First(i)
    <3>1. Eligible(interfaces[i])
      BY EligibleInterfaces
    <3>2. \A j \in 1 .. i - 1 : j \in DOMAIN interfaces
      OBVIOUS
    <3> QED
      BY <3>1, <3>2, EligibleInterfaces
  <2>2. first \in DOMAIN interfaces /\ First(first)
    BY <2>1, Zenon
  <2>3. first = i
    BY <2>1, <2>2
  <2>4. GetCurrentIPAddress = interfaces[first].word
    BY <2>2, Zenon DEF GetCurrentIPAddress
  <2> QED
    BY <2>3, <2>4
<1> QED
  BY <1>1, <1>2, <1>3, PTL DEF Spec
===============================================================================
