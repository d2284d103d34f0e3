------------------------------ MODULE Addressing ------------------------------
(***************************************************************************)
(* The conversions of Common/Utils.h between the integer form of an        *)
(* address (sin_addr.s_addr, a 32-bit word whose lowest byte is the first  *)
(* octet) and its text, and the search for the machine's own address.      *)
(*                                                                         *)
(* A text is the sequence of its parts between dots, each a number or, if  *)
(* atoi() finds no digits, None.                                           *)
(***************************************************************************)
EXTENDS Integers, Sequences

CONSTANTS
  Base,           \* how many values an octet has: 256
  None,           \* a part without digits, an interface without an address
  Words,          \* what the interfaces' addresses may hold
  MaxInterfaces   \* bound: interfaces of the machine

Octet == 0 .. Base - 1
Word == 0 .. Base * Base * Base * Base - 1

ASSUME AddressingAssumption ==
  /\ Base \in Nat \ {0}
  /\ None \notin Int
  /\ Words \subseteq Word
  /\ MaxInterfaces \in Nat

VARIABLE interfaces   \* what getifaddrs() lists

-------------------------------------------------------------------------------
IntToIPString(physical_address) ==
  << physical_address % Base,
     (physical_address \div Base) % Base,
     (physical_address \div (Base * Base)) % Base,
     (physical_address \div (Base * Base * Base)) % Base >>

atoi(part) == IF part = None THEN 0 ELSE part

\* Part i of a text, shifted to its place; nothing for the parts that a shorter
\* text does not have.
Shifted(text, i, by) == IF i \in DOMAIN text THEN atoi(text[i]) * by ELSE 0

\* Wrong: the order of the octets reversed.
IPStringToIntReversed(text) ==
  (Shifted(text, 4, 1) + Shifted(text, 3, Base) + Shifted(text, 2, Base * Base)
     + Shifted(text, 1, Base * Base * Base)) % (Base * Base * Base * Base)

\* The sum is unsigned: it wraps.  A text of more than four parts shifts by the
\* width of the word, which C leaves undefined, and is not modelled.
IPStringToInt(text) ==
  (Shifted(text, 1, 1) + Shifted(text, 2, Base) + Shifted(text, 3, Base * Base)
     + Shifted(text, 4, Base * Base * Base)) % (Base * Base * Base * Base)

-------------------------------------------------------------------------------
(* The machine's interfaces (external).  One may be without an address, and   *)
(* the word that GetCurrentIPAddress reads from an address that is not IPv4 is *)
(* another field: the interface's index (link level), the flow label (IPv6).   *)

Interface == [family : {"link", "inet", "inet6"}, word : Words] \cup {None}

Init == interfaces = <<>>

InterfaceAdded ==
  /\ Len(interfaces) < MaxInterfaces
  /\ \E i \in Interface : interfaces' = Append(interfaces, i)

InterfaceRemoved ==
  /\ interfaces # <<>>
  /\ interfaces' = Tail(interfaces)

Next == InterfaceAdded \/ InterfaceRemoved

Spec == Init /\ [][Next]_interfaces

-------------------------------------------------------------------------------
(* GetCurrentIPAddress *)

\* Wrong: the shifts to and fro taken for nothing.
FirstOctetUnmasked(word) == word

\* (s_addr << 24) >> 24
FirstOctet(word) == word % Base

\* First octet above 127, of an address of any family.
Eligible(interface) ==
  interface # None /\ 2 * FirstOctet(interface.word) >= Base

\* The first eligible interface's word, or -1.
GetCurrentIPAddress ==
  IF \E i \in DOMAIN interfaces : Eligible(interfaces[i])
    THEN LET first == CHOOSE i \in DOMAIN interfaces :
                        /\ Eligible(interfaces[i])
                        /\ \A j \in 1 .. i - 1 : ~Eligible(interfaces[j])
         IN  interfaces[first].word
    ELSE -1

-------------------------------------------------------------------------------
(* Properties *)

\* The server turns the source address of a registration into text, and nodes
\* turn the text they are sent into an address again: it is the same address.
SurvivesText(word) ==
  /\ IntToIPString(word) \in [1 .. 4 -> Octet]
  /\ IPStringToInt(IntToIPString(word)) = word

AddressesSurviveText ==
  \A i \in DOMAIN interfaces :
    interfaces[i] # None => SurvivesText(interfaces[i].word)

\* An IPv4 address that the search can see: its first octet is above 127.
IsIPv4(interface) == interface # None /\ interface.family = "inet"
Visible(interface) == IsIPv4(interface) /\ 2 * (interface.word % Base) >= Base

\* No family is ever looked at, so the search may stop at an interface that only
\* seems to have an address: one of index above 127, or one whose IPv6 address has
\* a flow label.
Harmless(interface) ==
  \/ interface = None
  \/ interface.family = "inet"
  \/ interface.family = "link" /\ 2 * interface.word < Base
  \/ interface.family = "inet6" /\ interface.word = 0

\* The lowest visible interface is found, past any number of others that have no
\* address, a lower one, or one of another family, where those are harmless.  That is
\* less than Utils.h promises, which is stated below.
OwnAddressFound ==
  \A i \in DOMAIN interfaces :
    Visible(interfaces[i])
      /\ (\A j \in 1 .. i - 1 : Harmless(interfaces[j]) /\ ~Visible(interfaces[j]))
    => GetCurrentIPAddress = interfaces[i].word

\* The lowest interface available is found: the lowest that has an IPv4 address,
\* not 0.0.0.0 and not the loopback's 127.x.x.x, when nothing is there to mislead the
\* search.  It is passed over below 128: README, section 5.
Available(interface) ==
  /\ IsIPv4(interface)
  /\ interface.word # 0 /\ 2 * ((interface.word % Base) + 1) # Base

LowestIsFound ==
  \A i \in DOMAIN interfaces :
    Available(interfaces[i])
      /\ (\A j \in DOMAIN interfaces : Harmless(interfaces[j]))
      /\ (\A j \in 1 .. i - 1 : ~Available(interfaces[j]))
    => GetCurrentIPAddress = interfaces[i].word

\* What is found is an IPv4 address of the machine.  Not always: README, section 5.
FoundIsIPv4 ==
  GetCurrentIPAddress # -1
    => \E i \in DOMAIN interfaces :
         IsIPv4(interfaces[i]) /\ interfaces[i].word = GetCurrentIPAddress
===============================================================================
