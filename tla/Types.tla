-------------------------------- MODULE Types --------------------------------
(***************************************************************************)
(* The values every component shares (Common/Types.h).  Strings are        *)
(* abstracted: a logical address is a member of Names, a physical address  *)
(* a member of Addresses, and the empty string / the address 0.0.0.0 is    *)
(* NoAddr.                                                                 *)
(***************************************************************************)
CONSTANTS
  Names,        \* logical addresses, one per mobile node
  Addresses,    \* physical addresses a mobile node can have
  Ports,        \* UDP ports applications listen on
  NoAddr,       \* the empty string, and the address it converts to
  Absent        \* a key a map does not hold

ASSUME TypesAssumption ==
  /\ NoAddr \notin Addresses
  /\ Absent \notin Addresses
  /\ Absent # NoAddr

\* Utils::IPStringToInt on a string that may not be an address: atoi() turns
\* the empty string and every word that is not a number into 0.
IPStringToInt(text) == IF text \in Addresses THEN text ELSE NoAddr

===============================================================================
