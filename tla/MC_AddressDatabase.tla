------------------------- MODULE MC_AddressDatabase -------------------------
(***************************************************************************)
(* AddressDatabase on two lists of three lines: one with an address twice, *)
(* and a later one with an empty line.                                     *)
(***************************************************************************)
EXTENDS AddressDatabase

CONSTANTS a, b, c

MCAddresses == {a, b, c, Empty}
MCLists     == {<<a, b, a>>, <<c, b>>, <<a, Empty, c>>}
=============================================================================
