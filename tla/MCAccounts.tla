----------------------------- MODULE MCAccounts -----------------------------
(***************************************************************************)
(* Small instances of Accounts for TLC: an address typed in two ways, and  *)
(* another one.                                                            *)
(***************************************************************************)
EXTENDS Accounts

CONSTANTS Ana, ana, bea

ThreeAddresses == {Ana, ana, bea}
ToLower == [a \in ThreeAddresses |-> IF a = Ana THEN ana ELSE a]
=============================================================================
