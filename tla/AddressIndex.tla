---------------------------- MODULE AddressIndex ----------------------------
(***************************************************************************)
(* What the address tree promises: a map from addresses to capabilities in *)
(* which the capability generated last at an address replaces the others.  *)
(***************************************************************************)
EXTENDS TLC

CONSTANTS Keys, Types

VARIABLE index

Init == index = <<>>

Generate(key, type) == index' = key :> type @@ index

Next == \E key \in Keys, type \in Types : Generate(key, type)

Spec == Init /\ [][Next]_index

=============================================================================
