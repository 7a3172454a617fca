------------------------------ MODULE MCBilling ------------------------------
(* Small instances of Billing for TLC. *)
EXTENDS Billing, TLC

CONSTANTS CapOfDefault, CapOfOthers

MCCap == [p \in Plans |-> IF p = Default THEN CapOfDefault ELSE CapOfOthers]

Symmetry == Permutations(Sessions)
=============================================================================
