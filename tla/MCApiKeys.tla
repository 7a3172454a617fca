------------------------------- MODULE MCApiKeys -------------------------------
(* A small instance of ApiKeys. *)
EXTENDS ApiKeys, TLC

MCLimit == [c \in Counters |-> 1]
Symmetry == Permutations(Operators) \cup Permutations(Requests)
=============================================================================
