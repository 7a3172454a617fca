--------------------------- MODULE MCTemplateImports ---------------------------
(* A small instance of TemplateImports: a layout of two keys and two of one *)
(* key, which differ in the sample text only, so that their forms are equal. *)
EXTENDS TemplateImports, TLC

CONSTANTS l1, l2, l3, k1, k2
MCKeysOf == (l1 :> {k1}) @@ (l2 :> {k1}) @@ (l3 :> {k1, k2})
MCSchemaOf == [l \in {l1, l2, l3} |-> l]
MCFormOf == (l1 :> "one field") @@ (l2 :> "one field") @@ (l3 :> "two fields")
MCPayloads == {{k1}, {k1, k2}}
Symmetry ==
  Permutations(Users) \cup Permutations(Jobs) \cup Permutations(Files)
  \cup Permutations({l1, l2})
=============================================================================
