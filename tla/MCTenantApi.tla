----------------------------- MODULE MCTenantApi -----------------------------
(* Two organizations: an administrator and an operator in the first, where the   *)
(* manager of the second has a membership that is no longer active.              *)
EXTENDS TenantApi, TLC

CONSTANTS ann, ben, eve, o1, o2, t1, t2, k1

MCRoleIn ==
    (ann :> (o1 :> "ADMIN" @@ o2 :> "none"))
        @@ (ben :> (o1 :> "OPERATOR" @@ o2 :> "VIEWER"))
        @@ (eve :> (o1 :> "inactive" @@ o2 :> "MANAGER"))
MCKeyOrg == k1 :> o1
MCKeyScopes == k1 :> {"templates:read", "documents:generate"}
MCTemplateOrg == t1 :> o1 @@ t2 :> o2

Symmetry == Permutations(Requests)
=============================================================================
