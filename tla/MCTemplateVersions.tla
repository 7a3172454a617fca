------------------------- MODULE MCTemplateVersions -------------------------
(* Small instances of TemplateVersions for TLC. *)
EXTENDS TemplateVersions, TLC

CONSTANTS v1, v2, u1, f1

AnyVersion == [u \in Users |-> Versions]
\* v2 belongs to u1, everybody asks for v1.
OneOwned == [u \in Users |-> IF u = u1 THEN {v1, v2} ELSE {v1}]
NoKeys == {}
OldKey == {<<v2, f1>>}
=============================================================================
