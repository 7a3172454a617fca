SPECIFICATION Spec
CONSTANTS
  Files = {f1, f2}
  l1 = l1
  l2 = l2
  l3 = l3
  k1 = k1
  k2 = k2
  Layouts = {l1, l2, l3}
  Keys = {k1, k2}
  KeysOf <- MCKeysOf
  SchemaOf <- MCSchemaOf
  FormOf <- MCFormOf
  Payloads <- MCPayloads
  Users = {u1, u2}
  Jobs = {j1, j2}
  MaxVersions = 2
  MaxSaves = 3
INVARIANTS BindingsFitFile SchemaFitsBindings DeliversConfirmed
SYMMETRY Symmetry
CHECK_DEADLOCK FALSE
