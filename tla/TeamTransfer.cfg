SPECIFICATION Spec
CONSTANTS
  Users = {fay, ann}
  Founder = fay
  Stranger = stranger
  Nobody = Nobody
  TwoFactor = {fay}
  RowIds = {m0, m1, m2}
  FirstRow = m0
  Calls = {c1, c2, c3}
  Asked = {"OWNER", "ADMIN", "MEMBER"}
  MaxFaults = 1
SYMMETRY CallSymmetry
INVARIANT SwapsAreAtomic
CHECK_DEADLOCK FALSE
