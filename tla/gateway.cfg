\* Three concurrent calls, more ids than the gateway remembers, one restart.
SPECIFICATION Spec
CONSTANTS
  Ids = {a, b, c}
  Callers = {c1, c2, c3, c4}
  Live = {c1, c2, c3}
  Cap = 2
  MaxApprovals = 5
  MaxRestarts = 1
SYMMETRY Symmetry
INVARIANTS
  TypeOK
  SeenAgree
  ReapprovedOnlyAfterCap
  GrantedOnlyIfApproved
CHECK_DEADLOCK FALSE
