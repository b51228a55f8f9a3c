CONSTANTS
  r1 = r1
  r2 = r2
  r3 = r3
  u1 = u1
  u2 = u2
  u3 = u3
  h1 = h1
  None = None
  Attempts = {r1, r2, r3}
  Users = {u1, u2, u3}
  Registered = {u1, u2}
  Sandboxes = {u2}
  Humans = {}
  Orders <- MCOrders
  Keys <- MCKeys
  StartBalance = 4
  SandboxBalance = 30
  MaxSecrets = 2
  MaxCuts = 1
  MaxAdmin = 1
  Ttl = 1
  Timeout = 0
  MaxTime = 2
CHECK_DEADLOCK FALSE
SPECIFICATION Spec
CONSTRAINT Bounds
SYMMETRY AttemptSymmetry
INVARIANTS SpentOnce
