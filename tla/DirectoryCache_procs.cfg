\* Two processes sharing the file, one of them with a lookup.
SPECIFICATION Spec
CONSTANTS
  p1 = p1
  Procs = {p1, p2}
  Jobs = {j1}
  Home <- OneHome
  Ids = {u1, u2}
  InDirectory = {u1}
  Ttl = 0
INVARIANTS Inv NobodyIsGooglesAnswer AnsweredIsRemembered
