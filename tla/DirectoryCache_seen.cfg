\* A lookup's miss arriving after Chat named the person, against D-35.
SPECIFICATION Spec
CONSTANTS
  p1 = p1
  Procs = {p1}
  Jobs = {j1}
  Home <- OneHome
  Ids = {u1}
  InDirectory = {}
  Ttl = 1
PROPERTY SeenIsResolved
