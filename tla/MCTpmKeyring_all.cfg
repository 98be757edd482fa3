\* Two keys on one index and one on another, with and without faults.
SPECIFICATION Spec
CONSTANTS
  c1 = c1  c2 = c2  k1 = k1  k2 = k2  k3 = k3  x = x  y = y  z = z  s1 = s1  s2 = s2
  NoSecret = NoSecret  NoCall = NoCall  Undefined = Undefined  Unwritten = Unwritten
  Callers = {c1, c2}
  Keys = {k1, k2, k3}
  Secrets = {x, y, z}
  Long = {z}
  Slots = {s1, s2}
  SlotOf <- Shared
INVARIANTS
  UnwrittenIsTransient
PROPERTIES
  ImplementsKeyring
CHECK_DEADLOCK FALSE
