\* A connection, two functions with two bodies between them, and DO blocks.
CONSTANTS
  a = a
  b = b
  m = m
  n = n
  v = v
  w = w
  Backends = {x}
  Oids = {f, g}
  DoBlock = do
  Bodies = {p, q}
  Urls = {a, b}
  Names = {m, n}
  ImportMaps <- MCSwappedMaps
  Sources = {v}
  Served <- MCServedOnce
  Absent = Absent
  MaxEntries = 2
SYMMETRY MCSymmetry
SPECIFICATION Spec
INVARIANTS
  TypeOK
  CallsRunTheirBody
  CachedIsLoaded
