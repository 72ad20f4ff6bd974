\* Repeated calls and the order of the import map.
CONSTANTS
  a = a
  b = b
  m = m
  n = n
  v = v
  w = w
  Backends = {x}
  Oids = {f, g}
  DoBlock = do
  Bodies = {p}
  Urls = {a, b}
  Names = {m, n}
  ImportMaps <- MCImportMaps
  Sources = {v, w}
  Served <- MCServed
  Absent = Absent
  MaxEntries = 2
SPECIFICATION Spec
INVARIANT RepeatedCallsHit
