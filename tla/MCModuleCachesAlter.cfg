\* Import maps that change their URLs.
CONSTANTS
  a = a
  b = b
  m = m
  n = n
  v = v
  w = w
  Backends = {x}
  Oids = {f, g}
  DoBlock = do
  Bodies = {p}
  Urls = {a, b}
  Names = {m, n}
  ImportMaps <- MCImportMaps
  Sources = {v, w}
  Served <- MCServed
  Absent = Absent
  MaxEntries = 2
SPECIFICATION Spec
PROPERTY AlterGetsAFreshEntry
