\* DO blocks in two connections.
CONSTANTS
  a = a
  b = b
  Sessions = {s, t}
  Oids = {f}
  DoBlock = do
  Urls = {a, b}
  ImportSets <- MCDoImportSets
  Sources = {v}
  Absent = Absent
  Idle = Idle
SPECIFICATION Spec
INVARIANT DoFindsEverything
