\* Two connections, a function and DO blocks, two modules.
CONSTANTS
  a = a
  b = b
  Sessions = {s, t}
  Oids = {f}
  DoBlock = do
  Urls = {a, b}
  ImportSets <- MCImportSets
  Sources = {v}
  Absent = Absent
  Idle = Idle
SPECIFICATION FairSpec
INVARIANTS
  TypeOK
  CreateFindsEverything
  UndisturbedFindEverything
  OnlyDoBlocksDeadlock
  FunctionsHaveTheirModules
PROPERTIES
  ImplementsRegistry
  StatementsEnd
