\* Two modules that may import one another, two bare names, one function
\* and DO blocks.
CONSTANTS
  a = a
  b = b
  m = m
  n = n
  leaf = leaf
  toN = toN
  toA = toA
  Oids = {f}
  DoBlock = do
  Urls = {a, b}
  Names = {m, n}
  Sources = {leaf, toA, toN}
  ImportsOf <- MCImportsOf
  Served <- MCServed
  Caps <- MCCaps
  Absent = Absent
  Idle = Idle
SPECIFICATION FairSpec
INVARIANTS
  TypeOK
  VettedIsRunnable
  LoaderFindsEverything
  PrefetchWithinCap
  PrefetchIsFresh
  OtherRowsUntouched
PROPERTIES
  AllOrNothing
  StatementsEnd
