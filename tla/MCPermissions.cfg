\* Every form of a setting text, for functions.
CONSTANTS
  i1 = i1
  i2 = i2
  bad = bad
  r1 = r1
  r2 = r2
  read = read
  Import = import
  PgExecute = pg_execute
  Fields = {import, pg_execute, read}
  Kinds <- MCOneKind
  Items <- MCItems
  Malformed = {bad}
  NotUrls = {bad}
  Resources = {r1, r2}
  Covers <- MCCovers
  Urls = {r1}
  Under <- MCUnder
  Texts <- MCTexts
  ImportCaps <- MCImportCaps
  Idle = Idle
SPECIFICATION Spec
INVARIANTS
  TypeOK
PROPERTIES
  ImportsWithinCap
  NothingWithoutAsking
  ImplementsAdmission
