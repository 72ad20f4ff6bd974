\* The settings of functions and of DO blocks, side by side.
CONSTANTS
  i1 = i1
  i2 = i2
  bad = bad
  r1 = r1
  r2 = r2
  read = read
  Import = import
  PgExecute = pg_execute
  Fields = {import, pg_execute}
  Kinds <- MCBothKinds
  Items <- MCItems
  Malformed = {bad}
  NotUrls = {bad}
  Resources = {r1, r2}
  Covers <- MCCovers
  Urls = {r1}
  Under <- MCUnder
  Texts <- MCFewTexts
  ImportCaps <- MCFewImportCaps
  Idle = Idle
SPECIFICATION Spec
PROPERTY ImplementsAdmission
