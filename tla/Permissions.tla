---------------------------- MODULE Permissions ----------------------------
(***************************************************************************)
(* Deciding what TypeScript code may do.                                   *)
(*                                                                         *)
(* Code asks for permissions through typescript.allow_* settings: those of *)
(* a function are stored with it (proconfig), those of a DO block are the  *)
(* session's.  The superuser bounds them through typescript.max_allow_*    *)
(* and max_imports.  Both sides are texts nobody checks when they are set; *)
(* they are parsed, compared and combined each time a handler is entered.  *)
(* The result is handed to the JavaScript runtime as Option<Vec<String>>,  *)
(* in which an empty list means everything and None means nothing.         *)
(***************************************************************************)
CONSTANTS
  Kinds,        (* "function" (proconfig) and "do" (session settings)       *)
  Fields,       (* the permissions                                          *)
  Import,       (* the field of allow_import                                *)
  PgExecute,    (* the field of allow_pg_execute: on or off, no list        *)
  Items,        (* entries of allow lists                                   *)
  Malformed,    (* entries that are no permission descriptor                *)
  NotUrls,      (* entries that are no http(s) URL                          *)
  Resources,    (* what the runtime guards                                  *)
  Covers,       (* the resources an entry stands for as a descriptor        *)
  Urls,         (* module URLs, among the resources                         *)
  Under,        (* the URLs an entry is a prefix of                         *)
  Texts,        (* the setting texts considered, per field                  *)
  ImportCaps,   (* the texts of max_imports considered                      *)
  Idle          (* no code runs                                             *)

(***************************************************************************)
(* Setting texts: empty, one of the words for nothing or for everything,   *)
(* or a comma list, whose entries are what is left after trimming and      *)
(* dropping the empty ones.                                                *)
(***************************************************************************)
Blank   == [form |-> "blank", items |-> {}]
Off     == [form |-> "off",   items |-> {}]
Star    == [form |-> "star",  items |-> {}]
List(s) == [form |-> "list",  items |-> s]

RawSettings == {Blank, Off, Star} \cup {List(s) : s \in SUBSET Items}

\* PermissionSetting, ImportUrlCap, and a parse error.
Deny         == [kind |-> "deny",    list |-> {}]
AllowAll     == [kind |-> "all",     list |-> {}]
AllowList(s) == [kind |-> "list",    list |-> s]
Invalid      == [kind |-> "invalid", list |-> {}]

Settings == {Deny, AllowAll} \cup {AllowList(s) : s \in (SUBSET Items) \ {{}}}

\* Option<Vec<String>>
None    == [some |-> FALSE, list |-> {}]
Some(s) == [some |-> TRUE,  list |-> s]

RuntimeLists == {None} \cup {Some(s) : s \in SUBSET Items}

\* An import map: the URLs it declares, or JSON that is not one.
BadMap == [ok |-> FALSE, urls |-> {}]
MapOf(u) == [ok |-> TRUE, urls |-> u]
ImportMaps == {BadMap} \cup {MapOf(u) : u \in SUBSET Urls}

ASSUME PermissionsAssumption ==
  /\ Import \in Fields
  /\ PgExecute \in Fields \ {Import}
  /\ Malformed \subseteq Items
  /\ NotUrls \subseteq Items
  /\ Covers \in [Items -> SUBSET Resources]
  /\ Urls \subseteq Resources
  /\ Under \in [Items -> SUBSET Urls]
  /\ Texts \in [Fields -> SUBSET RawSettings]
  /\ \A f \in Fields : Blank \in Texts[f]
  /\ ImportCaps \subseteq RawSettings
  /\ Blank \in ImportCaps
  /\ Idle \notin [kind: Kinds, reach: [Fields -> SUBSET Resources]]
  /\ Idle \notin [kind: Kinds, grant: [Fields -> RuntimeLists], imports: SUBSET Urls]

VARIABLES
  request,      (* kind -> field -> text of allow_*                         *)
  importMap,    (* kind -> typescript.import_map                            *)
  caps,         (* field -> text of max_allow_*                             *)
  maxImports,   (* text of typescript.max_imports                           *)
  running       (* the invocation in the runtime, or Idle                   *)

settings == <<request, importMap, caps, maxImports>>
vars == <<settings, running>>

(***************************************************************************)
(* Parsing.  A blank text means the boot value of the setting, not         *)
(* "nothing": for the caps, and for allow_import, that is everything.      *)
(***************************************************************************)
\* Mutant: a list of nothing but commas is a list.
ParseEmptyList(f, s) == IF f = PgExecute THEN Invalid ELSE AllowList(s)

ParseList(f, s) == IF s = {} \/ f = PgExecute THEN Invalid ELSE AllowList(s)

ParseNonempty(f, text) ==
  CASE text.form = "off"  -> Deny
    [] text.form = "star" -> AllowAll
    [] OTHER              -> ParseList(f, text.items)

\* Mutant: requests have the boot value of the caps.
BootAsCap(f) == Star

RequestBoot(f) == IF f = Import THEN Star ELSE Off

ParseRaw(f, text, boot) == ParseNonempty(f, IF text = Blank THEN boot ELSE text)

Requested(f, text) == ParseRaw(f, text, RequestBoot(f))
Cap(f, text)       == ParseRaw(f, text, Star)

ParseImportCap(text) ==
  IF text.form = "list" /\ text.items \cap NotUrls # {}
  THEN Invalid
  ELSE ParseRaw(Import, text, Star)

(***************************************************************************)
(* Combining a request with its cap.                                       *)
(***************************************************************************)
Unfulfillable(req, max) ==
  \/ req.kind = "all" /\ max.kind # "all"
  \/ req.kind = "list" /\ max.kind = "deny"
  \/ req.kind = "list" /\ max.kind = "list" /\ ~(req.list \subseteq max.list)

IntersectPermission(req, max) ==
  CASE max.kind = "all"                           -> req
    [] max.kind = "deny"                          -> Deny
    [] max.kind = "list" /\ req.kind = "deny"     -> Deny
    [] max.kind = "list" /\ req.kind = "all"      -> max
    [] max.kind = "list" /\ req.kind = "list" ->
         IF req.list \cap max.list = {} THEN Deny
         ELSE AllowList(req.list \cap max.list)

ToRuntime(setting) ==
  CASE setting.kind = "all"  -> Some({})
    [] setting.kind = "list" -> Some(setting.list)
    [] setting.kind = "deny" -> None

\* What the runtime lets code reach that was handed `l`.
Covered(s) == UNION {Covers[i] : i \in s}
Granted(l) == IF ~l.some THEN {} ELSE IF l.list = {} THEN Resources ELSE Covered(l.list)

Effective(f, req, cap) ==
  ToRuntime(IntersectPermission(Requested(f, req[f]), Cap(f, cap[f])))

(***************************************************************************)
(* Admission: the checks every handler makes before it enters the runtime. *)
(***************************************************************************)
Parses(req) ==
  \A f \in Fields : Requested(f, req[f]) # Invalid /\ Cap(f, caps[f]) # Invalid

EnforceAllCaps(req) ==
  \A f \in Fields : ~Unfulfillable(Requested(f, req[f]), Cap(f, caps[f]))

ImportAllowed(url, allow) == url \in Granted(allow)

\* Mutant: any list will do.
ImportUrlUnlessDenied(url, cap) == cap.kind # "deny"

ImportUrlAllowed(url, cap) ==
  \/ cap.kind = "all"
  \/ cap.kind = "list" /\ \E i \in cap.list : url \in Under[i]

EnforceImportMap(req, map) ==
  /\ ParseImportCap(maxImports) # Invalid
  /\ map.ok
  /\ \A url \in map.urls : ImportAllowed(url, Effective(Import, req, caps))

EnforceImportMapCap(map) ==
  \A url \in map.urls : ImportUrlAllowed(url, ParseImportCap(maxImports))

\* Permissions::from_options: every entry has to be a descriptor.
OptionsValid(req) ==
  \A f \in Fields : Effective(f, req, caps).list \cap Malformed = {}

Admitted(req, map) ==
  /\ Parses(req)
  /\ EnforceAllCaps(req)
  /\ EnforceImportMap(req, map)
  /\ EnforceImportMapCap(map)
  /\ OptionsValid(req)

(***************************************************************************)
(* Actions.  Settings change at any time, also while code runs: through    *)
(* its own SQL, or by ALTER SYSTEM elsewhere.                              *)
(***************************************************************************)
AllTexts == {r \in [Fields -> RawSettings] : \A f \in Fields : r[f] \in Texts[f]}

Init ==
  /\ request = [k \in Kinds |-> [f \in Fields |-> Blank]]
  /\ importMap = [k \in Kinds |-> MapOf({})]
  /\ caps = [f \in Fields |-> Blank]
  /\ maxImports = Blank
  /\ running = Idle

\* ALTER FUNCTION ... SET, or SET for DO blocks: accepted unseen.
SetRequest(k, f) ==
  /\ \E text \in Texts[f] : request' = [request EXCEPT ![k][f] = text]
  /\ UNCHANGED <<importMap, caps, maxImports, running>>

SetImportMap(k) ==
  /\ \E map \in ImportMaps : importMap' = [importMap EXCEPT ![k] = map]
  /\ UNCHANGED <<request, caps, maxImports, running>>

SetCap(f) ==
  /\ \E text \in Texts[f] : caps' = [caps EXCEPT ![f] = text]
  /\ UNCHANGED <<request, importMap, maxImports, running>>

SetMaxImports ==
  /\ maxImports' \in ImportCaps
  /\ UNCHANGED <<request, importMap, caps, running>>

\* CREATE OR REPLACE FUNCTION ... SET: the validator admits it, or the
\* statement fails and the old settings stay.
CreateFunction ==
  \E k \in Kinds \ {"do"}, req \in AllTexts, map \in ImportMaps :
    /\ Admitted(req, map)
    /\ request' = [request EXCEPT ![k] = req]
    /\ importMap' = [importMap EXCEPT ![k] = map]
    /\ UNCHANGED <<caps, maxImports, running>>

\* Mutant: settings a function does not have come from the session.
BeginWithSession(k) ==
  LET req == [f \in Fields |->
                IF request[k][f] = Blank THEN request["do"][f] ELSE request[k][f]]
  IN  /\ running = Idle
      /\ Admitted(req, importMap[k])
      /\ running' = [kind    |-> k,
                     grant   |-> [f \in Fields |-> Effective(f, req, caps)],
                     imports |-> importMap[k].urls]
      /\ UNCHANGED settings

\* Mutant: permissions that are not set are not handed over.
BeginWithSet(k) ==
  LET set == {f \in Fields : request[k][f] # Blank}
  IN  /\ running = Idle
      /\ Admitted(request[k], importMap[k])
      /\ running' = [kind    |-> k,
                     grant   |-> [f \in set |-> Effective(f, request[k], caps)],
                     imports |-> importMap[k].urls]
      /\ UNCHANGED settings

\* A call or a DO block; one that is not admitted fails and changes nothing.
Begin(k) ==
  /\ running = Idle
  /\ Admitted(request[k], importMap[k])
  /\ running' = [kind    |-> k,
                 grant   |-> [f \in Fields |-> Effective(f, request[k], caps)],
                 imports |-> importMap[k].urls]
  /\ UNCHANGED settings

End ==
  /\ running # Idle
  /\ running' = Idle
  /\ UNCHANGED settings

Next ==
  \/ \E k \in Kinds : SetImportMap(k) \/ Begin(k)
  \/ \E k \in Kinds, f \in Fields : SetRequest(k, f)
  \/ \E f \in Fields : SetCap(f)
  \/ SetMaxImports
  \/ CreateFunction
  \/ End

Spec == Init /\ [][Next]_vars

-----------------------------------------------------------------------------
Invocations ==
  [kind: Kinds, grant: [Fields -> RuntimeLists], imports: SUBSET Urls]

\* Types of the variables: texts as they were set, lists as they are handed over.
TypeOK ==
  /\ request \in [Kinds -> AllTexts]
  /\ importMap \in [Kinds -> ImportMaps]
  /\ caps \in AllTexts
  /\ maxImports \in ImportCaps
  /\ running \in Invocations \cup {Idle}

Starts == running = Idle /\ running' # Idle

\* No code starts with an import outside max_imports, whatever the
\* validator found when the function was created.
ImportsWithinCap ==
  [][Starts => \A url \in running'.imports :
                 maxImports = Blank \/ maxImports = Star
                 \/ \E i \in maxImports.items : url \in Under[i]]_vars

\* Nothing is granted that was not asked for in so many words, imports
\* aside: not because a text is blank, a list comes out empty, or a cap is
\* wider than the request.
NothingWithoutAsking ==
  [][Starts =>
       LET k == running'.kind
       IN  \A f \in Fields \ {Import} :
             Granted(running'.grant[f]) \subseteq
               IF request[k][f] = Star THEN Resources ELSE Covered(request[k][f].items)]_vars

(***************************************************************************)
(* The refinement mapping: texts become the resources they stand for.      *)
(***************************************************************************)
Denote(setting) ==
  CASE setting.kind = "all"  -> Resources
    [] setting.kind = "list" -> Covered(setting.list)
    [] OTHER                 -> {}

Want == [k \in Kinds |-> [f \in Fields |-> Denote(Requested(f, request[k][f]))]]
CapSet == [f \in Fields |-> Denote(Cap(f, caps[f]))]
May == IF running = Idle THEN Idle
       ELSE [kind |-> running.kind,
             reach |-> [f \in Fields |-> Granted(running.grant[f])]]

Contract == INSTANCE AdmissionContract
  WITH want <- Want, cap <- CapSet, may <- May

\* Texts, allow lists and the encoding of the runtime keep the promise.
ImplementsAdmission == Contract!ContractSpec

=============================================================================
