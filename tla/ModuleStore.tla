---------------------------- MODULE ModuleStore ----------------------------
(***************************************************************************)
(* Where the modules a function imports come from.                         *)
(*                                                                         *)
(* CREATE FUNCTION and DO walk the static import graph from the import map *)
(* over the network and keep every module in                               *)
(* deno_internal.deno_package_modules, under the function's oid (DO blocks *)
(* share one).  Running code never touches the network: the loader finds   *)
(* each import in those rows, or fails.  The walk and the loader resolve   *)
(* imports with the same rules but at different times, and what the        *)
(* network serves, the rows and the function's import map may have changed *)
(* in between.                                                             *)
(*                                                                         *)
(* One session; a statement is a transaction of its own, and every load is *)
(* by a backend whose V8 has not seen the modules before.                  *)
(***************************************************************************)
CONSTANTS
  Oids,        (* functions                                                 *)
  DoBlock,     (* DO_BLOCK_OID                                              *)
  Urls,        (* module URLs                                               *)
  Names,       (* bare specifiers, the keys of import maps                  *)
  Sources,     (* module sources                                            *)
  ImportsOf,   (* the static imports of a source: URLs, relative ones       *)
               (* joined with their referrer, and bare specifiers           *)
  Served,      (* the sources the network may serve for a URL, over time    *)
  Caps,        (* what max_imports may allow                                *)
  Absent,      (* no row, nothing served, name not declared                 *)
  Idle         (* no statement                                              *)

Owners     == Oids \cup {DoBlock}
Rows       == [Urls -> Sources \cup {Absent}]
ImportMaps == [Names -> Urls \cup {Absent}]
Kinds      == {"create", "do", "call"}

Statements ==
  [kind: Kinds, oid: Owners, map: ImportMaps, cap: SUBSET Urls,
   phase: {"prefetch", "load"}]

ASSUME ModuleStoreAssumption ==
  /\ DoBlock \notin Oids
  /\ Urls \cap Names = {}
  /\ Absent \notin Urls \cup Names \cup Sources
  /\ ImportsOf \in [Sources -> SUBSET (Urls \cup Names)]
  /\ Served \in [Urls -> SUBSET (Sources \cup {Absent})]
  /\ \A u \in Urls : Absent \in Served[u]
  /\ Caps \subseteq SUBSET Urls
  /\ Idle \notin Statements

VARIABLES
  web,         (* what the network serves                                   *)
  store,       (* committed rows                                            *)
  catalog,     (* committed import map of each function                     *)
  vetted,      (* that import map went through the validator                *)
  statement,   (* the statement in progress, or Idle                        *)
  rows,        (* the rows as its transaction sees them                     *)
  pending,     (* its walk: modules asked for and not there yet             *)
  seen,        (* its walk: modules asked for                               *)
  failed       (* its walk: the graph has an error                          *)

committed == <<store, catalog, vetted>>
walk == <<pending, seen, failed>>
vars == <<web, committed, statement, rows, walk>>

Roots(map) == {map[n] : n \in Names} \ {Absent}

\* ImportMapResolver::resolve_from_dependency
Resolve(map, specifier) == IF specifier \in Urls THEN specifier ELSE map[specifier]

StartWalk(map) ==
  /\ pending' = Roots(map)
  /\ seen' = Roots(map)
  /\ failed' = FALSE

Row(u) == rows[statement.oid][u]

\* Mutants: an import that does not resolve is asked for; bare names are
\* not followed; what was asked for is asked for again.
DiscoverUnresolved(u, source) ==
  LET targets == {Resolve(statement.map, i) : i \in ImportsOf[source]}
  IN  /\ pending' = (pending \ {u}) \cup (targets \ seen)
      /\ seen' = seen \cup targets
      /\ UNCHANGED failed

DiscoverUrls(u, source) ==
  LET new == (ImportsOf[source] \cap Urls) \ seen
  IN  /\ pending' = (pending \ {u}) \cup new
      /\ seen' = seen \cup new
      /\ UNCHANGED failed

DiscoverAgain(u, source) ==
  LET targets == {Resolve(statement.map, i) : i \in ImportsOf[source]}
  IN  /\ pending' = (pending \ {u}) \cup (targets \ {Absent})
      /\ seen' = seen \cup (targets \ {Absent})
      /\ failed' = (failed \/ Absent \in targets)

\* Module u arrived with this source: ask for what it imports, once.
Discover(u, source) ==
  LET targets == {Resolve(statement.map, i) : i \in ImportsOf[source]}
      new     == targets \ (seen \cup {Absent})
  IN  /\ pending' = (pending \ {u}) \cup new
      /\ seen' = seen \cup new
      /\ failed' = (failed \/ Absent \in targets)

Init ==
  /\ web = [u \in Urls |-> Absent]
  /\ store = [o \in Owners |-> [u \in Urls |-> Absent]]
  /\ catalog = [o \in Oids |-> [n \in Names |-> Absent]]
  /\ vetted = [o \in Oids |-> TRUE]
  /\ statement = Idle
  /\ rows = store
  /\ pending = {} /\ seen = {} /\ failed = FALSE

(***************************************************************************)
(* Statements begin.  The import map's own URLs are checked against        *)
(* max_imports first; a statement that fails there changes nothing.        *)
(***************************************************************************)
\* Mutants: no DELETE; DELETE without WHERE.
ClearNothing(oid) == rows' = store
ClearForAll(oid) == rows' = [o \in Owners |-> [u \in Urls |-> Absent]]

ClearForFn(oid) == rows' = [store EXCEPT ![oid] = [u \in Urls |-> Absent]]

Begin(kind, oid, map, phase) ==
  /\ statement = Idle
  /\ \E cap \in Caps :
       /\ Roots(map) \subseteq cap
       /\ statement' = [kind |-> kind, oid |-> oid, map |-> map, cap |-> cap,
                        phase |-> phase]
  /\ StartWalk(map)
  /\ UNCHANGED <<web, committed>>

\* The validator and the inline handler prefetch if there is an import map.
BeginPrefetching(kind, oid, map) ==
  \/ /\ Roots(map) # {}
     /\ Begin(kind, oid, map, "prefetch")
     /\ ClearForFn(oid)
  \/ /\ Roots(map) = {}
     /\ Begin(kind, oid, map, "load")
     /\ rows' = store

CreateFunction == \E oid \in Oids, map \in ImportMaps : BeginPrefetching("create", oid, map)
InlineHandler  == \E map \in ImportMaps : BeginPrefetching("do", DoBlock, map)

CallHandler ==
  \E oid \in Oids : Begin("call", oid, catalog[oid], "load") /\ rows' = store

(***************************************************************************)
(* The prefetch: PrefetchLoader::load_module for each module the graph     *)
(* asks for.                                                               *)
(***************************************************************************)
InPhase(p) == statement # Idle /\ statement.phase = p

\* A module max_imports does not allow is an error of the graph; the walk
\* goes on without it.
PrefetchRejected(u) ==
  /\ InPhase("prefetch") /\ u \in pending
  /\ u \notin statement.cap
  /\ pending' = pending \ {u}
  /\ failed' = TRUE
  /\ UNCHANGED <<web, committed, statement, rows, seen>>

Fetched(u) == IF Row(u) # Absent THEN Row(u) ELSE web[u]

\* Mutants: only the import map is checked against max_imports; only its
\* own modules are fetched.
PrefetchUncapped(u) ==
  /\ InPhase("prefetch") /\ u \in pending
  /\ Fetched(u) # Absent
  /\ rows' = [rows EXCEPT ![statement.oid][u] = Fetched(u)]
  /\ Discover(u, Fetched(u))
  /\ UNCHANGED <<web, committed, statement>>

PrefetchRoot(u) ==
  /\ InPhase("prefetch") /\ u \in pending
  /\ u \in statement.cap
  /\ Fetched(u) # Absent
  /\ rows' = [rows EXCEPT ![statement.oid][u] = Fetched(u)]
  /\ pending' = pending \ {u}
  /\ UNCHANGED <<web, committed, statement, seen, failed>>

PrefetchModule(u) ==
  /\ InPhase("prefetch") /\ u \in pending
  /\ u \in statement.cap
  /\ Fetched(u) # Absent
  /\ rows' = [rows EXCEPT ![statement.oid][u] = Fetched(u)]
  /\ Discover(u, Fetched(u))
  /\ UNCHANGED <<web, committed, statement>>

\* Mutant: rows are written in a transaction of their own.
AbortKeepingRows ==
  /\ statement' = Idle
  /\ store' = rows
  /\ pending' = {} /\ seen' = {} /\ failed' = FALSE
  /\ UNCHANGED <<web, catalog, vetted, rows>>

\* The statement's changes are gone with it.
Abort ==
  /\ statement' = Idle
  /\ rows' = store
  /\ pending' = {} /\ seen' = {} /\ failed' = FALSE
  /\ UNCHANGED <<web, committed>>

\* Not to be had: a PostgreSQL ERROR at once.
FetchFails(u) ==
  /\ InPhase("prefetch") /\ u \in pending
  /\ u \in statement.cap
  /\ Fetched(u) = Absent
  /\ Abort

\* graph.valid(): any error anywhere in the graph fails the statement.
GraphInvalid == InPhase("prefetch") /\ pending = {} /\ failed /\ Abort

GraphValid ==
  /\ InPhase("prefetch") /\ pending = {} /\ ~failed
  /\ statement' = [statement EXCEPT !.phase = "load"]
  /\ StartWalk(statement.map)
  /\ UNCHANGED <<web, committed, rows>>

(***************************************************************************)
(* The runtime's loader: PgModuleLoader::resolve and load, for the imports *)
(* assemble_module wrote for the import map and all they import.           *)
(***************************************************************************)
LoadModule(u) ==
  /\ InPhase("load") /\ u \in pending
  /\ Row(u) # Absent
  /\ Discover(u, Row(u))
  /\ UNCHANGED <<web, committed, statement, rows>>

\* "module not cached"
ModuleNotCached(u) == InPhase("load") /\ u \in pending /\ Row(u) = Absent /\ Abort

\* "not found in import map"
NotInImportMap == InPhase("load") /\ failed /\ Abort

\* The modules evaluate and the statement commits.
Commit ==
  /\ InPhase("load") /\ pending = {} /\ ~failed
  /\ store' = rows
  /\ IF statement.kind = "create"
     THEN /\ catalog' = [catalog EXCEPT ![statement.oid] = statement.map]
          /\ vetted' = [vetted EXCEPT ![statement.oid] = TRUE]
     ELSE UNCHANGED <<catalog, vetted>>
  /\ statement' = Idle
  /\ StartWalk([n \in Names |-> Absent])
  /\ UNCHANGED <<web, rows>>

\* Anything else that ends a statement: a syntax error, an exception, a
\* cancelled query, a lost connection, a crash of the server.
StatementAborts == statement # Idle /\ Abort

(***************************************************************************)
(* The world.                                                              *)
(***************************************************************************)
WebChanges ==
  /\ \E u \in Urls : \E s \in Served[u] : web' = [web EXCEPT ![u] = s]
  /\ UNCHANGED <<committed, statement, rows, walk>>

\* ALTER FUNCTION ... SET typescript.import_map: no validator, no prefetch.
AlterImportMap ==
  /\ statement = Idle
  /\ \E oid \in Oids, map \in ImportMaps :
       /\ catalog' = [catalog EXCEPT ![oid] = map]
       /\ vetted' = [vetted EXCEPT ![oid] = FALSE]
  /\ UNCHANGED <<web, store, statement, rows, walk>>

\* DROP FUNCTION: typescript_drop_cleanup deletes the function's rows.  The
\* oid is free for a new function, as if it had never been used.
DropFunction ==
  /\ statement = Idle
  /\ \E oid \in Oids :
       /\ store' = [store EXCEPT ![oid] = [u \in Urls |-> Absent]]
       /\ catalog' = [catalog EXCEPT ![oid] = [n \in Names |-> Absent]]
       /\ vetted' = [vetted EXCEPT ![oid] = TRUE]
  /\ rows' = store'
  /\ UNCHANGED <<web, statement, walk>>

\* DROP PROCEDURE, DROP SCHEMA ... CASCADE, DROP OWNED: the trigger is for
\* the tags DROP FUNCTION and DROP ROUTINE, so the rows stay, for whoever
\* gets the oid next.
DropElsewhere ==
  /\ statement = Idle
  /\ \E oid \in Oids :
       /\ catalog' = [catalog EXCEPT ![oid] = [n \in Names |-> Absent]]
       /\ vetted' = [vetted EXCEPT ![oid] = TRUE]
  /\ UNCHANGED <<web, store, statement, rows, walk>>

Step ==
  \/ \E u \in Urls : \/ PrefetchRejected(u) \/ PrefetchModule(u) \/ FetchFails(u)
                     \/ LoadModule(u) \/ ModuleNotCached(u)
  \/ GraphInvalid \/ GraphValid \/ NotInImportMap \/ Commit

Next ==
  \/ CreateFunction \/ InlineHandler \/ CallHandler
  \/ Step \/ StatementAborts
  \/ WebChanges \/ AlterImportMap \/ DropFunction \/ DropElsewhere

Spec == Init /\ [][Next]_vars

\* The walks are loops of the handlers: they go on.  Requests to the
\* network end, one way or the other.
FairSpec == Spec /\ WF_vars(Step)

-----------------------------------------------------------------------------
\* Types of the variables: rows and walks over module URLs.
TypeOK ==
  /\ web \in Rows
  /\ store \in [Owners -> Rows]
  /\ catalog \in [Oids -> ImportMaps]
  /\ vetted \in [Oids -> BOOLEAN]
  /\ statement \in Statements \cup {Idle}
  /\ rows \in [Owners -> Rows]
  /\ pending \in SUBSET Urls
  /\ seen \in SUBSET Urls
  /\ failed \in BOOLEAN

\* Modules that are all there and import only one another.
Closed(map, row, modules) ==
  /\ Roots(map) \subseteq modules
  /\ \A u \in modules :
       /\ row[u] # Absent
       /\ \A i \in ImportsOf[row[u]] : Resolve(map, i) \in modules

\* With these rows the loader finds everything the import map leads to.
Runnable(map, row) == \E modules \in SUBSET Urls : Closed(map, row, modules)

\* A function the validator accepted can be loaded from the rows it left,
\* whatever the network has come to serve, however often the function was
\* replaced, and whatever DO blocks and other functions have prefetched.
VettedIsRunnable == \A oid \in Oids : vetted[oid] => Runnable(catalog[oid], store[oid])

\* The loader never misses a module the prefetch of the same statement went
\* past, nor one of a function that went through the validator.
LoaderFindsEverything ==
  InPhase("load") /\ (statement.kind = "call" => vetted[statement.oid]) =>
    /\ \A u \in pending : Row(u) # Absent
    /\ ~failed

\* Nothing is prefetched beyond max_imports, transitive imports included.
PrefetchWithinCap ==
  statement # Idle =>
    \A u \in Urls :
      Row(u) # store[statement.oid][u] /\ Row(u) # Absent => u \in statement.cap

\* What a prefetch finds in the rows it has put there itself: no row of an
\* earlier version, of a dropped function that had the oid, or of an earlier
\* DO block stands in for the network.
PrefetchIsFresh ==
  InPhase("prefetch") =>
    \A u \in Urls : Row(u) # Absent => u \in seen \ pending

\* The rows of other functions are left alone.
OtherRowsUntouched ==
  statement # Idle => \A o \in Owners \ {statement.oid} : rows[o] = store[o]

\* The committed rows of an existing function change only to rows it can be
\* loaded from: a walk that failed half-way leaves no trace.
AllOrNothing ==
  [][\A o \in Owners : store'[o] # store[o] =>
       IF statement = Idle
       THEN \A u \in Urls : store'[o][u] = Absent
       ELSE o = statement.oid /\ Runnable(statement.map, store'[o])]_vars

\* Every statement ends, also when modules import one another.
StatementsEnd == statement # Idle ~> statement = Idle

=============================================================================
