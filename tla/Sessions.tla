------------------------------ MODULE Sessions ------------------------------
(***************************************************************************)
(* Several connections at work on the module rows.                         *)
(*                                                                         *)
(* A statement is a READ COMMITTED transaction: each SQL command the       *)
(* handlers issue sees what is committed when it starts, and its own       *)
(* changes; a row that another transaction has changed is waited for.      *)
(* CREATE FUNCTION and DROP FUNCTION change the pg_proc row of the         *)
(* function before its module rows, so that two of them never work on the  *)
(* rows of one function.  DO blocks share an oid, and have no such row.    *)
(* ALTER FUNCTION ... SET typescript.import_map, and the ways of dropping  *)
(* a function that the clean-up trigger does not see, change the pg_proc   *)
(* row alone.                                                              *)
(*                                                                         *)
(* The import graph is flat here and V8 has seen none of the modules: see  *)
(* ModuleStore and ModuleCaches.                                           *)
(***************************************************************************)
CONSTANTS
  Sessions,   (* connections                                                *)
  Oids,       (* functions                                                  *)
  DoBlock,    (* DO_BLOCK_OID                                               *)
  Urls,       (* module URLs                                                *)
  ImportSets, (* the sets of modules that the import maps of a function, or *)
              (* of DO blocks, lead to                                      *)
  Sources,    (* module sources                                             *)
  Absent,     (* no row, no function, no URL, no snapshot                   *)
  Idle        (* no statement                                               *)

Owners == Oids \cup {DoBlock}
Rows   == [Urls -> Sources \cup {Absent}]
NoRows == [u \in Urls |-> Absent]

Imports == {{}} \cup UNION {ImportSets[o] : o \in Owners}

\* What changes the catalog.
Ddl == {"create", "alter", "drop", "dropElsewhere"}

Statements ==
  [kind: Ddl \cup {"do", "call"}, owner: Owners, imports: Imports,
   phase: {"tuple", "changed", "clear", "prefetch", "write", "catalog", "load"},
   snapshot: Rows \cup {Absent}, disturbed: BOOLEAN]

ASSUME SessionsAssumption ==
  /\ DoBlock \notin Oids
  /\ Absent \notin Urls \cup Sources \cup Rows
  /\ ImportSets \in [Owners -> SUBSET SUBSET Urls]
  /\ \A imports \in SUBSET Urls : imports # Absent
  /\ Idle \notin Statements

VARIABLES
  store,     (* committed rows of deno_package_modules                      *)
  catalog,   (* committed import map of each function, or Absent            *)
  inStep,    (* functions whose pg_proc row was last changed by CREATE or   *)
             (* DROP FUNCTION: a history variable, no one reads it          *)
  work,      (* the statement of each session                               *)
  written,   (* the rows its transaction has inserted or updated            *)
  gone,      (* the committed rows its transaction has deleted              *)
  todo,      (* rows its DELETE has yet to delete, modules it has yet to    *)
             (* prefetch, or to load                                        *)
  at         (* the one it is at, if it had to stop there                   *)

mine == <<written, gone, todo, at>>
vars == <<store, catalog, inStep, work, mine>>

Init ==
  /\ store = [o \in Owners |-> NoRows]
  /\ catalog = [o \in Oids |-> Absent]
  /\ inStep = Oids
  /\ work = [s \in Sessions |-> Idle]
  /\ written = [s \in Sessions |-> NoRows]
  /\ gone = [s \in Sessions |-> {}]
  /\ todo = [s \in Sessions |-> {}]
  /\ at = [s \in Sessions |-> Absent]

(***************************************************************************)
(* What a session sees, and what others hold.                              *)
(***************************************************************************)
InPhase(s, p) == work[s] # Idle /\ work[s].phase = p

Present(row) == {u \in Urls : row[u] # Absent}

View(s) ==
  IF work[s].snapshot # Absent THEN work[s].snapshot
  ELSE [u \in Urls |-> IF written[s][u] # Absent THEN written[s][u]
                       ELSE IF u \in gone[s] THEN Absent
                       ELSE store[work[s].owner][u]]

\* Mutant: the primary key of the rows is the URL alone.
RivalsAny(s) == {t \in Sessions \ {s} : work[t] # Idle}

Rivals(s) == {t \in Sessions \ {s} : work[t] # Idle /\ work[t].owner = work[s].owner}

HoldsRow(t, u) == u \in gone[t] \/ written[t][u] # Absent
Free(s, u) == \A t \in Rivals(s) : ~HoldsRow(t, u)

\* Mutant: the rows are deleted before the pg_proc row is changed.
HoldsTupleOnceCleared(t) ==
  work[t].kind \in Ddl /\ work[t].phase \notin {"tuple", "clear"}

\* Has changed the pg_proc row: DDL does that before all else.
HoldsTuple(t) == work[t].kind \in Ddl /\ work[t].phase # "tuple"

WaitsFor(s, t) ==
  /\ work[s] # Idle
  /\ t \in Rivals(s)
  /\ \/ work[s].phase = "tuple" /\ HoldsTuple(t)
     \/ work[s].phase \in {"clear", "write"} /\ at[s] # Absent /\ HoldsRow(t, at[s])

\* Every one of them waits for another of them.
Deadlocked(C) == C # {} /\ \A s \in C : \E t \in C : WaitsFor(s, t)

(***************************************************************************)
(* Statements begin.                                                       *)
(***************************************************************************)
Begin(s, kind, owner, imports, phase, snapshot) ==
  /\ work[s] = Idle
  /\ work' = [work EXCEPT ![s] =
       [kind |-> kind, owner |-> owner, imports |-> imports, phase |-> phase,
        snapshot |-> snapshot, disturbed |-> FALSE]]
  /\ UNCHANGED <<store, catalog, inStep, written, gone, at>>

\* Mutant: SPI reads with the snapshot of the CREATE FUNCTION.
CreateWithSnapshot(s) ==
  \E oid \in Oids : \E imports \in ImportSets[oid] :
    Begin(s, "create", oid, imports, "tuple", store[oid]) /\ UNCHANGED todo

CreateFunction(s) ==
  \E oid \in Oids : \E imports \in ImportSets[oid] :
    Begin(s, "create", oid, imports, "tuple", Absent) /\ UNCHANGED todo

\* ALTER FUNCTION ... SET typescript.import_map: no validator.
AlterImportMap(s) ==
  \E oid \in Oids : \E imports \in ImportSets[oid] :
    /\ catalog[oid] # Absent
    /\ Begin(s, "alter", oid, imports, "tuple", Absent) /\ UNCHANGED todo

DropFunction(s) ==
  \E oid \in Oids :
    catalog[oid] # Absent /\ Begin(s, "drop", oid, {}, "tuple", Absent) /\ UNCHANGED todo

\* DROP PROCEDURE, DROP SCHEMA ... CASCADE, DROP OWNED: no trigger.
DropElsewhere(s) ==
  \E oid \in Oids :
    /\ catalog[oid] # Absent
    /\ Begin(s, "dropElsewhere", oid, {}, "tuple", Absent) /\ UNCHANGED todo

\* DELETE: the rows there are when it starts.  A block without an import map
\* does not touch the rows.
InlineHandler(s) ==
  \E imports \in ImportSets[DoBlock] \ {{}} :
    /\ Begin(s, "do", DoBlock, imports, "clear", Absent)
    /\ todo' = [todo EXCEPT ![s] = Present(store[DoBlock])]

\* SPI reads with the snapshot of the calling statement, or with one of its
\* own if the transaction has written before.
CallHandler(s) ==
  \E oid \in Oids : \E snapshot \in {store[oid], Absent} :
    /\ catalog[oid] # Absent
    /\ Begin(s, "call", oid, {}, "catalog", snapshot) /\ UNCHANGED todo

(***************************************************************************)
(* Steps.                                                                  *)
(***************************************************************************)
Enter(s, phase, next) ==
  /\ work' = [work EXCEPT ![s].phase = phase]
  /\ todo' = [todo EXCEPT ![s] = next]
  /\ at' = [at EXCEPT ![s] = Absent]

\* Mutant: a function that is gone is read all the same.
ReadCatalogAnyway(s) ==
  /\ InPhase(s, "catalog")
  /\ work' = [work EXCEPT ![s].phase = "load", ![s].imports = catalog[work[s].owner]]
  /\ UNCHANGED <<store, catalog, inStep, mine>>

\* PgProc::new in the call handler: the catalog of the moment.
ReadCatalog(s) ==
  /\ InPhase(s, "catalog")
  /\ catalog[work[s].owner] # Absent
  /\ work' = [work EXCEPT ![s].phase = "load", ![s].imports = catalog[work[s].owner]]
  /\ todo' = [todo EXCEPT ![s] = catalog[work[s].owner]]
  /\ UNCHANGED <<store, catalog, inStep, written, gone, at>>

\* Mutant: DROP FUNCTION has no trigger.
ChangeTupleOnly(s) ==
  /\ InPhase(s, "tuple") /\ ~work[s].disturbed
  /\ \A t \in Rivals(s) : ~HoldsTuple(t)
  /\ CASE work[s].kind = "create" /\ work[s].imports # {} ->
            Enter(s, "clear", Present(store[work[s].owner]))
       [] work[s].kind = "create" /\ work[s].imports = {} -> Enter(s, "load", {})
       [] OTHER -> Enter(s, "changed", {})
  /\ UNCHANGED <<store, catalog, inStep, written, gone>>

\* The prefetch, and the clean-up, begin with a DELETE; a function without
\* an import map has no prefetch.
ChangeTuple(s) ==
  /\ InPhase(s, "tuple") /\ ~work[s].disturbed
  /\ \A t \in Rivals(s) : ~HoldsTuple(t)
  /\ CASE work[s].kind \in {"alter", "dropElsewhere"} -> Enter(s, "changed", {})
       [] work[s].kind = "create" /\ work[s].imports = {} -> Enter(s, "load", {})
       [] OTHER -> Enter(s, "clear", Present(store[work[s].owner]))
  /\ UNCHANGED <<store, catalog, inStep, written, gone>>

DeleteRow(s, u) ==
  /\ InPhase(s, "clear") /\ u \in todo[s] /\ at[s] \in {u, Absent}
  /\ Free(s, u)
  /\ gone' = [gone EXCEPT ![s] = @ \cup {u}]
  /\ todo' = [todo EXCEPT ![s] = @ \ {u}]
  /\ at' = [at EXCEPT ![s] = Absent]
  /\ UNCHANGED <<store, catalog, inStep, work, written>>

DeleteWaits(s, u) ==
  /\ InPhase(s, "clear") /\ u \in todo[s] /\ at[s] = Absent
  /\ ~Free(s, u)
  /\ at' = [at EXCEPT ![s] = u]
  /\ UNCHANGED <<store, catalog, inStep, work, written, gone, todo>>

Cleared(s) ==
  /\ InPhase(s, "clear") /\ todo[s] = {} /\ work[s].kind # "drop"
  /\ Enter(s, "prefetch", work[s].imports)
  /\ UNCHANGED <<store, catalog, inStep, written, gone>>

\* PrefetchLoader::load_module: a row that is there is used as it is.
FoundInStore(s, u) ==
  /\ InPhase(s, "prefetch") /\ u \in todo[s]
  /\ View(s)[u] # Absent
  /\ todo' = [todo EXCEPT ![s] = @ \ {u}]
  /\ UNCHANGED <<store, catalog, inStep, work, written, gone, at>>

MissingInStore(s, u) ==
  /\ InPhase(s, "prefetch") /\ u \in todo[s]
  /\ View(s)[u] = Absent
  /\ work' = [work EXCEPT ![s].phase = "write"]
  /\ at' = [at EXCEPT ![s] = u]
  /\ UNCHANGED <<store, catalog, inStep, written, gone, todo>>

\* Mutant: a failed fetch is tried again, for ever.
FetchAgain(s) ==
  /\ InPhase(s, "write")
  /\ Enter(s, "prefetch", todo[s])
  /\ UNCHANGED <<store, catalog, inStep, written, gone>>

\* Fetched, and INSERT ... ON CONFLICT DO UPDATE.
WriteRow(s) ==
  /\ InPhase(s, "write")
  /\ Free(s, at[s])
  /\ \E source \in Sources : written' = [written EXCEPT ![s][at[s]] = source]
  /\ Enter(s, "prefetch", todo[s] \ {at[s]})
  /\ UNCHANGED <<store, catalog, inStep, gone>>

\* Mutant: errors of the graph are ignored.
GraphBuilt(s) ==
  /\ InPhase(s, "prefetch")
  /\ Enter(s, "load", work[s].imports)
  /\ UNCHANGED <<store, catalog, inStep, written, gone>>

GraphValid(s) ==
  /\ InPhase(s, "prefetch") /\ todo[s] = {}
  /\ Enter(s, "load", work[s].imports)
  /\ UNCHANGED <<store, catalog, inStep, written, gone>>

LoadModule(s, u) ==
  /\ InPhase(s, "load") /\ u \in todo[s]
  /\ View(s)[u] # Absent
  /\ todo' = [todo EXCEPT ![s] = @ \ {u}]
  /\ UNCHANGED <<store, catalog, inStep, work, written, gone, at>>

(***************************************************************************)
(* Transactions end.                                                       *)
(***************************************************************************)
\* A DELETE that waits for a row skips it if it has been deleted meanwhile,
\* also if it has been inserted again.
Ended(s, deleted, changed) ==
  LET waiting == {t \in Rivals(s) : work[t].phase = "clear"}
  IN  /\ work' = [t \in Sessions |->
           IF t = s THEN Idle
           ELSE IF changed /\ t \in Rivals(s) THEN [work[t] EXCEPT !.disturbed = TRUE]
           ELSE work[t]]
      /\ todo' = [t \in Sessions |->
           IF t = s THEN {} ELSE IF t \in waiting THEN todo[t] \ deleted ELSE todo[t]]
      /\ at' = [t \in Sessions |->
           IF t = s \/ (t \in waiting /\ at[t] \in deleted) THEN Absent ELSE at[t]]
      /\ written' = [written EXCEPT ![s] = NoRows]
      /\ gone' = [gone EXCEPT ![s] = {}]

Publish(kind, oid, imports) ==
  /\ catalog' = CASE kind \in {"create", "alter"}       -> [catalog EXCEPT ![oid] = imports]
                  [] kind \in {"drop", "dropElsewhere"} -> [catalog EXCEPT ![oid] = Absent]
                  [] OTHER -> catalog
  /\ inStep' = CASE kind \in {"create", "drop"}         -> inStep \cup {oid}
                 [] kind \in {"alter", "dropElsewhere"} -> inStep \ {oid}
                 [] OTHER -> inStep

Commit(s) ==
  /\ todo[s] = {}
  /\ \/ InPhase(s, "load") \/ InPhase(s, "changed")
     \/ InPhase(s, "clear") /\ work[s].kind = "drop"
  /\ store' = IF work[s].kind = "call" THEN store ELSE [store EXCEPT ![work[s].owner] = View(s)]
  /\ Publish(work[s].kind, work[s].owner, work[s].imports)
  /\ Ended(s, gone[s], work[s].kind # "call")

Abort(s) == Ended(s, {}, FALSE) /\ UNCHANGED <<store, catalog, inStep>>

\* "module not cached"
ModuleNotCached(s, u) ==
  InPhase(s, "load") /\ u \in todo[s] /\ View(s)[u] = Absent /\ Abort(s)

\* "tuple concurrently updated", or the function is not there any more.
TupleConcurrentlyUpdated(s) ==
  /\ \/ InPhase(s, "tuple") /\ work[s].disturbed
     \/ InPhase(s, "catalog") /\ catalog[work[s].owner] = Absent
  /\ Abort(s)

\* A fetch that fails, an exception, a cancelled query, a lost connection.
StatementAborts(s) == work[s] # Idle /\ Abort(s)

DeadlockDetected ==
  \E C \in SUBSET Sessions : Deadlocked(C) /\ \E s \in C : Abort(s)

Step(s) ==
  \/ ReadCatalog(s) \/ ChangeTuple(s) \/ TupleConcurrentlyUpdated(s)
  \/ \E u \in Urls : DeleteRow(s, u) \/ FoundInStore(s, u) \/ MissingInStore(s, u)
                     \/ LoadModule(s, u) \/ ModuleNotCached(s, u) \/ DeleteWaits(s, u)
  \/ Cleared(s) \/ WriteRow(s) \/ GraphValid(s) \/ Commit(s)

Next ==
  \/ \E s \in Sessions : \/ CreateFunction(s) \/ DropFunction(s)
                         \/ AlterImportMap(s) \/ DropElsewhere(s)
                         \/ InlineHandler(s) \/ CallHandler(s)
                         \/ Step(s) \/ StatementAborts(s)
  \/ DeadlockDetected

Spec == Init /\ [][Next]_vars

\* Handlers go on, fetches end, a row others hold again and again is got in
\* the end, and PostgreSQL looks for deadlocks.
FairSpec ==
  /\ Spec
  /\ \A s \in Sessions : SF_vars(Step(s))
  /\ WF_vars(DeadlockDetected)

-----------------------------------------------------------------------------
\* Types of the variables.
TypeOK ==
  /\ store \in [Owners -> Rows]
  /\ catalog \in [Oids -> {Absent} \cup Imports]
  /\ inStep \in SUBSET Oids
  /\ work \in [Sessions -> Statements \cup {Idle}]
  /\ written \in [Sessions -> Rows]
  /\ gone \in [Sessions -> SUBSET Urls]
  /\ todo \in [Sessions -> SUBSET Urls]
  /\ at \in [Sessions -> Urls \cup {Absent}]

FindsEverything(s) == InPhase(s, "load") => todo[s] \subseteq Present(View(s))

\* CREATE FUNCTION finds every module it has just prefetched, whatever the
\* other sessions do to this and to other functions and run as DO blocks.
CreateFindsEverything ==
  \A s \in Sessions : work[s] # Idle /\ work[s].kind = "create" => FindsEverything(s)

\* A DO block finds its modules, and so does a call of a function whose
\* import map went through the validator last, if no other session has
\* committed a change of the same function, or another DO block, since it
\* began: that the pg_proc row is read later than the snapshot, and the rows
\* one by one, does not hurt it.
UndisturbedFindEverything ==
  \A s \in Sessions :
    /\ work[s] # Idle /\ ~work[s].disturbed
    /\ work[s].kind = "call" => work[s].owner \in inStep
    => FindsEverything(s)

\* Functions are never caught in a deadlock: DO blocks are, because two of
\* them insert the rows they share in any order.
OnlyDoBlocksDeadlock ==
  \A C \in SUBSET Sessions : Deadlocked(C) => \A s \in C : work[s].kind = "do"

\* Whatever sessions do to one function at once: when CREATE FUNCTION or DROP
\* FUNCTION was the last to change its pg_proc row, a function with imports
\* has the rows of these and no others, and one that is gone has none.  ALTER
\* FUNCTION, and drops without the trigger, leave the rows as they were.
FunctionsHaveTheirModules ==
  \A oid \in inStep :
    /\ catalog[oid] = Absent => store[oid] = NoRows
    /\ catalog[oid] \notin {Absent, {}} => Present(store[oid]) = catalog[oid]

\* The rows of a function change with its import map or not at all.
Registry == INSTANCE FunctionRegistry WITH imports <- catalog, modules <- store
ImplementsRegistry == Registry!Spec

\* Every statement ends, whatever it waits for.
StatementsEnd == \A s \in Sessions : work[s] # Idle ~> work[s] = Idle

\* "Fetch and cache all dependencies before execution": what a DO block has
\* prefetched is there when it is loaded.
DoFindsEverything ==
  \A s \in Sessions : work[s] # Idle /\ work[s].kind = "do" => FindsEverything(s)
=============================================================================
