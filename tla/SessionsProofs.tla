--------------------------- MODULE SessionsProofs ---------------------------
(***************************************************************************)
(* Proofs about Sessions, for any sessions, functions, modules and import  *)
(* sets.                                                                   *)
(*                                                                         *)
(* The change of the pg_proc row is a lock on the function: of two         *)
(* statements that make, alter or drop it only one is past that change, so *)
(* the committed rows under its oid stand still until it ends.  ALTER, and *)
(* a drop without the trigger, take the lock and leave the rows alone; the *)
(* function is not in step after them.  A DO block or a call has no such   *)
(* lock, and is marked as disturbed when the rows under its oid may have   *)
(* changed; until then they have stood still for it too.                   *)
(***************************************************************************)
EXTENDS Sessions, TLAPS

\* What kinds of statements get to which phases, and with what.
StatementShape(s) ==
  /\ work[s].kind = "do" <=> work[s].owner = DoBlock
  /\ work[s].kind = "call" =>
       work[s].phase \in {"catalog", "load"} /\ written[s] = NoRows /\ gone[s] = {}
  /\ work[s].kind # "call" => work[s].phase # "catalog" /\ work[s].snapshot = Absent
  /\ work[s].phase = "tuple" =>
       work[s].kind \in Ddl /\ written[s] = NoRows /\ gone[s] = {}
  /\ work[s].kind = "drop" => work[s].phase \in {"tuple", "clear"} /\ work[s].imports = {}
  /\ work[s].kind \in {"alter", "dropElsewhere"} =>
       work[s].phase \in {"tuple", "changed"} /\ written[s] = NoRows /\ gone[s] = {}
  /\ work[s].phase = "changed" => work[s].kind \in {"alter", "dropElsewhere"}
  /\ work[s].phase = "clear" => written[s] = NoRows
  /\ work[s].phase = "write" => at[s] \in todo[s]
  /\ work[s].phase \in {"prefetch", "write", "load"} => todo[s] \subseteq work[s].imports

\* What an undisturbed statement is done with is there, and so is what it
\* set out to change.
FindsImports(s) ==
  ~work[s].disturbed =>
    /\ work[s].kind \in {"alter", "dropElsewhere"} => catalog[work[s].owner] # Absent
    /\ work[s].snapshot # Absent => work[s].snapshot = store[work[s].owner]
    /\ work[s].phase \in {"prefetch", "write"} =>
         work[s].imports \ todo[s] \subseteq Present(View(s))
    /\ work[s].phase = "load" /\ (work[s].kind = "call" => work[s].owner \in inStep) =>
         work[s].imports \subseteq Present(View(s))

\* A statement past its change of pg_proc has deleted, or will delete, every
\* row of the function, and writes the rows of its own imports only.
OwnsRows(s) ==
  HoldsTuple(s) =>
    /\ ~work[s].disturbed
    /\ work[s].kind = "drop" \/ (work[s].kind = "create" /\ work[s].imports # {}) =>
         /\ Present(written[s]) \subseteq work[s].imports
         /\ work[s].phase = "clear" => Present(store[work[s].owner]) \subseteq gone[s] \cup todo[s]
         /\ work[s].phase # "clear" => Present(store[work[s].owner]) \subseteq gone[s]
    /\ work[s].kind = "create" /\ work[s].imports = {} =>
         work[s].phase = "load" /\ written[s] = NoRows /\ gone[s] = {}

Local(s) ==
  /\ work[s] = Idle => written[s] = NoRows /\ gone[s] = {}
  /\ work[s] # Idle => StatementShape(s) /\ FindsImports(s) /\ OwnsRows(s)

\* The change of the pg_proc row is exclusive.
OneHoldsTuple ==
  \A s, t \in Sessions :
    s # t /\ work[s] # Idle /\ work[t] # Idle /\ work[s].owner = work[t].owner =>
      ~(HoldsTuple(s) /\ HoldsTuple(t))

\* A function that is there has the modules it imports, unless it has been
\* altered since.
Registered ==
  \A oid \in inStep : catalog[oid] # Absent => catalog[oid] \subseteq Present(store[oid])

IInv ==
  /\ TypeOK
  /\ \A s \in Sessions : Local(s)
  /\ OneHoldsTuple
  /\ Registered

-----------------------------------------------------------------------------
\* What an import map leads to are modules, whoever it belongs to.
LEMMA ImportsAreUrls == Imports \subseteq SUBSET Urls
  BY SessionsAssumption DEF SessionsAssumption, Imports

\* No session has a statement in progress.
LEMMA InitIInv == Init => IInv
  <1> SUFFICES ASSUME Init PROVE IInv
    OBVIOUS
  <1>1. TypeOK
    BY DEF Init, TypeOK, Rows, NoRows
  <1>2. (\A s \in Sessions : Local(s)) /\ OneHoldsTuple
    BY DEF Init, Local, OneHoldsTuple
  <1>3. Registered
    BY DEF Init, Registered
  <1>4. QED
    BY <1>1, <1>2, <1>3 DEF IInv

\* A step of one session that commits nothing leaves the others alone.
Alone(s) ==
  /\ UNCHANGED <<store, catalog, inStep>>
  /\ \A t \in Sessions \ {s} :
       /\ work'[t] = work[t] /\ written'[t] = written[t] /\ gone'[t] = gone[t]
       /\ todo'[t] = todo[t] /\ at'[t] = at[t]

\* A step of one session, after which what is said of that session holds.
LEMMA OneSessionStep ==
  ASSUME IInv, TypeOK', NEW s \in Sessions, Alone(s), Local(s)',
         \A t \in Sessions \ {s} :
           work'[s] # Idle /\ work[t] # Idle /\ work[t].owner = work'[s].owner /\ HoldsTuple(t)
             => ~HoldsTuple(s)'
  PROVE  IInv'
  <1>1. ASSUME NEW t \in Sessions PROVE Local(t)'
    <2>1. CASE t = s
      BY <2>1
    <2>2. CASE t # s
      <3>1. Local(t)
        BY DEF IInv
      <3>2. /\ work'[t] = work[t] /\ written'[t] = written[t] /\ gone'[t] = gone[t]
            /\ todo'[t] = todo[t] /\ at'[t] = at[t] /\ UNCHANGED <<store, catalog, inStep>>
        BY <2>2 DEF Alone
      <3>3. QED
        BY <3>1, <3>2 DEF Local, StatementShape, FindsImports, OwnsRows, HoldsTuple, View, Present
    <2>3. QED
      BY <2>1, <2>2
  <1>2. OneHoldsTuple'
    <2> SUFFICES ASSUME NEW t \in Sessions, NEW u \in Sessions, t # u,
                        work'[t] # Idle, work'[u] # Idle, work'[t].owner = work'[u].owner,
                        HoldsTuple(t)', HoldsTuple(u)'
                 PROVE  FALSE
      BY DEF OneHoldsTuple
    <2>1. CASE t = s
      BY <2>1 DEF Alone, HoldsTuple
    <2>2. CASE u = s
      BY <2>2 DEF Alone, HoldsTuple
    <2>3. CASE t # s /\ u # s
      BY <2>3 DEF Alone, HoldsTuple, IInv, OneHoldsTuple
    <2>4. QED
      BY <2>1, <2>2, <2>3
  <1>3. Registered'
    BY DEF IInv, Registered, Alone, Present
  <1>4. QED
    BY <1>1, <1>2, <1>3 DEF IInv

\* The case of most steps: the statement stays what it is, whatever phase it
\* gets to, and has its change of pg_proc behind it or not as before.
LEMMA SamePlace ==
  ASSUME IInv, TypeOK', NEW s \in Sessions, Alone(s), Local(s)',
         work[s] # Idle, work'[s] # Idle, work'[s].owner = work[s].owner,
         HoldsTuple(s)' => HoldsTuple(s)
  PROVE  IInv'
  BY OneSessionStep DEF IInv, OneHoldsTuple

-----------------------------------------------------------------------------
\* Statements begin.
LEMMA BeginStep ==
  ASSUME IInv, NEW s \in Sessions,
         \/ CreateFunction(s) \/ AlterImportMap(s) \/ DropFunction(s) \/ DropElsewhere(s)
         \/ InlineHandler(s) \/ CallHandler(s)
  PROVE  IInv'
  <1>1. PICK kind \in Ddl \cup {"do", "call"}, owner \in Owners, imports \in Imports,
             phase \in {"tuple", "clear", "catalog"}, snapshot \in Rows \cup {Absent} :
          /\ Begin(s, kind, owner, imports, phase, snapshot)
          /\ kind = "do" <=> owner = DoBlock
          /\ kind \in Ddl => phase = "tuple" /\ snapshot = Absent
          /\ kind \in {"alter", "dropElsewhere"} => catalog[owner] # Absent
          /\ kind = "drop" => imports = {}
          /\ kind = "do" => phase = "clear" /\ snapshot = Absent
          /\ kind = "call" => phase = "catalog" /\ snapshot \in {store[owner], Absent}
    <2>1. {} \in Imports /\ DoBlock \notin Oids /\ \A o \in Owners : ImportSets[o] \subseteq Imports
      BY SessionsAssumption DEF SessionsAssumption, Imports
    <2>2. CASE CreateFunction(s)
      BY <2>1, <2>2 DEF CreateFunction, Owners, Ddl
    <2>3. CASE DropFunction(s)
      BY <2>1, <2>3 DEF DropFunction, Owners, Ddl
    <2>4. CASE InlineHandler(s)
      BY <2>1, <2>4 DEF InlineHandler, Owners, Ddl
    <2>5. CASE CallHandler(s)
      BY <2>1, <2>5 DEF CallHandler, Owners, Ddl, IInv, TypeOK
    <2>6. CASE AlterImportMap(s)
      BY <2>1, <2>6 DEF AlterImportMap, Owners, Ddl
    <2>7. CASE DropElsewhere(s)
      BY <2>1, <2>7 DEF DropElsewhere, Owners, Ddl
    <2>8. QED
      BY <2>2, <2>3, <2>4, <2>5, <2>6, <2>7
  <1>2. todo' \in [Sessions -> SUBSET Urls] /\ \A t \in Sessions \ {s} : todo'[t] = todo[t]
    BY DEF CreateFunction, AlterImportMap, DropFunction, DropElsewhere, InlineHandler, CallHandler,
           Present, IInv, TypeOK
  <1> DEFINE statement == [kind |-> kind, owner |-> owner, imports |-> imports, phase |-> phase,
                           snapshot |-> snapshot, disturbed |-> FALSE]
  <1>3. /\ work[s] = Idle
        /\ work' = [work EXCEPT ![s] = statement]
        /\ UNCHANGED <<store, catalog, inStep, written, gone, at>>
    BY <1>1 DEF Begin
  <1>4. statement \in Statements
    BY <1>1 DEF Statements
  <1>5. TypeOK'
    BY <1>2, <1>3, <1>4 DEF IInv, TypeOK
  <1>6. work'[s] = statement /\ statement # Idle
    BY <1>3, <1>4, SessionsAssumption DEF IInv, TypeOK, SessionsAssumption
  <1>7. Alone(s)
    BY <1>2, <1>3 DEF Alone, IInv, TypeOK
  <1>8. written'[s] = NoRows /\ gone'[s] = {}
    BY <1>3 DEF IInv, Local
  <1>9. Local(s)'
    BY <1>1, <1>3, <1>6, <1>8 DEF Local, StatementShape, FindsImports, OwnsRows, HoldsTuple, Ddl
  <1>10. ~HoldsTuple(s)'
    BY <1>1, <1>6 DEF HoldsTuple
  <1>11. QED
    BY <1>5, <1>7, <1>9, <1>10, OneSessionStep
-----------------------------------------------------------------------------
\* Steps that commit nothing.
Phases == {"tuple", "changed", "clear", "prefetch", "write", "catalog", "load"}

\* A change of phase changes nothing else of a statement, and no other one.
LEMMA Moves ==
  ASSUME IInv, NEW s \in Sessions, work[s] # Idle, NEW phase \in Phases,
         work' = [work EXCEPT ![s].phase = phase]
  PROVE  /\ work' \in [Sessions -> Statements \cup {Idle}]
         /\ work[s] \in Statements /\ work'[s] \in Statements /\ work'[s] # Idle
         /\ work'[s].kind = work[s].kind /\ work'[s].owner = work[s].owner
         /\ work'[s].imports = work[s].imports /\ work'[s].snapshot = work[s].snapshot
         /\ work'[s].disturbed = work[s].disturbed /\ work'[s].phase = phase
         /\ \A t \in Sessions \ {s} : work'[t] = work[t]
  <1>1. work[s] \in Statements
    BY DEF IInv, TypeOK
  <1>2. work'[s] = [work[s] EXCEPT !.phase = phase]
    BY DEF IInv, TypeOK
  <1>3. work'[s] \in Statements
    BY <1>1, <1>2 DEF Statements, Phases
  <1>4. work'[s] # Idle
    BY <1>3, SessionsAssumption DEF SessionsAssumption
  <1>5. \A t \in Sessions \ {s} : work'[t] = work[t]
    BY DEF IInv, TypeOK
  <1>6. work' \in [Sessions -> Statements \cup {Idle}]
    BY <1>3 DEF IInv, TypeOK
  <1>7. QED
    BY <1>1, <1>2, <1>3, <1>4, <1>5, <1>6 DEF Statements

\* A step that goes on to another phase, and to the rows or modules of it.
LEMMA Enters ==
  ASSUME IInv, NEW s \in Sessions, work[s] # Idle, NEW phase \in Phases,
         NEW next \in SUBSET Urls, Enter(s, phase, next),
         UNCHANGED <<store, catalog, inStep, written, gone>>
  PROVE  TypeOK' /\ Alone(s) /\ todo'[s] = next /\ at'[s] = Absent
  <1>1. work' = [work EXCEPT ![s].phase = phase]
    BY DEF Enter
  <1>2. QED
    BY <1>1, Moves DEF Enter, IInv, TypeOK, Alone

\* A call reads the catalog.
LEMMA ReadCatalogStep ==
  ASSUME IInv, NEW s \in Sessions, ReadCatalog(s)
  PROVE  IInv'
  <1> DEFINE oid == work[s].owner
  <1>1. work[s] # Idle /\ work[s].phase = "catalog" /\ catalog[oid] # Absent
    BY DEF ReadCatalog, InPhase
  <1>2. work[s] \in Statements /\ Local(s)
    BY <1>1 DEF IInv, TypeOK
  <1>3. /\ work[s].kind = "call" /\ oid \in Oids
        /\ written[s] = NoRows /\ gone[s] = {}
    BY <1>1, <1>2 DEF Local, StatementShape, Statements, Owners
  <1>4. /\ catalog[oid] \in Imports
        /\ oid \in inStep => catalog[oid] \subseteq Present(store[oid])
    BY <1>1, <1>3 DEF IInv, TypeOK, Registered
  <1>5. work'[s] = [work[s] EXCEPT !.phase = "load", !.imports = catalog[oid]]
    BY DEF ReadCatalog, IInv, TypeOK
  <1>6. work'[s] \in Statements /\ work'[s] # Idle
    <2>1. work'[s] \in Statements
      BY <1>2, <1>4, <1>5 DEF Statements
    <2>2. QED
      BY <2>1, SessionsAssumption DEF SessionsAssumption
  <1>7. /\ todo' = [todo EXCEPT ![s] = catalog[oid]] /\ catalog[oid] \in SUBSET Urls
        /\ UNCHANGED <<store, catalog, inStep, written, gone, at>>
    BY <1>4, ImportsAreUrls DEF ReadCatalog
  <1>8. work' \in [Sessions -> Statements \cup {Idle}] /\ \A t \in Sessions \ {s} : work'[t] = work[t]
    BY <1>6 DEF ReadCatalog, IInv, TypeOK
  <1>9. TypeOK'
    BY <1>7, <1>8 DEF IInv, TypeOK
  <1>10. Alone(s)
    BY <1>7, <1>8 DEF Alone, IInv, TypeOK
  <1>11. /\ work'[s].kind = "call" /\ work'[s].owner = oid /\ work'[s].phase = "load"
         /\ work'[s].imports = catalog[oid] /\ work'[s].snapshot = work[s].snapshot
         /\ work'[s].disturbed = work[s].disturbed
    BY <1>2, <1>3, <1>5 DEF Statements
  <1>12. todo'[s] = catalog[oid] /\ written'[s] = NoRows /\ gone'[s] = {}
    BY <1>3, <1>7 DEF IInv, TypeOK
  <1>13. StatementShape(s)'
    BY <1>2, <1>6, <1>11, <1>12, <1>1 DEF Local, StatementShape
  <1>14. FindsImports(s)'
    <2> SUFFICES ASSUME ~work'[s].disturbed
                 PROVE  /\ work'[s].snapshot # Absent => work'[s].snapshot = store[oid]
                        /\ oid \in inStep => catalog[oid] \subseteq Present(View(s))'
      BY <1>7, <1>11 DEF FindsImports
    <2>1. work'[s].snapshot # Absent => work'[s].snapshot = store[oid]
      BY <1>1, <1>2, <1>11 DEF Local, FindsImports
    <2>2. work'[s].snapshot # Absent => View(s)' = store[oid]
      BY <2>1 DEF View
    <2>3. work'[s].snapshot = Absent => \A u \in Urls : View(s)'[u] = store[oid][u]
      BY <1>7, <1>11, <1>12 DEF View, NoRows
    <2>4. QED
      BY <1>4, <2>1, <2>2, <2>3 DEF Present
  <1>15. OwnsRows(s)' /\ ~HoldsTuple(s)'
    BY <1>11 DEF OwnsRows, HoldsTuple, Ddl
  <1>16. QED
    BY <1>1, <1>6, <1>9, <1>10, <1>11, <1>13, <1>14, <1>15, SamePlace DEF Local

\* CREATE, ALTER or DROP changes the pg_proc row.
LEMMA ChangeTupleStep ==
  ASSUME IInv, NEW s \in Sessions, ChangeTuple(s)
  PROVE  IInv'
  <1>1. work[s] # Idle /\ work[s].phase = "tuple" /\ ~work[s].disturbed
    BY DEF ChangeTuple, InPhase
  <1>2. work[s] \in Statements /\ Local(s)
    BY <1>1 DEF IInv, TypeOK
  <1>3. /\ StatementShape(s) /\ work[s].kind \in Ddl
        /\ written[s] = NoRows /\ gone[s] = {} /\ work[s].snapshot = Absent
    BY <1>1, <1>2 DEF Local, StatementShape
  <1>4. PICK phase \in {"changed", "clear", "load"}, next \in SUBSET Urls :
          /\ Enter(s, phase, next)
          /\ phase = "clear" => next = Present(store[work[s].owner])
          /\ phase = "load" => next = {} /\ work[s].kind = "create" /\ work[s].imports = {}
          /\ phase = "clear" =>
               work[s].kind = "drop" \/ (work[s].kind = "create" /\ work[s].imports # {})
          /\ phase = "changed" <=> work[s].kind \in {"alter", "dropElsewhere"}
    <2> DEFINE kind == work[s].kind
               rows == Present(store[work[s].owner])
    <2>1. CASE kind \in {"alter", "dropElsewhere"}
      <3>1. Enter(s, "changed", {})
        BY <2>1 DEF ChangeTuple
      <3>2. QED
        BY <2>1, <3>1
    <2>2. CASE kind = "create" /\ work[s].imports = {}
      <3>1. Enter(s, "load", {})
        BY <2>2 DEF ChangeTuple
      <3>2. QED
        BY <2>2, <3>1
    <2>3. CASE kind = "drop" \/ (kind = "create" /\ work[s].imports # {})
      <3>1. Enter(s, "clear", rows) /\ rows \in SUBSET Urls
        BY <2>3 DEF ChangeTuple, Present
      <3>2. QED
        BY <2>3, <3>1
    <2>4. QED
      BY <1>3, <2>1, <2>2, <2>3 DEF Ddl
  <1>5. UNCHANGED <<store, catalog, inStep, written, gone>>
    BY DEF ChangeTuple
  <1>6. TypeOK' /\ Alone(s) /\ todo'[s] = next /\ at'[s] = Absent
    BY <1>1, <1>4, <1>5, Enters DEF Phases
  <1>7. work' = [work EXCEPT ![s].phase = phase]
    BY <1>4 DEF Enter
  <1>8. /\ work'[s] # Idle /\ work'[s].kind = work[s].kind /\ work'[s].owner = work[s].owner
        /\ work'[s].imports = work[s].imports /\ work'[s].snapshot = work[s].snapshot
        /\ work'[s].disturbed = work[s].disturbed /\ work'[s].phase = phase
    BY <1>1, <1>7, Moves DEF Phases
  <1>9. StatementShape(s)'
    BY <1>3, <1>4, <1>5, <1>6, <1>8, <1>1 DEF StatementShape, Ddl
  <1>10. FindsImports(s)'
    BY <1>1, <1>2, <1>3, <1>4, <1>5, <1>8 DEF FindsImports, Local
  <1>11. Present(written'[s]) = {}
    BY <1>3, <1>5 DEF Present, NoRows
  <1>12. OwnsRows(s)'
    BY <1>1, <1>3, <1>4, <1>5, <1>6, <1>8, <1>11 DEF OwnsRows
  <1>13. \A t \in Sessions \ {s} :
           work'[s] # Idle /\ work[t] # Idle /\ work[t].owner = work'[s].owner /\ HoldsTuple(t)
             => ~HoldsTuple(s)'
    BY <1>8 DEF ChangeTuple, Rivals
  <1>14. QED
    BY <1>6, <1>8, <1>9, <1>10, <1>12, <1>13, OneSessionStep DEF Local

\* The DELETE deletes one row.
LEMMA DeleteRowStep ==
  ASSUME IInv, NEW s \in Sessions, NEW u \in Urls, DeleteRow(s, u) \/ DeleteWaits(s, u)
  PROVE  IInv'
  <1>1. /\ work[s] # Idle /\ work[s].phase = "clear"
        /\ UNCHANGED <<store, catalog, inStep, work, written>>
    BY DEF DeleteRow, DeleteWaits, InPhase
  <1>2. TypeOK' /\ Alone(s)
    BY DEF DeleteRow, DeleteWaits, Alone, IInv, TypeOK
  <1>3. gone'[s] \cup todo'[s] = gone[s] \cup todo[s]
    BY DEF DeleteRow, DeleteWaits, IInv, TypeOK
  <1>4. Local(s) /\ work[s].kind \in {"create", "drop", "do"}
    BY <1>1 DEF IInv, Local, StatementShape, TypeOK, Statements, Ddl
  <1>5. StatementShape(s)' /\ FindsImports(s)' /\ OwnsRows(s)'
    BY <1>1, <1>3, <1>4 DEF Local, StatementShape, FindsImports, OwnsRows, HoldsTuple
  <1>6. QED
    BY <1>1, <1>2, <1>5, SamePlace DEF Local, HoldsTuple

\* The DELETE has come to its end.
LEMMA ClearedStep ==
  ASSUME IInv, NEW s \in Sessions, Cleared(s)
  PROVE  IInv'
  <1>1. /\ work[s] # Idle /\ work[s].phase = "clear" /\ work[s].kind # "drop" /\ todo[s] = {}
        /\ Enter(s, "prefetch", work[s].imports)
        /\ UNCHANGED <<store, catalog, inStep, written, gone>>
    BY DEF Cleared, InPhase
  <1>2. Local(s) /\ work[s].kind \in {"create", "do"} /\ work[s].imports \in SUBSET Urls
    BY <1>1, ImportsAreUrls DEF IInv, Local, StatementShape, TypeOK, Statements, Ddl
  <1>3. TypeOK' /\ Alone(s) /\ todo'[s] = work[s].imports
    BY <1>1, <1>2, Enters DEF Phases
  <1>4. /\ work'[s] # Idle /\ work'[s].kind = work[s].kind /\ work'[s].owner = work[s].owner
        /\ work'[s].imports = work[s].imports /\ work'[s].snapshot = work[s].snapshot
        /\ work'[s].disturbed = work[s].disturbed /\ work'[s].phase = "prefetch"
    BY <1>1, Moves DEF Phases, Enter
  <1>5. StatementShape(s)' /\ FindsImports(s)' /\ OwnsRows(s)'
    BY <1>1, <1>2, <1>3, <1>4 DEF Local, StatementShape, FindsImports, OwnsRows, HoldsTuple
  <1>6. QED
    BY <1>1, <1>3, <1>4, <1>5, SamePlace DEF Local, HoldsTuple

\* load_module finds the row, or the loader does.
LEMMA FoundInStoreStep ==
  ASSUME IInv, NEW s \in Sessions, NEW u \in Urls, FoundInStore(s, u) \/ LoadModule(s, u)
  PROVE  IInv'
  <1>1. /\ work[s] # Idle /\ work[s].phase \in {"prefetch", "load"}
        /\ View(s)[u] # Absent /\ todo'[s] = todo[s] \ {u}
        /\ UNCHANGED <<store, catalog, inStep, work, written, gone, at>>
    BY DEF FoundInStore, LoadModule, InPhase, IInv, TypeOK
  <1>2. TypeOK' /\ Alone(s)
    BY DEF FoundInStore, LoadModule, Alone, IInv, TypeOK
  <1>3. View(s)' = View(s) /\ u \in Present(View(s)) /\ Local(s)
    BY <1>1 DEF View, Present, IInv
  <1>4. StatementShape(s)'
    BY <1>1, <1>3 DEF Local, StatementShape
  <1>5. FindsImports(s)'
    BY <1>1, <1>3 DEF Local, FindsImports, Present
  <1>6. OwnsRows(s)'
    BY <1>1, <1>3 DEF Local, OwnsRows, HoldsTuple
  <1>7. QED
    BY <1>1, <1>2, <1>4, <1>5, <1>6, SamePlace DEF Local, HoldsTuple

\* load_module does not find the row.
LEMMA MissingInStoreStep ==
  ASSUME IInv, NEW s \in Sessions, NEW u \in Urls, MissingInStore(s, u)
  PROVE  IInv'
  <1>1. /\ work[s] # Idle /\ work[s].phase = "prefetch" /\ u \in todo[s]
        /\ work' = [work EXCEPT ![s].phase = "write"] /\ at' = [at EXCEPT ![s] = u]
        /\ UNCHANGED <<store, catalog, inStep, written, gone, todo>>
    BY DEF MissingInStore, InPhase
  <1>2. /\ work'[s] # Idle /\ work'[s].kind = work[s].kind /\ work'[s].owner = work[s].owner
        /\ work'[s].imports = work[s].imports /\ work'[s].snapshot = work[s].snapshot
        /\ work'[s].disturbed = work[s].disturbed /\ work'[s].phase = "write"
        /\ work' \in [Sessions -> Statements \cup {Idle}]
        /\ \A t \in Sessions \ {s} : work'[t] = work[t]
    BY <1>1, Moves DEF Phases
  <1>3. TypeOK' /\ Alone(s) /\ at'[s] = u
    BY <1>1, <1>2 DEF Alone, IInv, TypeOK
  <1>4. View(s)' = View(s) /\ Local(s)
    BY <1>1, <1>2 DEF View, IInv
  <1>5. StatementShape(s)'
    BY <1>1, <1>2, <1>3, <1>4 DEF Local, StatementShape
  <1>6. FindsImports(s)'
    BY <1>1, <1>2, <1>4 DEF Local, FindsImports, Present
  <1>7. OwnsRows(s)'
    BY <1>1, <1>2, <1>4 DEF Local, OwnsRows, HoldsTuple, Present
  <1>8. QED
    BY <1>1, <1>2, <1>3, <1>5, <1>6, <1>7, SamePlace DEF Local, HoldsTuple

\* The upsert writes one row.
LEMMA WriteRowStep ==
  ASSUME IInv, NEW s \in Sessions, WriteRow(s)
  PROVE  IInv'
  <1> DEFINE u == at[s]
  <1>1. PICK source \in Sources :
          /\ work[s] # Idle /\ work[s].phase = "write"
          /\ written' = [written EXCEPT ![s][u] = source]
          /\ Enter(s, "prefetch", todo[s] \ {u})
          /\ UNCHANGED <<store, catalog, inStep, gone>>
    BY DEF WriteRow, InPhase
  <1>2. /\ Local(s) /\ StatementShape(s) /\ work[s].kind \in {"create", "do"}
        /\ work[s].snapshot = Absent /\ u \in todo[s] /\ u \in Urls /\ u \in work[s].imports
    BY <1>1 DEF IInv, Local, StatementShape, TypeOK, Statements, Ddl
  <1>3. source # Absent
    BY SessionsAssumption DEF SessionsAssumption
  <1>4. written[s] \in Rows /\ written'[s] = [written[s] EXCEPT ![u] = source]
    BY <1>1 DEF IInv, TypeOK
  <1>5. written'[s] \in Rows /\ Present(written'[s]) = Present(written[s]) \cup {u}
    BY <1>2, <1>3, <1>4 DEF Rows, Present
  <1>6. /\ work'[s] # Idle /\ work'[s].kind = work[s].kind /\ work'[s].owner = work[s].owner
        /\ work'[s].imports = work[s].imports /\ work'[s].snapshot = work[s].snapshot
        /\ work'[s].disturbed = work[s].disturbed /\ work'[s].phase = "prefetch"
        /\ work' \in [Sessions -> Statements \cup {Idle}]
        /\ \A t \in Sessions \ {s} : work'[t] = work[t]
    BY <1>1, Moves DEF Phases, Enter
  <1>7. /\ todo'[s] = todo[s] \ {u} /\ written' \in [Sessions -> Rows]
        /\ \A t \in Sessions \ {s} :
             written'[t] = written[t] /\ todo'[t] = todo[t] /\ at'[t] = at[t]
    BY <1>1, <1>5 DEF Enter, IInv, TypeOK
  <1>8. TypeOK' /\ Alone(s)
    BY <1>1, <1>6, <1>7 DEF Enter, Alone, IInv, TypeOK
  <1>9. StatementShape(s)'
    BY <1>1, <1>2, <1>6, <1>7 DEF StatementShape
  <1>10. Present(View(s))' = Present(View(s)) \cup {u}
    <2>1. \A v \in Urls \ {u} : written'[s][v] = written[s][v]
      BY <1>4 DEF Rows
    <2>2. written'[s][u] = source
      BY <1>2, <1>4 DEF Rows
    <2>3. QED
      BY <1>1, <1>2, <1>3, <1>6, <2>1, <2>2 DEF Present, View
  <1>11. FindsImports(s)'
    BY <1>1, <1>2, <1>6, <1>7, <1>10 DEF Local, FindsImports
  <1>12. OwnsRows(s)'
    BY <1>1, <1>2, <1>5, <1>6 DEF Local, OwnsRows, HoldsTuple
  <1>13. QED
    BY <1>1, <1>6, <1>8, <1>9, <1>11, <1>12, SamePlace DEF Local, HoldsTuple

\* The prefetch has everything it asked for.
LEMMA GraphValidStep ==
  ASSUME IInv, NEW s \in Sessions, GraphValid(s)
  PROVE  IInv'
  <1>1. /\ work[s] # Idle /\ work[s].phase = "prefetch" /\ todo[s] = {}
        /\ Enter(s, "load", work[s].imports)
        /\ UNCHANGED <<store, catalog, inStep, written, gone>>
    BY DEF GraphValid, InPhase
  <1>2. Local(s) /\ work[s].kind \in {"create", "do"} /\ work[s].imports \in SUBSET Urls
    BY <1>1, ImportsAreUrls DEF IInv, Local, StatementShape, TypeOK, Statements, Ddl
  <1>3. TypeOK' /\ Alone(s) /\ todo'[s] = work[s].imports
    BY <1>1, <1>2, Enters DEF Phases
  <1>4. /\ work'[s] # Idle /\ work'[s].kind = work[s].kind /\ work'[s].owner = work[s].owner
        /\ work'[s].imports = work[s].imports /\ work'[s].snapshot = work[s].snapshot
        /\ work'[s].disturbed = work[s].disturbed /\ work'[s].phase = "load"
    BY <1>1, Moves DEF Phases, Enter
  <1>5. View(s)' = View(s)
    BY <1>1, <1>4 DEF View
  <1>6. StatementShape(s)'
    BY <1>1, <1>2, <1>3, <1>4 DEF Local, StatementShape
  <1>7. FindsImports(s)'
    BY <1>1, <1>2, <1>4, <1>5 DEF Local, FindsImports, Present
  <1>8. OwnsRows(s)'
    BY <1>1, <1>2, <1>4 DEF Local, OwnsRows, HoldsTuple
  <1>9. QED
    BY <1>1, <1>3, <1>4, <1>6, <1>7, <1>8, SamePlace DEF Local, HoldsTuple

-----------------------------------------------------------------------------
\* Transactions end.  One that commits nothing is gone without a trace.
LEMMA LeavesAlone ==
  ASSUME IInv, NEW s \in Sessions, work[s] # Idle, Ended(s, {}, FALSE),
         UNCHANGED <<store, catalog, inStep>>
  PROVE  IInv'
  <1>1. \A t \in Sessions :
          /\ work'[t] = IF t = s THEN Idle ELSE work[t]
          /\ written'[t] = IF t = s THEN NoRows ELSE written[t]
          /\ gone'[t] = IF t = s THEN {} ELSE gone[t]
          /\ todo'[t] = IF t = s THEN {} ELSE todo[t]
          /\ at'[t] = IF t = s THEN Absent ELSE at[t]
    BY DEF Ended, IInv, TypeOK
  <1>2. Alone(s)
    BY <1>1 DEF Alone
  <1>3. work' \in [Sessions -> Statements \cup {Idle}]
    BY <1>1 DEF Ended, IInv, TypeOK
  <1>4. /\ written' \in [Sessions -> Rows] /\ gone' \in [Sessions -> SUBSET Urls]
        /\ todo' \in [Sessions -> SUBSET Urls] /\ at' \in [Sessions -> Urls \cup {Absent}]
    <2>1. NoRows \in Rows
      BY DEF NoRows, Rows
    <2>2. QED
      BY <2>1, <1>1 DEF Ended, IInv, TypeOK
  <1>5. TypeOK'
    BY <1>3, <1>4 DEF IInv, TypeOK
  <1>6. Local(s)'
    BY <1>1 DEF Local
  <1>7. QED
    BY <1>1, <1>2, <1>5, <1>6, OneSessionStep

\* A statement aborts: its changes are gone.
LEMMA AbortStep ==
  ASSUME IInv, NEW s \in Sessions, work[s] # Idle, Abort(s)
  PROVE  IInv'
  BY LeavesAlone DEF Abort

\* The rows that a transaction leaves behind.
LEMMA ViewIsRows ==
  ASSUME IInv, NEW s \in Sessions, work[s] # Idle
  PROVE  View(s) \in Rows
  <1>1. work[s].snapshot # Absent => work[s].snapshot \in Rows
    BY DEF IInv, TypeOK, Statements
  <1>2. \A u \in Urls :
          written[s][u] \in Sources \cup {Absent} /\ store[work[s].owner][u] \in Sources \cup {Absent}
    BY DEF IInv, TypeOK, Statements, Rows
  <1>3. QED
    BY <1>1, <1>2 DEF View, Rows

\* A DROP that commits has deleted every row of its function.
LEMMA DropLeavesNothing ==
  ASSUME IInv, NEW s \in Sessions, InPhase(s, "clear"), todo[s] = {}, work[s].kind = "drop"
  PROVE  View(s) = NoRows
  <1>1. Local(s) /\ work[s] # Idle /\ work[s].phase = "clear"
    BY DEF IInv, InPhase
  <1>2. /\ work[s].snapshot = Absent /\ written[s] = NoRows
        /\ Present(store[work[s].owner]) \subseteq gone[s]
    BY <1>1 DEF Local, StatementShape, OwnsRows, HoldsTuple, Ddl
  <1>3. \A u \in Urls : u \notin gone[s] => store[work[s].owner][u] = Absent
    BY <1>2 DEF Present
  <1>4. QED
    BY <1>2, <1>3 DEF View, NoRows

\* A CREATE that commits leaves the rows of its imports and no others.
LEMMA CreateLeavesItsImports ==
  ASSUME IInv, NEW s \in Sessions, InPhase(s, "load"), work[s].kind = "create"
  PROVE  /\ work[s].imports \subseteq Present(View(s))
         /\ work[s].imports # {} => Present(View(s)) = work[s].imports
         /\ work[s].imports = {} => View(s) = store[work[s].owner]
  <1>1. Local(s) /\ work[s] # Idle /\ work[s].phase = "load"
    BY DEF IInv, InPhase
  <1>2. HoldsTuple(s) /\ work[s].snapshot = Absent /\ work[s].imports \subseteq Present(View(s))
    BY <1>1 DEF Local, StatementShape, OwnsRows, FindsImports, HoldsTuple, Ddl
  <1>3. ASSUME work[s].imports # {} PROVE Present(View(s)) \subseteq work[s].imports
    <2>1. /\ Present(written[s]) \subseteq work[s].imports
          /\ Present(store[work[s].owner]) \subseteq gone[s]
      BY <1>1, <1>2, <1>3 DEF Local, OwnsRows
    <2>2. QED
      BY <1>2, <2>1 DEF View, Present
  <1>4. ASSUME work[s].imports = {} PROVE View(s) = store[work[s].owner]
    <2>1. written[s] = NoRows /\ gone[s] = {}
      BY <1>1, <1>2, <1>4 DEF Local, OwnsRows
    <2>2. store[work[s].owner] \in Rows
      BY <1>1 DEF IInv, TypeOK, Statements
    <2>3. QED
      BY <1>2, <2>1, <2>2 DEF View, Rows, NoRows
  <1>5. QED
    BY <1>2, <1>3, <1>4

\* ALTER, and a drop without the trigger, leave the rows as they were.
LEMMA AlterLeavesTheRows ==
  ASSUME IInv, NEW s \in Sessions, InPhase(s, "changed")
  PROVE  View(s) = store[work[s].owner]
  <1>1. Local(s) /\ work[s] # Idle /\ work[s].phase = "changed"
    BY DEF IInv, InPhase
  <1>2. written[s] = NoRows /\ gone[s] = {} /\ work[s].snapshot = Absent
    BY <1>1 DEF Local, StatementShape
  <1>3. store[work[s].owner] \in Rows
    BY <1>1 DEF IInv, TypeOK, Statements
  <1>4. QED
    BY <1>2, <1>3 DEF View, Rows, NoRows

\* A statement commits; the waiters go on, those under its oid disturbed.
LEMMA CommitStep ==
  ASSUME IInv, NEW s \in Sessions, Commit(s)
  PROVE  IInv'
  <1> DEFINE owner == work[s].owner
             kind  == work[s].kind
  <1>1. work[s] # Idle /\ work[s] \in Statements /\ Local(s)
    BY DEF Commit, InPhase, IInv, TypeOK
  <1>2. /\ owner \in Owners /\ kind \in Ddl \cup {"do", "call"}
        /\ kind = "do" <=> owner = DoBlock
        /\ kind \in Ddl => owner \in Oids
    BY <1>1 DEF Local, StatementShape, Statements, Owners, Ddl
  <1>3. CASE kind = "call"
    <2>1. gone[s] = {}
      BY <1>1, <1>3 DEF Local, StatementShape
    <2>2. Ended(s, {}, FALSE) /\ UNCHANGED <<store, catalog, inStep>>
      BY <1>3, <2>1 DEF Commit, Publish
    <2>3. QED
      BY <1>1, <2>2, LeavesAlone
  <1>4. CASE kind # "call"
    <2>1. /\ store' = [store EXCEPT ![owner] = View(s)]
          /\ Ended(s, gone[s], TRUE)
          /\ Publish(kind, owner, work[s].imports)
      BY <1>4 DEF Commit
    <2>2. kind \in Ddl => HoldsTuple(s)
      BY DEF Commit, InPhase, HoldsTuple
    <2>3. /\ kind = "create" => InPhase(s, "load")
          /\ kind \in {"alter", "dropElsewhere"} => InPhase(s, "changed")
      BY <1>1 DEF Commit, InPhase, Local, StatementShape
    <2>15. /\ catalog' \in [Oids -> {Absent} \cup Imports] /\ inStep' \in SUBSET Oids
           /\ \A oid \in Oids \ {owner} :
                catalog'[oid] = catalog[oid] /\ (oid \in inStep' <=> oid \in inStep)
      BY <1>1, <1>2, <2>1 DEF Publish, Ddl, IInv, TypeOK, Statements
    <2>4. \A t \in Sessions \ {s} :
            /\ t \in Rivals(s) => work'[t] = [work[t] EXCEPT !.disturbed = TRUE]
            /\ t \notin Rivals(s) => work'[t] = work[t] /\ todo'[t] = todo[t] /\ at'[t] = at[t]
            /\ written'[t] = written[t] /\ gone'[t] = gone[t]
            /\ todo'[t] \subseteq todo[t]
            /\ work[t] # Idle /\ work[t].phase # "clear" => todo'[t] = todo[t] /\ at'[t] = at[t]
      BY <2>1 DEF Ended, Rivals, IInv, TypeOK
    <2>5. work'[s] = Idle /\ written'[s] = NoRows /\ gone'[s] = {}
      BY <2>1 DEF Ended, IInv, TypeOK
    <2>6. \A t \in Rivals(s) : work'[t] \in Statements
      <3> SUFFICES ASSUME NEW t \in Rivals(s) PROVE work'[t] \in Statements
        OBVIOUS
      <3>1. t \in Sessions \ {s} /\ work[t] \in Statements
        BY DEF Rivals, IInv, TypeOK
      <3>2. work'[t] = [work[t] EXCEPT !.disturbed = TRUE]
        BY <2>4, <3>1
      <3>3. QED
        BY <3>1, <3>2 DEF Statements
    <2>7. TypeOK'
      <3>1. store' \in [Owners -> Rows]
        BY <1>1, <1>2, <2>1, ViewIsRows DEF IInv, TypeOK
      <3>2. catalog' \in [Oids -> {Absent} \cup Imports] /\ inStep' \in SUBSET Oids
        BY <2>15
      <3>3. work' \in [Sessions -> Statements \cup {Idle}]
        BY <2>1, <2>4, <2>5, <2>6 DEF Ended, IInv, TypeOK
      <3>4. /\ written' \in [Sessions -> Rows] /\ gone' \in [Sessions -> SUBSET Urls]
            /\ todo' \in [Sessions -> SUBSET Urls] /\ at' \in [Sessions -> Urls \cup {Absent}]
        BY <2>1 DEF Ended, IInv, TypeOK, NoRows, Rows
      <3>5. QED
        BY <3>1, <3>2, <3>3, <3>4 DEF TypeOK
    <2>8. ASSUME NEW t \in Rivals(s)
          PROVE  /\ t \in Sessions /\ t # s /\ work[t] # Idle /\ work[t].owner = owner
                 /\ work'[t] # Idle /\ work'[t].disturbed
                 /\ work'[t].kind = work[t].kind /\ work'[t].owner = owner
                 /\ work'[t].imports = work[t].imports /\ work'[t].phase = work[t].phase
                 /\ work'[t].snapshot = work[t].snapshot
      <3>1. t \in Sessions /\ t # s /\ work[t] # Idle /\ work[t].owner = owner
        BY DEF Rivals
      <3>2. work[t] \in Statements
        BY <3>1 DEF IInv, TypeOK
      <3>3. work'[t] # Idle
        BY <2>6, SessionsAssumption DEF SessionsAssumption
      <3>4. QED
        BY <2>4, <3>1, <3>2, <3>3 DEF Statements
    <2>9. ASSUME NEW t \in Rivals(s) PROVE Local(t)'
      <3>1. Local(t) /\ StatementShape(t)
        BY <2>8 DEF IInv, Local
      <3>2. ~HoldsTuple(t)
        <4>1. HoldsTuple(t) => kind \in Ddl
          BY <1>2, <1>4, <2>8, <3>1 DEF HoldsTuple, StatementShape, Ddl
        <4>2. QED
          BY <1>1, <2>2, <2>8, <4>1 DEF IInv, OneHoldsTuple
      <3>3. StatementShape(t)'
        <4>1. t \in Sessions \ {s}
          BY <2>8
        <4>2. /\ written'[t] = written[t] /\ gone'[t] = gone[t] /\ todo'[t] \subseteq todo[t]
              /\ work[t].phase # "clear" => todo'[t] = todo[t] /\ at'[t] = at[t]
          BY <2>4, <2>8, <4>1
        <4>3. /\ work'[t].phase = work[t].phase /\ work'[t].kind = work[t].kind
              /\ work'[t].owner = work[t].owner /\ work'[t].imports = work[t].imports
              /\ work'[t].snapshot = work[t].snapshot
          BY <2>8
        <4>4. QED
          BY <3>1, <4>2, <4>3 DEF StatementShape
      <3>4. FindsImports(t)'
        BY <2>8 DEF FindsImports
      <3>5. OwnsRows(t)'
        BY <2>8, <3>2 DEF OwnsRows, HoldsTuple
      <3>6. QED
        BY <2>8, <3>3, <3>4, <3>5 DEF Local
    <2>10. ASSUME NEW t \in Sessions \ {s}, t \notin Rivals(s) PROVE Local(t)'
      <3>1. Local(t)
        BY DEF IInv
      <3>2. /\ work'[t] = work[t] /\ written'[t] = written[t] /\ gone'[t] = gone[t]
            /\ todo'[t] = todo[t] /\ at'[t] = at[t]
        BY <2>4, <2>10
      <3>3. work[t] # Idle => store'[work[t].owner] = store[work[t].owner]
        BY <2>1, <2>10 DEF Rivals, IInv, TypeOK, Statements
      <3>4. work[t] # Idle =>
              /\ work[t].kind \in {"alter", "dropElsewhere"} =>
                   catalog'[work[t].owner] = catalog[work[t].owner]
              /\ work[t].kind = "call" => (work[t].owner \in inStep' <=> work[t].owner \in inStep)
        <4>1. work[t] # Idle => work[t].owner # owner /\ work[t].owner \in Owners
          BY <2>10 DEF Rivals, IInv, TypeOK, Statements
        <4>2. work[t] # Idle /\ work[t].owner \notin Oids => work[t].kind = "do"
          BY <3>1, <4>1 DEF Local, StatementShape, Owners
        <4>3. QED
          BY <2>15, <4>1, <4>2
      <3>5. QED
        BY <3>1, <3>2, <3>3, <3>4 DEF Local, StatementShape, FindsImports, OwnsRows, HoldsTuple, View, Present
    <2>11. Local(s)'
      BY <2>5 DEF Local
    <2>12. OneHoldsTuple'
      <3>1. \A t \in Sessions \ {s} :
              work'[t] # Idle =>
                work[t] # Idle /\ work'[t].owner = work[t].owner /\ (HoldsTuple(t)' => HoldsTuple(t))
        BY <2>4, <2>8 DEF HoldsTuple
      <3>2. QED
        BY <2>5, <3>1 DEF OneHoldsTuple, IInv
    <2>13. Registered'
      <3> SUFFICES ASSUME NEW oid \in inStep', catalog'[oid] # Absent
                   PROVE  catalog'[oid] \subseteq Present(store'[oid])
        BY DEF Registered, Present
      <3>0. oid \in Oids
        BY <2>15
      <3>1. CASE oid = owner
        <4>1. kind \in Ddl
          BY <1>2, <1>4, <3>0, <3>1, SessionsAssumption DEF SessionsAssumption
        <4>2. kind = "create" /\ catalog'[oid] = work[s].imports
          BY <2>1, <3>0, <3>1, <4>1 DEF IInv, TypeOK, Publish, Ddl
        <4>3. store'[oid] = View(s)
          BY <1>2, <2>1, <3>1 DEF IInv, TypeOK
        <4>4. QED
          BY <2>3, <4>2, <4>3, CreateLeavesItsImports
      <3>2. CASE oid # owner
        <4>1. catalog'[oid] = catalog[oid] /\ store'[oid] = store[oid] /\ oid \in inStep
          BY <2>1, <2>15, <3>0, <3>2 DEF IInv, TypeOK, Owners
        <4>2. QED
          BY <4>1 DEF IInv, Registered
      <3>3. QED
        BY <3>1, <3>2
    <2>14. QED
      BY <2>7, <2>9, <2>10, <2>11, <2>12, <2>13 DEF IInv
  <1>5. QED
    BY <1>3, <1>4

-----------------------------------------------------------------------------
\* Every step keeps the invariant.
LEMMA NextIInv == IInv /\ [Next]_vars => IInv'
  <1> SUFFICES ASSUME IInv, [Next]_vars PROVE IInv'
    OBVIOUS
  <1>1. ASSUME NEW s \in Sessions, Step(s) PROVE IInv'
    <2>1. CASE ReadCatalog(s)
      BY <2>1, ReadCatalogStep
    <2>2. CASE ChangeTuple(s)
      BY <2>2, ChangeTupleStep
    <2>3. CASE TupleConcurrentlyUpdated(s)
      BY <2>3, AbortStep DEF TupleConcurrentlyUpdated, InPhase
    <2>4. ASSUME NEW u \in Urls, DeleteRow(s, u) \/ DeleteWaits(s, u) PROVE IInv'
      BY <2>4, DeleteRowStep
    <2>5. ASSUME NEW u \in Urls, FoundInStore(s, u) \/ LoadModule(s, u) PROVE IInv'
      BY <2>5, FoundInStoreStep
    <2>6. ASSUME NEW u \in Urls, MissingInStore(s, u) PROVE IInv'
      BY <2>6, MissingInStoreStep
    <2>7. ASSUME NEW u \in Urls, ModuleNotCached(s, u) PROVE IInv'
      BY <2>7, AbortStep DEF ModuleNotCached, InPhase
    <2>8. CASE Cleared(s)
      BY <2>8, ClearedStep
    <2>9. CASE WriteRow(s)
      BY <2>9, WriteRowStep
    <2>10. CASE GraphValid(s)
      BY <2>10, GraphValidStep
    <2>11. CASE Commit(s)
      BY <2>11, CommitStep
    <2>12. QED
      BY <1>1, <2>1, <2>2, <2>3, <2>4, <2>5, <2>6, <2>7, <2>8, <2>9, <2>10, <2>11 DEF Step
  <1>2. ASSUME NEW s \in Sessions, StatementAborts(s) PROVE IInv'
    BY <1>2, AbortStep DEF StatementAborts
  <1>3. CASE DeadlockDetected
    <2>1. PICK C \in SUBSET Sessions : Deadlocked(C) /\ \E s \in C : Abort(s)
      BY <1>3 DEF DeadlockDetected
    <2>2. PICK s \in C : Abort(s)
      BY <2>1
    <2>3. work[s] # Idle
      BY <2>1, <2>2 DEF Deadlocked, WaitsFor
    <2>4. QED
      BY <2>2, <2>3, AbortStep
  <1>4. CASE UNCHANGED vars
    <2>1. UNCHANGED <<store, catalog, inStep, work, written, gone, todo, at>>
      BY <1>4 DEF vars, mine
    <2>2. TypeOK'
      BY <2>1 DEF IInv, TypeOK
    <2>3. \A s \in Sessions : Local(s)'
      BY <2>1 DEF IInv, Local, StatementShape, FindsImports, OwnsRows, HoldsTuple, View, Present
    <2>4. OneHoldsTuple' /\ Registered'
      BY <2>1 DEF IInv, OneHoldsTuple, Registered, HoldsTuple, Present
    <2>5. QED
      BY <2>2, <2>3, <2>4 DEF IInv
  <1>5. QED
    BY <1>1, <1>2, <1>3, <1>4, BeginStep DEF Next

\* The invariant the other theorems rest on: who may change which rows, and
\* what a statement has done with is there.
THEOREM Inductive == Spec => []IInv
  BY InitIInv, NextIInv, PTL DEF Spec

\* The variables have their types.
THEOREM TypeCorrect == Spec => []TypeOK
  <1>1. IInv => TypeOK
    BY DEF IInv
  <1>2. QED
    BY <1>1, Inductive, PTL

\* A DO block, or a call of a function that was not altered since its last
\* CREATE, finds its modules unless a commit has disturbed it:
\* load_module_source of the loader does not say "module not cached".
THEOREM UndisturbedFind == Spec => []UndisturbedFindEverything
  <1>1. IInv => UndisturbedFindEverything
    BY DEF IInv, Local, StatementShape, FindsImports, UndisturbedFindEverything, FindsEverything,
           InPhase
  <1>2. QED
    BY <1>1, Inductive, PTL

\* CREATE FUNCTION finds what it has prefetched: nothing disturbs it once it
\* has changed the pg_proc row, and before that it loads nothing.
THEOREM CreateFinds == Spec => []CreateFindsEverything
  <1>1. IInv => CreateFindsEverything
    BY DEF IInv, Local, StatementShape, FindsImports, OwnsRows, HoldsTuple, CreateFindsEverything,
           FindsEverything, InPhase, Ddl
  <1>2. QED
    BY <1>1, Inductive, PTL

\* The DELETE of the prefetch and of the clean-up, and the INSERT of
\* insert_module, never put functions in a deadlock: who waits, waits for the
\* session that holds the pg_proc row, and that one waits for nobody.
THEOREM FunctionsDoNotDeadlock == Spec => []OnlyDoBlocksDeadlock
  <1>1. ASSUME IInv, NEW s \in Sessions, NEW t \in Sessions, WaitsFor(s, t), work[s].kind # "do"
        PROVE  /\ t # s /\ work[s] # Idle /\ work[t] # Idle /\ work[t].owner = work[s].owner
               /\ work[t].kind # "do" /\ HoldsTuple(t)
               /\ HoldsTuple(s) \/ work[s].phase = "tuple"
    <2>1. t # s /\ work[s] # Idle /\ work[t] # Idle /\ work[t].owner = work[s].owner
      BY <1>1 DEF WaitsFor, Rivals
    <2>2. StatementShape(s) /\ StatementShape(t) /\ work[s] \in Statements /\ work[t] \in Statements
      BY <1>1, <2>1 DEF IInv, Local, TypeOK
    <2>3. work[t].kind # "do" /\ work[s].kind \in Ddl
      <3>1. /\ work[s].kind = "do" <=> work[s].owner = DoBlock
            /\ work[t].kind = "do" <=> work[t].owner = DoBlock
            /\ work[s].kind = "call" => work[s].phase \in {"catalog", "load"}
        BY <2>2 DEF StatementShape
      <3>2. work[s].phase \in {"tuple", "clear", "write"}
        BY <1>1 DEF WaitsFor
      <3>3. work[s].kind \in Ddl \cup {"do", "call"}
        BY <2>2 DEF Statements
      <3>4. QED
        BY <1>1, <2>1, <3>1, <3>2, <3>3
    <2>4. CASE HoldsTuple(t)
      BY <2>1, <2>3, <2>4 DEF HoldsTuple
    <2>5. CASE at[s] # Absent /\ HoldsRow(t, at[s])
      <3>1. at[s] \in Urls
        BY <1>1, <2>5 DEF IInv, TypeOK
      <3>2. ~(written[t] = NoRows /\ gone[t] = {})
        BY <2>5, <3>1 DEF HoldsRow, NoRows
      <3>3. QED
        BY <2>1, <2>2, <2>3, <3>2 DEF StatementShape, HoldsTuple, Statements, Ddl
    <2>6. QED
      BY <1>1, <2>4, <2>5 DEF WaitsFor
  <1>2. IInv => OnlyDoBlocksDeadlock
    <2> SUFFICES ASSUME IInv, NEW C \in SUBSET Sessions, Deadlocked(C), NEW s \in C,
                        work[s].kind # "do"
                 PROVE  FALSE
      BY DEF OnlyDoBlocksDeadlock
    <2>1. PICK t \in C : WaitsFor(s, t)
      BY DEF Deadlocked
    <2>2. /\ work[s] # Idle /\ work[t] # Idle /\ t # s
          /\ HoldsTuple(t) /\ work[t].kind # "do"
      BY <1>1, <2>1
    <2>3. PICK u \in C : WaitsFor(t, u)
      BY DEF Deadlocked
    <2>4. /\ u # t /\ work[u] # Idle /\ work[u].owner = work[t].owner /\ HoldsTuple(u)
      BY <1>1, <2>2, <2>3
    <2>5. QED
      BY <2>2, <2>4 DEF IInv, OneHoldsTuple
  <1>3. QED
    BY <1>2, Inductive, PTL

-----------------------------------------------------------------------------
\* What a commit does to the registry.
LEMMA CommitRefines ==
  ASSUME IInv, NEW s \in Sessions, Commit(s)
  PROVE  Registry!Next \/ UNCHANGED <<catalog, store, inStep>>
  <1> DEFINE owner == work[s].owner
             kind  == work[s].kind
  <1>1. work[s] # Idle /\ work[s] \in Statements /\ Local(s)
    BY DEF Commit, InPhase, IInv, TypeOK
  <1>2. /\ kind \in Ddl \cup {"do", "call"} /\ (kind = "do" <=> owner = DoBlock)
        /\ kind # "do" => owner \in Oids
    BY <1>1 DEF Local, StatementShape, Statements, Owners
  <1>3. View(s) \in [Urls -> Sources \cup {Absent}]
    BY <1>1, ViewIsRows DEF Rows
  <1>4. /\ kind # "call" => store' = [store EXCEPT ![owner] = View(s)]
        /\ Publish(kind, owner, work[s].imports)
        /\ work[s].imports \in SUBSET Urls
    BY <1>1, ImportsAreUrls DEF Commit, Statements
  <1>5. CASE kind = "call"
    BY <1>4, <1>5 DEF Commit, Publish
  <1>6. CASE kind = "do"
    BY <1>2, <1>3, <1>4, <1>6 DEF Publish, Registry!Next, Registry!DoBlockLeaves, Registry!Kept
  <1>7. CASE kind = "drop"
    <2>1. View(s) = NoRows
      BY <1>7, DropLeavesNothing, <1>1 DEF Commit, Local, StatementShape, InPhase
    <2>2. Registry!Remove(owner)
      BY <1>4, <1>7, <2>1 DEF Publish, Registry!Remove, Registry!NoModules, NoRows
    <2>3. QED
      BY <1>2, <1>7, <2>2 DEF Registry!Next
  <1>8. CASE kind = "create"
    <2>1. InPhase(s, "load")
      BY <1>1, <1>8 DEF Commit, Local, StatementShape, InPhase
    <2>2. /\ work[s].imports # {} => {u \in Urls : View(s)[u] # Absent} = work[s].imports
          /\ work[s].imports = {} => View(s) = store[owner]
      BY <1>8, <2>1, CreateLeavesItsImports DEF Present
    <2>3. /\ catalog' = [catalog EXCEPT ![owner] = work[s].imports]
          /\ inStep' = inStep \cup {owner}
          /\ store' = [store EXCEPT ![owner] = View(s)]
      BY <1>4, <1>8 DEF Publish
    <2>4. Registry!Publish(owner)
      BY <1>3, <1>4, <2>2, <2>3 DEF Registry!Publish, Registry!Kept
    <2>5. QED
      BY <1>2, <1>8, <2>4 DEF Registry!Next
  <1>9. CASE kind \in {"alter", "dropElsewhere"}
    <2>1. InPhase(s, "changed")
      BY <1>1, <1>9 DEF Commit, Local, StatementShape, InPhase
    <2>2. store' = store
      BY <1>4, <1>9, <2>1, AlterLeavesTheRows DEF IInv, TypeOK
    <2>3. catalog[owner] # Absent
      <3>1. HoldsTuple(s)
        BY <1>9, <2>1 DEF HoldsTuple, Ddl, InPhase
      <3>2. QED
        BY <1>1, <1>9, <3>1 DEF Local, OwnsRows, FindsImports
    <2>4. /\ \E needs \in {Absent} \cup SUBSET Urls : catalog' = [catalog EXCEPT ![owner] = needs]
          /\ inStep' = inStep \ {owner}
      BY <1>4, <1>9 DEF Publish
    <2>5. Registry!FallBehind(owner)
      BY <2>2, <2>3, <2>4 DEF Registry!FallBehind
    <2>6. QED
      BY <1>2, <1>9, <2>5 DEF Registry!Next
  <1>10. QED
    BY <1>2, <1>5, <1>6, <1>7, <1>8, <1>9 DEF Ddl

\* Whatever the sessions do at the same time, the rows under the oid of a
\* function change only when it is created, replaced or dropped, to what it
\* imports then or to nothing; ALTER FUNCTION and drops that the trigger does
\* not see change the function alone.
THEOREM Implements == Spec => ImplementsRegistry
  <1>1. Init => Registry!Init
    BY DEF Init, Registry!Init, Registry!NoModules, NoRows, Owners
  <1>2. IInv /\ [Next]_vars => [Registry!Next]_<<catalog, store, inStep>>
    <2> SUFFICES ASSUME IInv, [Next]_vars
                 PROVE  Registry!Next \/ UNCHANGED <<catalog, store, inStep>>
      OBVIOUS
    <2>1. ASSUME NEW s \in Sessions, Step(s), ~Commit(s)
          PROVE  UNCHANGED <<catalog, store, inStep>>
      BY <2>1 DEF Step, ReadCatalog, ChangeTuple, TupleConcurrentlyUpdated, DeleteRow, FoundInStore,
                  MissingInStore, LoadModule, ModuleNotCached, DeleteWaits, Cleared, WriteRow,
                  GraphValid, Abort
    <2>2. ASSUME NEW s \in Sessions,
                 \/ CreateFunction(s) \/ AlterImportMap(s) \/ DropFunction(s) \/ DropElsewhere(s)
                 \/ InlineHandler(s) \/ CallHandler(s) \/ StatementAborts(s)
          PROVE  UNCHANGED <<catalog, store, inStep>>
      BY <2>2 DEF CreateFunction, AlterImportMap, DropFunction, DropElsewhere, InlineHandler,
                  CallHandler, Begin, StatementAborts, Abort
    <2>3. CASE DeadlockDetected
      BY <2>3 DEF DeadlockDetected, Abort
    <2>4. CASE UNCHANGED vars
      BY <2>4 DEF vars
    <2>5. QED
      BY <2>1, <2>2, <2>3, <2>4, CommitRefines DEF Next
  <1>3. QED
    BY <1>1, <1>2, Inductive, PTL DEF Spec, ImplementsRegistry, Registry!Spec

\* The contract is enough to say that a function has exactly the rows of its
\* imports, and an oid without a function has none, when CREATE FUNCTION or
\* DROP FUNCTION was the last to change its pg_proc row.
THEOREM FunctionsAreComplete == Spec => []FunctionsHaveTheirModules
  <1>1. Registry!Init => FunctionsHaveTheirModules
    BY DEF Registry!Init, Registry!NoModules, FunctionsHaveTheirModules, NoRows
  <1> DEFINE Complete(oid) ==
               /\ catalog[oid] = Absent => store[oid] = NoRows
               /\ catalog[oid] \notin {Absent, {}} => Present(store[oid]) = catalog[oid]
  <1>2. FunctionsHaveTheirModules /\ [Registry!Next]_<<catalog, store, inStep>> /\ TypeOK
          => FunctionsHaveTheirModules'
    <2> SUFFICES ASSUME FunctionsHaveTheirModules, TypeOK,
                        Registry!Next \/ UNCHANGED <<catalog, store, inStep>>, NEW oid \in inStep'
                 PROVE  Complete(oid)'
      BY DEF FunctionsHaveTheirModules
    <2>1. oid \in inStep => Complete(oid)
      BY DEF FunctionsHaveTheirModules
    <2>2. /\ DOMAIN catalog = Oids /\ DOMAIN store = Oids \cup {DoBlock} /\ DoBlock \notin Oids
          /\ inStep \subseteq Oids
      BY SessionsAssumption DEF TypeOK, Owners, SessionsAssumption
    <2>3. ASSUME NEW o \in Oids, Registry!Publish(o) PROVE Complete(oid)'
      <3>1. PICK needs \in SUBSET Urls, row \in [Urls -> Sources \cup {Absent}] :
              /\ needs # {} => {u \in Urls : row[u] # Absent} = needs
              /\ needs = {} => row = store[o]
              /\ catalog' = [catalog EXCEPT ![o] = needs]
              /\ store' = [store EXCEPT ![o] = row]
              /\ inStep' = inStep \cup {o}
        BY <2>3 DEF Registry!Publish, Registry!Kept
      <3>2. CASE o = oid
        <4>1. catalog'[oid] = needs /\ store'[oid] = row
          BY <3>1, <3>2, <2>2
        <4>2. needs # Absent
          BY SessionsAssumption DEF SessionsAssumption
        <4>3. needs # {} => Present(row) = needs
          BY <3>1 DEF Present
        <4>4. QED
          BY <4>1, <4>2, <4>3 DEF Present
      <3>3. CASE o # oid
        <4>1. catalog'[oid] = catalog[oid] /\ store'[oid] = store[oid] /\ oid \in inStep
          BY <3>1, <3>3, <2>2
        <4>2. QED
          BY <4>1, <2>1 DEF Present
      <3>4. QED
        BY <3>2, <3>3
    <2>4. ASSUME NEW o \in Oids, Registry!Remove(o) PROVE Complete(oid)'
      <3>1. CASE o = oid
        BY <2>2, <2>4, <3>1 DEF Registry!Remove, Registry!NoModules, NoRows
      <3>2. CASE o # oid
        <4>1. catalog'[oid] = catalog[oid] /\ store'[oid] = store[oid] /\ oid \in inStep
          BY <2>2, <2>4, <3>2 DEF Registry!Remove
        <4>2. QED
          BY <4>1, <2>1 DEF Present
      <3>3. QED
        BY <3>1, <3>2
    <2>5. ASSUME NEW o \in Oids, Registry!FallBehind(o) PROVE Complete(oid)'
      <3>1. o # oid /\ oid \in inStep
        BY <2>5 DEF Registry!FallBehind
      <3>2. catalog'[oid] = catalog[oid] /\ store'[oid] = store[oid]
        BY <2>2, <2>5, <3>1 DEF Registry!FallBehind
      <3>3. QED
        BY <2>1, <3>1, <3>2 DEF Present
    <2>6. CASE Registry!DoBlockLeaves
      <3>1. catalog'[oid] = catalog[oid] /\ store'[oid] = store[oid] /\ oid \in inStep
        BY <2>2, <2>6 DEF Registry!DoBlockLeaves
      <3>2. QED
        BY <2>1, <3>1 DEF Present
    <2>7. CASE UNCHANGED <<catalog, store, inStep>>
      BY <2>1, <2>7 DEF Present
    <2>8. QED
      BY <2>3, <2>4, <2>5, <2>6, <2>7 DEF Registry!Next
  <1>3. QED
    BY <1>1, <1>2, TypeCorrect, Implements, PTL DEF ImplementsRegistry, Registry!Spec
=============================================================================
