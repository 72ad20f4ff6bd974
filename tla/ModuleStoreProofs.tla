------------------------- MODULE ModuleStoreProofs -------------------------
(***************************************************************************)
(* Proofs about ModuleStore, for any modules, names, sources and caps.     *)
(*                                                                         *)
(* The heart of them is the walk: as long as nothing failed, a module the  *)
(* walk is done with is there and everything it imports has been asked     *)
(* for.  So when nothing is pending the modules asked for are closed under *)
(* imports, and a second walk from the same import map over the same rows, *)
(* the loader's, cannot leave that set.                                    *)
(***************************************************************************)
EXTENDS ModuleStore, TLAPS

\* What a statement in progress has to do with the committed state.
StatementShape ==
  /\ statement = Idle => rows = store /\ pending = {} /\ seen = {} /\ ~failed
  /\ statement # Idle =>
       /\ statement.kind = "do" <=> statement.oid = DoBlock
       /\ statement.kind = "call" =>
            /\ statement.phase = "load"
            /\ statement.map = catalog[statement.oid]
            /\ rows = store

WalkIsSound ==
  statement # Idle =>
    /\ pending \subseteq seen
    /\ Roots(statement.map) \subseteq seen
    /\ ~failed =>
         \A u \in seen \ pending :
           /\ Row(u) # Absent
           /\ \A i \in ImportsOf[Row(u)] : Resolve(statement.map, i) \in seen

\* Statements whose modules a prefetch has walked, now or earlier.
Prefetched == statement.kind = "call" => vetted[statement.oid]

LoadStaysInside ==
  InPhase("load") /\ Prefetched =>
    /\ ~failed
    /\ \E modules \in SUBSET Urls :
         Closed(statement.map, rows[statement.oid], modules) /\ seen \subseteq modules

IInv ==
  /\ TypeOK
  /\ StatementShape
  /\ OtherRowsUntouched
  /\ PrefetchWithinCap
  /\ PrefetchIsFresh
  /\ WalkIsSound
  /\ VettedIsRunnable
  /\ LoadStaysInside

-----------------------------------------------------------------------------
\* The URLs of an import map.
LEMMA RootsAreUrls ==
  ASSUME NEW map \in ImportMaps PROVE Roots(map) \subseteq Urls
BY DEF Roots, ImportMaps

\* What the imports of a module resolve to: a URL or nothing.
LEMMA ResolveType ==
  ASSUME NEW map \in ImportMaps, NEW s \in Sources, NEW i \in ImportsOf[s]
  PROVE  Resolve(map, i) \in Urls \cup {Absent}
BY ModuleStoreAssumption DEF Resolve, ImportMaps

\* A statement in progress has the fields of one.
LEMMA StatementType ==
  ASSUME TypeOK, statement # Idle
  PROVE  /\ statement \in Statements
         /\ statement.kind \in Kinds
         /\ statement.oid \in Owners
         /\ statement.map \in ImportMaps
         /\ statement.cap \in SUBSET Urls
         /\ statement.phase \in {"prefetch", "load"}
         /\ rows[statement.oid] \in Rows
         /\ store[statement.oid] \in Rows
BY DEF TypeOK, Statements

\* What Discover does to a walk over the rows `row`.
LEMMA DiscoverIsSound ==
  ASSUME TypeOK, statement # Idle, WalkIsSound,
         NEW u \in pending, NEW source \in Sources, Discover(u, source)
  PROVE  /\ pending' \in SUBSET Urls
         /\ seen' \in SUBSET Urls
         /\ failed' \in BOOLEAN
         /\ seen \subseteq seen'
         /\ pending' \subseteq seen'
         /\ seen' \ pending' = (seen \ pending) \cup {u}
         /\ failed => failed'
         /\ ~failed' =>
              \A i \in ImportsOf[source] : Resolve(statement.map, i) \in seen'
<1> DEFINE targets == {Resolve(statement.map, i) : i \in ImportsOf[source]}
           new     == targets \ (seen \cup {Absent})
<1>1. targets \subseteq Urls \cup {Absent}
  BY StatementType, ResolveType
<1>2. /\ pending' = (pending \ {u}) \cup new
      /\ seen' = seen \cup new
      /\ failed' = (failed \/ Absent \in targets)
  BY DEF Discover
<1>3. pending \subseteq seen /\ pending \subseteq Urls /\ seen \subseteq Urls /\ failed \in BOOLEAN
  BY DEF WalkIsSound, TypeOK
<1>4. new \subseteq Urls /\ new \cap seen = {}
  BY <1>1
<1>5. targets \subseteq new \cup seen \cup {Absent}
  OBVIOUS
<1>6. ~failed' => \A i \in ImportsOf[source] : Resolve(statement.map, i) \in seen'
  BY <1>2, <1>5
<1> HIDE DEF targets, new
<1> QED BY <1>2, <1>3, <1>4, <1>6

\* A walk with nothing pending and nothing failed has closed over imports.
LEMMA WalkCloses ==
  ASSUME TypeOK, statement # Idle, WalkIsSound, pending = {}, ~failed
  PROVE  Closed(statement.map, rows[statement.oid], seen)
BY DEF WalkIsSound, Closed, Row

-----------------------------------------------------------------------------
\* Nothing is running, nothing is stored.
LEMMA InitEstablishes == Init => IInv
<1> SUFFICES ASSUME Init PROVE IInv
  OBVIOUS
<1> USE ModuleStoreAssumption
<1>1. TypeOK
  BY DEF Init, TypeOK, Rows, ImportMaps, Owners
<1>2. VettedIsRunnable
  <2> SUFFICES ASSUME NEW oid \in Oids PROVE Runnable(catalog[oid], store[oid])
    BY DEF VettedIsRunnable
  <2>1. Closed(catalog[oid], store[oid], {})
    BY DEF Init, Closed, Roots
  <2> QED BY <2>1 DEF Runnable
<1> QED
  BY <1>1, <1>2
  DEF Init, IInv, StatementShape, OtherRowsUntouched, PrefetchWithinCap, PrefetchIsFresh, WalkIsSound,
      LoadStaysInside, InPhase

\* A statement that fails, wherever, leaves the committed state.
LEMMA AbortPreserves ==
  ASSUME IInv, Abort PROVE IInv'
<1>1. TypeOK'
  BY DEF IInv, TypeOK, Abort, committed
<1>2. VettedIsRunnable'
  BY DEF IInv, VettedIsRunnable, Abort, committed
<1> QED
  BY <1>1, <1>2
  DEF IInv, Abort, committed, StatementShape, OtherRowsUntouched, PrefetchWithinCap, PrefetchIsFresh,
      WalkIsSound, LoadStaysInside, InPhase

\* What all beginnings have in common.
LEMMA BeginShape ==
  ASSUME IInv, NEW kind \in Kinds, NEW oid \in Owners, NEW map \in ImportMaps,
         NEW phase \in {"prefetch", "load"}, Begin(kind, oid, map, phase),
         rows' \in [Owners -> Rows]
  PROVE  /\ TypeOK'
         /\ statement' # Idle
         /\ statement'.kind = kind /\ statement'.oid = oid
         /\ statement'.map = map /\ statement'.phase = phase
         /\ rows = store
         /\ WalkIsSound'
         /\ VettedIsRunnable'
<1> USE ModuleStoreAssumption
<1>1. PICK cap \in Caps :
        /\ Roots(map) \subseteq cap
        /\ statement' = [kind |-> kind, oid |-> oid, map |-> map, cap |-> cap, phase |-> phase]
  BY DEF Begin
<1>2. statement' \in Statements
  BY <1>1 DEF Statements
<1>3. /\ pending' = Roots(map) /\ seen' = Roots(map) /\ failed' = FALSE
      /\ statement = Idle /\ UNCHANGED <<web, committed>>
  BY DEF Begin, StartWalk
<1>4. TypeOK'
  BY <1>2, <1>3, RootsAreUrls DEF IInv, TypeOK, committed
<1>5. statement' # Idle
  BY <1>2
<1>6. WalkIsSound'
  BY <1>1, <1>3 DEF WalkIsSound
<1>7. VettedIsRunnable'
  BY <1>3 DEF IInv, VettedIsRunnable, committed
<1> QED
  BY <1>1, <1>3, <1>4, <1>5, <1>6, <1>7 DEF IInv, StatementShape

\* CREATE FUNCTION and DO begin, with or without a prefetch.
LEMMA BeginPrefetchingPreserves ==
  ASSUME IInv, NEW kind \in {"create", "do"}, NEW oid \in Owners, NEW map \in ImportMaps,
         kind = "do" <=> oid = DoBlock,
         BeginPrefetching(kind, oid, map)
  PROVE  IInv'
<1>1. kind \in Kinds
  BY DEF Kinds
<1>2. store' = store /\ store \in [Owners -> Rows] /\ rows = store
  <2>1. Begin(kind, oid, map, "prefetch") \/ Begin(kind, oid, map, "load")
    BY DEF BeginPrefetching
  <2> QED BY <2>1 DEF Begin, committed, IInv, TypeOK, StatementShape
<1>3. CASE Begin(kind, oid, map, "prefetch") /\ ClearForFn(oid)
  <2>1. rows' = [store EXCEPT ![oid] = [u \in Urls |-> Absent]]
    BY <1>3 DEF ClearForFn
  <2>2. [u \in Urls |-> Absent] \in Rows
    BY DEF Rows
  <2>3. rows' \in [Owners -> Rows]
    BY <1>2, <2>1, <2>2
  <2>4. /\ \A o \in Owners \ {oid} : rows'[o] = store[o]
        /\ \A u \in Urls : rows'[oid][u] = Absent
    BY <1>2, <2>1
  <2>5. /\ TypeOK' /\ statement' # Idle
        /\ statement'.kind = kind /\ statement'.oid = oid
        /\ statement'.phase = "prefetch"
        /\ WalkIsSound' /\ VettedIsRunnable'
    BY <1>1, <1>3, <2>3, BeginShape
  <2>6. OtherRowsUntouched'
    BY <1>2, <2>4, <2>5 DEF OtherRowsUntouched
  <2>7. PrefetchWithinCap' /\ PrefetchIsFresh'
    BY <2>4, <2>5 DEF PrefetchWithinCap, PrefetchIsFresh, Row
  <2>8. StatementShape'
    BY <2>5 DEF StatementShape
  <2>9. LoadStaysInside'
    BY <2>5 DEF LoadStaysInside, InPhase
  <2> QED BY <2>5, <2>6, <2>7, <2>8, <2>9 DEF IInv
<1>4. CASE Roots(map) = {} /\ Begin(kind, oid, map, "load") /\ rows' = store
  <2>1. /\ TypeOK' /\ statement' # Idle
        /\ statement'.kind = kind /\ statement'.oid = oid
        /\ statement'.map = map /\ statement'.phase = "load"
        /\ WalkIsSound' /\ VettedIsRunnable'
    BY <1>1, <1>2, <1>4, BeginShape
  <2>2. Closed(map, rows'[oid], {})
    BY <1>4 DEF Closed
  <2>3. seen' = {} /\ failed' = FALSE
    BY <1>4 DEF Begin, StartWalk
  <2>4. LoadStaysInside'
    BY <2>1, <2>2, <2>3 DEF LoadStaysInside
  <2>5. OtherRowsUntouched' /\ PrefetchWithinCap' /\ PrefetchIsFresh'
    BY <1>2, <1>4, <2>1 DEF OtherRowsUntouched, PrefetchWithinCap, PrefetchIsFresh, InPhase, Row
  <2>6. StatementShape'
    BY <2>1 DEF StatementShape
  <2> QED BY <2>1, <2>4, <2>5, <2>6 DEF IInv
<1> QED BY <1>3, <1>4 DEF BeginPrefetching

\* A call begins, over the committed rows.
LEMMA CallPreserves ==
  ASSUME IInv, CallHandler PROVE IInv'
<1>1. PICK oid \in Oids : Begin("call", oid, catalog[oid], "load") /\ rows' = store
  BY DEF CallHandler
<1>2. oid \in Owners /\ oid # DoBlock /\ "call" \in Kinds
  BY ModuleStoreAssumption DEF Owners, Kinds
<1>3. catalog[oid] \in ImportMaps /\ store \in [Owners -> Rows]
  BY DEF IInv, TypeOK
<1>4. /\ TypeOK' /\ statement' # Idle
      /\ statement'.kind = "call" /\ statement'.oid = oid
      /\ statement'.map = catalog[oid] /\ statement'.phase = "load"
      /\ WalkIsSound' /\ VettedIsRunnable'
  BY <1>1, <1>2, <1>3, BeginShape
<1>5. /\ store' = store /\ catalog' = catalog /\ vetted' = vetted
      /\ seen' = Roots(catalog[oid]) /\ failed' = FALSE
  BY <1>1 DEF Begin, StartWalk, committed
<1>6. OtherRowsUntouched' /\ PrefetchWithinCap' /\ PrefetchIsFresh'
  BY <1>1, <1>4, <1>5
  DEF OtherRowsUntouched, PrefetchWithinCap, PrefetchIsFresh, InPhase, Row
<1>7. StatementShape'
  BY <1>1, <1>2, <1>4, <1>5 DEF StatementShape
<1>8. LoadStaysInside'
  <2> SUFFICES ASSUME vetted[oid]
               PROVE  \E modules \in SUBSET Urls :
                        Closed(catalog[oid], store[oid], modules)
                        /\ Roots(catalog[oid]) \subseteq modules
    BY <1>1, <1>4, <1>5 DEF LoadStaysInside, Prefetched
  <2>1. Runnable(catalog[oid], store[oid])
    BY DEF IInv, VettedIsRunnable
  <2> QED BY <2>1 DEF Runnable, Closed
<1> QED BY <1>4, <1>6, <1>7, <1>8 DEF IInv

\* A walk goes on past a module max_imports rejects.
LEMMA RejectedPreserves ==
  ASSUME IInv, NEW u \in Urls, PrefetchRejected(u) PROVE IInv'
<1>1. /\ UNCHANGED <<web, store, catalog, vetted, statement, rows, seen>>
      /\ pending' = pending \ {u} /\ failed' = TRUE
      /\ statement # Idle /\ statement.phase = "prefetch"
  BY DEF PrefetchRejected, InPhase, committed
<1>2. TypeOK'
  BY <1>1 DEF IInv, TypeOK
<1>3. WalkIsSound'
  BY <1>1 DEF IInv, WalkIsSound
<1>4. /\ StatementShape' /\ OtherRowsUntouched' /\ VettedIsRunnable'
      /\ PrefetchWithinCap' /\ PrefetchIsFresh'
  BY <1>1
  DEF IInv, StatementShape, OtherRowsUntouched, PrefetchWithinCap, PrefetchIsFresh, InPhase,
      VettedIsRunnable, Row
<1>5. LoadStaysInside'
  BY <1>1 DEF LoadStaysInside, InPhase
<1> QED BY <1>2, <1>3, <1>4, <1>5 DEF IInv

\* A module is found or fetched, within the cap, and its imports asked for.
LEMMA PrefetchModulePreserves ==
  ASSUME IInv, NEW u \in Urls, PrefetchModule(u) PROVE IInv'
<1> DEFINE oid == statement.oid
<1>1. /\ UNCHANGED <<web, store, catalog, vetted, statement>>
      /\ statement # Idle /\ statement.phase = "prefetch"
      /\ u \in pending /\ u \in statement.cap
      /\ Fetched(u) # Absent
      /\ rows' = [rows EXCEPT ![oid][u] = Fetched(u)]
      /\ Discover(u, Fetched(u))
  BY DEF PrefetchModule, InPhase, committed
<1>2. TypeOK /\ WalkIsSound
  BY DEF IInv
<1>3. oid \in Owners /\ rows[oid] \in Rows /\ rows \in [Owners -> Rows]
  BY <1>1, <1>2, StatementType DEF TypeOK
<1>4. Fetched(u) \in Sources
  BY <1>1, <1>2, <1>3 DEF Fetched, Row, TypeOK, Rows
<1>5. /\ rows' \in [Owners -> Rows]
      /\ rows'[oid][u] = Fetched(u)
      /\ \A v \in Urls \ {u} : rows'[oid][v] = rows[oid][v]
      /\ \A o \in Owners \ {oid} : rows'[o] = rows[o]
  BY <1>1, <1>3, <1>4 DEF Rows
<1>6. /\ pending' \in SUBSET Urls /\ seen' \in SUBSET Urls /\ failed' \in BOOLEAN
      /\ seen \subseteq seen' /\ pending' \subseteq seen'
      /\ seen' \ pending' = (seen \ pending) \cup {u}
      /\ failed => failed'
      /\ ~failed' => \A i \in ImportsOf[Fetched(u)] : Resolve(statement.map, i) \in seen'
  BY <1>1, <1>2, <1>4, DiscoverIsSound
<1>7. TypeOK'
  BY <1>1, <1>2, <1>5, <1>6 DEF TypeOK
<1>8. WalkIsSound'
  <2>1. Roots(statement.map) \subseteq seen'
    BY <1>1, <1>2, <1>6 DEF WalkIsSound
  <2>2. ASSUME ~failed', NEW v \in seen' \ pending'
        PROVE  /\ rows'[oid][v] # Absent
               /\ \A i \in ImportsOf[rows'[oid][v]] : Resolve(statement.map, i) \in seen'
    <3>1. CASE v = u
      BY <1>1, <1>5, <1>6, <2>2, <3>1
    <3>2. CASE v # u
      <4>1. v \in seen \ pending /\ v \in Urls /\ ~failed
        BY <1>6, <2>2, <3>2
      <4>2. rows[oid][v] # Absent /\ \A i \in ImportsOf[rows[oid][v]] : Resolve(statement.map, i) \in seen
        BY <1>1, <1>2, <4>1 DEF WalkIsSound, Row
      <4> QED BY <1>5, <1>6, <3>2, <4>1, <4>2
    <3> QED BY <3>1, <3>2
  <2> QED BY <1>1, <1>6, <2>1, <2>2 DEF WalkIsSound, Row
<1>9. OtherRowsUntouched' /\ VettedIsRunnable'
  BY <1>1, <1>5 DEF IInv, OtherRowsUntouched, VettedIsRunnable
<1>10. PrefetchWithinCap' /\ PrefetchIsFresh'
  <2>1. PrefetchWithinCap'
    BY <1>1, <1>5 DEF IInv, PrefetchWithinCap, Row
  <2>2. ASSUME NEW v \in Urls, rows'[oid][v] # Absent PROVE v \in seen' \ pending'
    BY <1>1, <1>5, <1>6, <2>2 DEF IInv, PrefetchIsFresh, InPhase, Row
  <2> QED BY <1>1, <2>1, <2>2 DEF PrefetchIsFresh, Row
<1>11. StatementShape'
  BY <1>1 DEF IInv, StatementShape
<1>12. LoadStaysInside'
  BY <1>1 DEF LoadStaysInside, InPhase
<1> QED BY <1>7, <1>8, <1>9, <1>10, <1>11, <1>12 DEF IInv

\* The walk is over without an error: the loader starts from the same roots.
LEMMA GraphValidPreserves ==
  ASSUME IInv, GraphValid PROVE IInv'
<1>1. /\ UNCHANGED <<web, store, catalog, vetted, rows>>
      /\ statement # Idle /\ statement.phase = "prefetch"
      /\ pending = {} /\ ~failed
      /\ statement' = [statement EXCEPT !.phase = "load"]
      /\ pending' = Roots(statement.map) /\ seen' = Roots(statement.map) /\ failed' = FALSE
  BY DEF GraphValid, InPhase, StartWalk, committed
<1>2. statement \in Statements /\ statement.map \in ImportMaps
  BY <1>1, StatementType DEF IInv
<1>3. /\ statement' \in Statements
      /\ statement'.kind = statement.kind /\ statement'.oid = statement.oid
      /\ statement'.map = statement.map /\ statement'.cap = statement.cap
  BY <1>1, <1>2 DEF Statements
<1>4. statement' # Idle
  BY <1>3, ModuleStoreAssumption
<1>5. TypeOK'
  BY <1>1, <1>2, <1>3, RootsAreUrls DEF IInv, TypeOK
<1>6. WalkIsSound'
  BY <1>1, <1>3 DEF WalkIsSound
<1>7. Closed(statement.map, rows[statement.oid], seen) /\ seen \in SUBSET Urls
  BY <1>1, WalkCloses DEF IInv, TypeOK
<1>8. LoadStaysInside'
  BY <1>1, <1>3, <1>7 DEF LoadStaysInside, Closed
<1>9. OtherRowsUntouched' /\ PrefetchWithinCap' /\ PrefetchIsFresh' /\ VettedIsRunnable'
  <2>1. statement'.phase = "load"
    BY <1>1, <1>2 DEF Statements
  <2> QED
    BY <1>1, <1>3, <2>1
    DEF IInv, OtherRowsUntouched, PrefetchWithinCap, PrefetchIsFresh, InPhase, VettedIsRunnable, Row
<1>10. StatementShape'
  BY <1>1, <1>3, <1>4 DEF IInv, StatementShape
<1> QED BY <1>5, <1>6, <1>8, <1>9, <1>10 DEF IInv

\* The loader finds a module and asks for what it imports.
LEMMA LoadModulePreserves ==
  ASSUME IInv, NEW u \in Urls, LoadModule(u) PROVE IInv'
<1> DEFINE oid == statement.oid
<1>1. /\ UNCHANGED <<web, store, catalog, vetted, statement, rows>>
      /\ statement # Idle /\ statement.phase = "load"
      /\ u \in pending /\ Row(u) # Absent /\ Discover(u, Row(u))
  BY DEF LoadModule, InPhase, committed
<1>2. TypeOK /\ WalkIsSound
  BY DEF IInv
<1>3. Row(u) \in Sources /\ statement.map \in ImportMaps
  BY <1>1, <1>2, StatementType DEF Row, Rows
<1>4. /\ pending' \in SUBSET Urls /\ seen' \in SUBSET Urls /\ failed' \in BOOLEAN
      /\ seen \subseteq seen' /\ pending' \subseteq seen'
      /\ seen' \ pending' = (seen \ pending) \cup {u}
      /\ failed => failed'
      /\ ~failed' => \A i \in ImportsOf[Row(u)] : Resolve(statement.map, i) \in seen'
  BY <1>1, <1>2, <1>3, DiscoverIsSound
<1>5. TypeOK'
  BY <1>1, <1>2, <1>4 DEF TypeOK
<1>6. WalkIsSound'
  BY <1>1, <1>2, <1>4 DEF WalkIsSound, Row
<1>7. LoadStaysInside'
  <2> SUFFICES ASSUME Prefetched
               PROVE  /\ failed' = FALSE
                      /\ \E modules \in SUBSET Urls :
                           Closed(statement.map, rows[oid], modules) /\ seen' \subseteq modules
    BY <1>1 DEF LoadStaysInside, Prefetched
  <2>1. PICK modules \in SUBSET Urls :
          Closed(statement.map, rows[oid], modules) /\ seen \subseteq modules
    BY <1>1 DEF IInv, LoadStaysInside, InPhase
  <2>2. ~failed
    BY <1>1 DEF IInv, LoadStaysInside, InPhase
  <2>3. u \in modules
    BY <1>1, <1>2, <2>1 DEF WalkIsSound
  <2>4. \A i \in ImportsOf[Row(u)] : Resolve(statement.map, i) \in modules
    BY <2>1, <2>3 DEF Closed, Row
  <2>5. Absent \notin modules
    BY ModuleStoreAssumption
  <2>6. failed' = FALSE /\ seen' \subseteq modules
    BY <1>1, <2>1, <2>2, <2>4, <2>5 DEF Discover
  <2> QED BY <2>1, <2>6
<1>8. /\ StatementShape' /\ OtherRowsUntouched' /\ PrefetchWithinCap' /\ PrefetchIsFresh' /\ VettedIsRunnable'
  BY <1>1
  DEF IInv, StatementShape, OtherRowsUntouched, PrefetchWithinCap, PrefetchIsFresh, InPhase,
      VettedIsRunnable, Row
<1> QED BY <1>5, <1>6, <1>7, <1>8 DEF IInv

\* The statement commits: its rows and, for CREATE FUNCTION, its import map.
LEMMA CommitPreserves ==
  ASSUME IInv, Commit PROVE IInv'
<1> DEFINE oid == statement.oid
<1>1. /\ statement # Idle /\ statement.phase = "load"
      /\ store' = rows /\ rows' = rows /\ web' = web
      /\ statement' = Idle
      /\ pending' = {} /\ seen' = {} /\ failed' = FALSE
  BY DEF Commit, InPhase, StartWalk, Roots
<1>2. /\ oid \in Owners /\ statement.map \in ImportMaps
      /\ statement.kind \in Kinds
  BY <1>1, StatementType DEF IInv
<1>3. CASE statement.kind = "create"
  <2>1. /\ oid \in Oids
        /\ catalog' = [catalog EXCEPT ![oid] = statement.map]
        /\ vetted' = [vetted EXCEPT ![oid] = TRUE]
    BY <1>1, <1>2, <1>3 DEF Commit, IInv, StatementShape, Owners
  <2>2. TypeOK'
    BY <1>1, <1>2, <2>1 DEF IInv, TypeOK
  <2>3. Runnable(statement.map, rows[oid])
    BY <1>1, <1>3 DEF IInv, LoadStaysInside, InPhase, Prefetched, Runnable
  <2>4. ASSUME NEW o \in Oids, vetted'[o] PROVE Runnable(catalog'[o], store'[o])
    <3>1. CASE o = oid
      BY <1>1, <2>1, <2>3, <3>1 DEF IInv, TypeOK
    <3>2. CASE o # oid
      <4>1. vetted[o] /\ catalog'[o] = catalog[o] /\ rows[o] = store[o]
        BY <1>1, <2>1, <2>4, <3>2 DEF IInv, TypeOK, OtherRowsUntouched, Owners
      <4> QED BY <1>1, <4>1 DEF IInv, VettedIsRunnable
    <3> QED BY <3>1, <3>2
  <2> QED
    BY <1>1, <2>2, <2>4
    DEF IInv, StatementShape, OtherRowsUntouched, PrefetchWithinCap, PrefetchIsFresh, WalkIsSound,
        VettedIsRunnable, LoadStaysInside, InPhase
<1>4. CASE statement.kind # "create"
  <2>1. catalog' = catalog /\ vetted' = vetted
    BY <1>4 DEF Commit
  <2>2. TypeOK'
    BY <1>1, <2>1 DEF IInv, TypeOK
  <2>3. \A o \in Oids : rows[o] = store[o]
    BY <1>1, <1>2, <1>4, ModuleStoreAssumption
    DEF IInv, StatementShape, OtherRowsUntouched, Kinds, Owners
  <2>4. VettedIsRunnable'
    BY <1>1, <2>1, <2>3 DEF IInv, VettedIsRunnable
  <2> QED
    BY <1>1, <2>2, <2>4
    DEF IInv, StatementShape, OtherRowsUntouched, PrefetchWithinCap, PrefetchIsFresh, WalkIsSound,
        LoadStaysInside, InPhase
<1> QED BY <1>3, <1>4

\* The network, ALTER FUNCTION and the ways to drop a function.
LEMMA WorldPreserves ==
  ASSUME IInv, WebChanges \/ AlterImportMap \/ DropFunction \/ DropElsewhere PROVE IInv'
<1>1. CASE WebChanges
  <2>1. UNCHANGED <<store, catalog, vetted, statement, rows, pending, seen, failed>>
    BY <1>1 DEF WebChanges, committed, walk
  <2>2. web' \in Rows
    <3>1. PICK u \in Urls : \E s \in Served[u] : web' = [web EXCEPT ![u] = s]
      BY <1>1 DEF WebChanges
    <3>2. PICK s \in Served[u] : web' = [web EXCEPT ![u] = s]
      BY <3>1
    <3>3. s \in Sources \cup {Absent}
      BY <3>2, ModuleStoreAssumption
    <3> QED BY <3>2, <3>3 DEF IInv, TypeOK, Rows
  <2>3. TypeOK'
    BY <2>1, <2>2 DEF IInv, TypeOK
  <2> QED
    BY <2>1, <2>3
    DEF IInv, StatementShape, OtherRowsUntouched, PrefetchWithinCap, PrefetchIsFresh, WalkIsSound,
        VettedIsRunnable, LoadStaysInside, Prefetched, InPhase, Row
<1>2. CASE AlterImportMap
  <2>1. PICK oid \in Oids, map \in ImportMaps :
          /\ catalog' = [catalog EXCEPT ![oid] = map]
          /\ vetted' = [vetted EXCEPT ![oid] = FALSE]
    BY <1>2 DEF AlterImportMap
  <2>2. /\ statement = Idle
        /\ UNCHANGED <<web, store, statement, rows, pending, seen, failed>>
    BY <1>2 DEF AlterImportMap, walk
  <2>3. TypeOK'
    BY <2>1, <2>2 DEF IInv, TypeOK
  <2>4. VettedIsRunnable'
    BY <2>1, <2>2 DEF IInv, TypeOK, VettedIsRunnable
  <2> QED
    BY <2>2, <2>3, <2>4
    DEF IInv, StatementShape, OtherRowsUntouched, PrefetchWithinCap, PrefetchIsFresh, WalkIsSound,
        LoadStaysInside, InPhase
<1>3. CASE DropFunction
  <2>1. PICK oid \in Oids :
          /\ store' = [store EXCEPT ![oid] = [u \in Urls |-> Absent]]
          /\ catalog' = [catalog EXCEPT ![oid] = [n \in Names |-> Absent]]
          /\ vetted' = [vetted EXCEPT ![oid] = TRUE]
    BY <1>3 DEF DropFunction
  <2>2. /\ statement = Idle /\ rows' = store'
        /\ UNCHANGED <<web, statement, pending, seen, failed>>
    BY <1>3 DEF DropFunction, walk
  <2>3. oid \in Owners /\ [u \in Urls |-> Absent] \in Rows /\ [n \in Names |-> Absent] \in ImportMaps
    BY DEF Owners, Rows, ImportMaps
  <2>4. TypeOK'
    BY <2>1, <2>2, <2>3 DEF IInv, TypeOK
  <2>5. ASSUME NEW o \in Oids, vetted'[o] PROVE Runnable(catalog'[o], store'[o])
    <3>1. CASE o = oid
      <4>1. Roots(catalog'[o]) = {}
        BY <2>1, <3>1 DEF IInv, TypeOK, Roots
      <4>2. Closed(catalog'[o], store'[o], {})
        BY <4>1 DEF Closed
      <4> QED BY <4>2 DEF Runnable
    <3>2. CASE o # oid
      BY <2>1, <2>5, <3>2 DEF IInv, TypeOK, VettedIsRunnable, Owners
    <3> QED BY <3>1, <3>2
  <2> QED
    BY <2>2, <2>4, <2>5
    DEF IInv, StatementShape, OtherRowsUntouched, PrefetchWithinCap, PrefetchIsFresh, WalkIsSound,
        VettedIsRunnable, LoadStaysInside, InPhase
<1>4. CASE DropElsewhere
  <2>1. PICK oid \in Oids :
          /\ catalog' = [catalog EXCEPT ![oid] = [n \in Names |-> Absent]]
          /\ vetted' = [vetted EXCEPT ![oid] = TRUE]
    BY <1>4 DEF DropElsewhere
  <2>2. /\ statement = Idle
        /\ UNCHANGED <<web, store, statement, rows, pending, seen, failed>>
    BY <1>4 DEF DropElsewhere, walk
  <2>3. TypeOK'
    BY <2>1, <2>2 DEF IInv, TypeOK, ImportMaps
  <2>4. ASSUME NEW o \in Oids, vetted'[o] PROVE Runnable(catalog'[o], store'[o])
    <3>1. CASE o = oid
      <4>1. Roots(catalog'[o]) = {}
        BY <2>1, <3>1 DEF IInv, TypeOK, Roots
      <4>2. Closed(catalog'[o], store'[o], {})
        BY <4>1 DEF Closed
      <4> QED BY <4>2 DEF Runnable
    <3>2. CASE o # oid
      BY <2>1, <2>2, <2>4, <3>2 DEF IInv, TypeOK, VettedIsRunnable
    <3> QED BY <3>1, <3>2
  <2> QED
    BY <2>2, <2>3, <2>4
    DEF IInv, StatementShape, OtherRowsUntouched, PrefetchWithinCap, PrefetchIsFresh,
        WalkIsSound, VettedIsRunnable, LoadStaysInside, InPhase
<1> QED BY <1>1, <1>2, <1>3, <1>4

\* Every step keeps the invariant.
LEMMA NextPreserves ==
  ASSUME IInv, [Next]_vars PROVE IInv'
<1>1. CASE CreateFunction
  <2>1. PICK oid \in Oids, map \in ImportMaps : BeginPrefetching("create", oid, map)
    BY <1>1 DEF CreateFunction
  <2>2. oid \in Owners /\ oid # DoBlock
    BY ModuleStoreAssumption DEF Owners
  <2> QED BY <2>1, <2>2, BeginPrefetchingPreserves
<1>2. CASE InlineHandler
  <2>1. PICK map \in ImportMaps : BeginPrefetching("do", DoBlock, map)
    BY <1>2 DEF InlineHandler
  <2>2. DoBlock \in Owners
    BY DEF Owners
  <2> QED BY <2>1, <2>2, BeginPrefetchingPreserves
<1>3. CASE CallHandler
  BY <1>3, CallPreserves
<1>4. CASE Step
  <2>1. ASSUME NEW u \in Urls, PrefetchRejected(u) PROVE IInv'
    BY <2>1, RejectedPreserves
  <2>2. ASSUME NEW u \in Urls, PrefetchModule(u) PROVE IInv'
    BY <2>2, PrefetchModulePreserves
  <2>3. ASSUME NEW u \in Urls, FetchFails(u) \/ ModuleNotCached(u) PROVE IInv'
    BY <2>3, AbortPreserves DEF FetchFails, ModuleNotCached
  <2>4. ASSUME NEW u \in Urls, LoadModule(u) PROVE IInv'
    BY <2>4, LoadModulePreserves
  <2>5. CASE GraphInvalid \/ NotInImportMap
    BY <2>5, AbortPreserves DEF GraphInvalid, NotInImportMap
  <2> QED
    BY <1>4, <2>1, <2>2, <2>3, <2>4, <2>5, GraphValidPreserves, CommitPreserves DEF Step
<1>5. CASE StatementAborts
  BY <1>5, AbortPreserves DEF StatementAborts
<1>6. CASE WebChanges \/ AlterImportMap \/ DropFunction \/ DropElsewhere
  BY <1>6, WorldPreserves
<1>7. CASE UNCHANGED vars
  BY <1>7
  DEF vars, committed, walk, IInv, TypeOK, StatementShape, OtherRowsUntouched,
      PrefetchWithinCap, PrefetchIsFresh, WalkIsSound, VettedIsRunnable, LoadStaysInside, Prefetched,
      InPhase, Row
<1> QED BY <1>1, <1>2, <1>3, <1>4, <1>5, <1>6, <1>7 DEF Next

-----------------------------------------------------------------------------
\* The invariant the properties follow from holds in every behaviour.
THEOREM Inductive == Spec => []IInv
BY InitEstablishes, NextPreserves, PTL DEF Spec

\* Variables have their types.
THEOREM TypeCorrect == Spec => []TypeOK
<1>1. IInv => TypeOK
  BY DEF IInv
<1> QED BY <1>1, Inductive, PTL

\* What the validator accepted can be loaded from the rows it left, whatever
\* the network came to serve and whatever else was created or run.
THEOREM VettedRuns == Spec => []VettedIsRunnable
<1>1. IInv => VettedIsRunnable
  BY DEF IInv
<1> QED BY <1>1, Inductive, PTL

\* The loader never misses a module of a statement that was prefetched.
THEOREM LoaderMissesNothing == Spec => []LoaderFindsEverything
<1>1. ASSUME IInv PROVE LoaderFindsEverything
  <2> SUFFICES ASSUME InPhase("load"), statement.kind = "call" => vetted[statement.oid]
               PROVE  (\A u \in pending : Row(u) # Absent) /\ ~failed
    BY DEF LoaderFindsEverything
  <2>1. PICK modules \in SUBSET Urls :
          Closed(statement.map, rows[statement.oid], modules) /\ seen \subseteq modules
    BY <1>1 DEF IInv, LoadStaysInside, Prefetched
  <2>2. pending \subseteq modules
    BY <1>1, <2>1 DEF IInv, WalkIsSound, InPhase
  <2>3. ~failed
    BY <1>1 DEF IInv, LoadStaysInside, Prefetched
  <2> QED BY <2>1, <2>2, <2>3 DEF Closed, Row
<1> QED BY <1>1, Inductive, PTL

\* max_imports bounds what is prefetched, transitive imports included.
THEOREM PrefetchCapped == Spec => []PrefetchWithinCap
<1>1. IInv => PrefetchWithinCap
  BY DEF IInv
<1> QED BY <1>1, Inductive, PTL

\* No row of an earlier owner of the oid stands in for the network.
THEOREM PrefetchFresh == Spec => []PrefetchIsFresh
<1>1. IInv => PrefetchIsFresh
  BY DEF IInv
<1> QED BY <1>1, Inductive, PTL

\* A statement never touches the rows of another function.
THEOREM OthersUntouched == Spec => []OtherRowsUntouched
<1>1. IInv => OtherRowsUntouched
  BY DEF IInv
<1> QED BY <1>1, Inductive, PTL

\* Committed rows change to nothing, or to rows the function can be loaded
\* from: no failed walk leaves a trace.
THEOREM NoPartialPrefetch == Spec => AllOrNothing
<1> DEFINE Good == \A o \in Owners : store'[o] # store[o] =>
                     IF statement = Idle
                     THEN \A u \in Urls : store'[o][u] = Absent
                     ELSE o = statement.oid /\ Runnable(statement.map, store'[o])
<1>1. ASSUME IInv, [Next]_vars PROVE [Good]_vars
  <2>1. CASE Commit
    <3>1. /\ statement # Idle /\ store' = rows /\ pending = {} /\ ~failed
      BY <2>1 DEF Commit, InPhase
    <3>2. Closed(statement.map, rows[statement.oid], seen) /\ seen \in SUBSET Urls
      BY <1>1, <3>1, WalkCloses DEF IInv, TypeOK
    <3>3. Runnable(statement.map, rows[statement.oid])
      BY <3>2 DEF Runnable
    <3> QED BY <1>1, <3>1, <3>3 DEF IInv, OtherRowsUntouched
  <2>2. CASE DropFunction
    BY <1>1, <2>2 DEF DropFunction, IInv, TypeOK
  <2>3. CASE ~Commit /\ ~DropFunction
    <3>1. store' = store
      BY <1>1, <2>3
      DEF Next, vars, committed, CreateFunction, InlineHandler, BeginPrefetching, CallHandler,
          Begin, Step, PrefetchRejected, PrefetchModule, FetchFails, LoadModule,
          ModuleNotCached, GraphInvalid, GraphValid, NotInImportMap, StatementAborts, Abort,
          WebChanges, AlterImportMap, DropElsewhere
    <3> QED BY <3>1
  <2> QED BY <2>1, <2>2, <2>3
<1> QED BY <1>1, Inductive, PTL DEF Spec, AllOrNothing

=============================================================================
