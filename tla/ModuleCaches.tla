---------------------------- MODULE ModuleCaches ----------------------------
(***************************************************************************)
(* What code a call runs, when the same connection has run other code      *)
(* before.                                                                 *)
(*                                                                         *)
(* A backend keeps compiled functions in FN_CACHE, under the function's    *)
(* oid and a hash of the assembled source, and V8 keeps every module it    *)
(* has met, under its specifier, for as long as the process lives.  None   *)
(* of that is transactional, and DDL does not touch it.  The assembled     *)
(* source has the body, the parameters and an import statement for each    *)
(* name of the import map, in the order a HashMap gives them, which is a   *)
(* different one each time; it does not have the URLs of the import map.   *)
(*                                                                         *)
(* Each statement is one step here: ModuleStore and Sessions have what     *)
(* happens inside.  A module stands for itself and all it imports.         *)
(***************************************************************************)
EXTENDS Naturals, FiniteSets, Functions

CONSTANTS
  Backends,    (* connections                                               *)
  Oids,        (* functions of LANGUAGE typescript                          *)
  DoBlock,     (* DO_BLOCK_OID                                              *)
  Bodies,      (* bodies, with their parameter names                        *)
  Urls,        (* module URLs                                               *)
  Names,       (* the keys of import maps                                   *)
  ImportMaps,  (* the import maps considered: names to URLs                 *)
  Sources,     (* versions of modules                                       *)
  Served,      (* the versions the network may serve for a URL, over time   *)
  Absent,      (* no function, name not declared, no row, not loaded        *)
  MaxEntries   (* bounds the entry modules a backend gets to assemble       *)

Owners == Oids \cup {DoBlock}

ASSUME ModuleCachesAssumption ==
  /\ DoBlock \notin Oids
  /\ Absent \notin Urls \cup Sources \cup [body: Bodies, map: ImportMaps]
  /\ IsFiniteSet(Names)
  /\ ImportMaps \subseteq [Names -> Urls \cup {Absent}]
  /\ Served \in [Urls -> SUBSET Sources]
  /\ MaxEntries \in Nat

VARIABLES
  catalog,   (* body and import map of each function, committed             *)
  rows,      (* deno_package_modules, committed                             *)
  fnCache,   (* per backend, FN_CACHE: keys to entry modules                *)
  entries,   (* per backend, V8's entry modules and what their imports link *)
  modules,   (* per backend, the source V8 compiled for a URL               *)
  broken     (* per backend, the URLs whose evaluation threw                *)

caches == <<fnCache, entries, modules, broken>>
vars == <<catalog, rows, caches>>

Procs == [body: Bodies, map: ImportMaps]

Declared(map) == {n \in Names : map[n] # Absent}
LinkedUrls(map) == {map[n] : n \in Declared(map)}

\* import_map.keys() of a HashMap: any order.
KeyOrders(map) ==
  Bijection(1..Cardinality(Declared(map)), Declared(map))

\* Mutant: the URLs are in the source.
AssembleWithUrls(fn, order) ==
  [body |-> fn.body, names |-> [i \in DOMAIN order |-> fn.map[order[i]]]]

AssembleModule(fn, order) == [body |-> fn.body, names |-> order]

Specifier(oid, source) ==
  [prefix |-> IF oid = DoBlock THEN "do" ELSE "fn", source |-> source]

\* Mutant: the hash is left out of the key.
CacheKeyOid(oid, source) == <<oid>>

CacheKey(oid, source) == <<oid, source>>

Nothing == [x \in {} |-> x]

Init ==
  /\ catalog = [o \in Oids |-> Absent]
  /\ rows = [o \in Owners |-> [u \in Urls |-> Absent]]
  /\ fnCache = [b \in Backends |-> Nothing]
  /\ entries = [b \in Backends |-> Nothing]
  /\ modules = [b \in Backends |-> [u \in Urls |-> Absent]]
  /\ broken = [b \in Backends |-> {}]

(***************************************************************************)
(* Loading an entry module into a backend, from the rows of its owner.     *)
(* V8 links a specifier once: an entry that is there keeps the URLs its    *)
(* imports got when it was first met, and a URL its first source.          *)
(***************************************************************************)
Links(b, spec, map) == IF spec \in DOMAIN entries[b] THEN entries[b][spec] ELSE map

Found(b, row, u) == IF modules[b][u] # Absent THEN modules[b][u] ELSE row[u]

\* A module was evaluated without error if a function in FN_CACHE links it.
Evaluated(b) ==
  UNION {LinkedUrls(entries[b][spec]) : spec \in Range(fnCache[b])}

Register(b, spec, links, row, urls) ==
  /\ entries' = [entries EXCEPT ![b] =
       [s \in DOMAIN @ \cup {spec} |-> IF s = spec THEN links ELSE @[s]]]
  /\ modules' = [modules EXCEPT ![b] =
       [u \in Urls |-> IF u \in urls THEN Found(b, row, u) ELSE @[u]]]

\* Bounds the entries of a backend.
RoomFor(b, spec) ==
  spec \in DOMAIN entries[b] \/ Cardinality(DOMAIN entries[b]) < MaxEntries

Insert(b, key, spec) ==
  fnCache' = [fnCache EXCEPT ![b] =
    [k \in DOMAIN @ \cup {key} |-> IF k = key THEN spec ELSE @[k]]]

LoadSucceeds(b, oid, source, map, row) ==
  LET spec  == Specifier(oid, source)
      links == Links(b, spec, map)
  IN  /\ \A u \in LinkedUrls(links) : Found(b, row, u) # Absent /\ u \notin broken[b]
      /\ Register(b, spec, links, row, LinkedUrls(links))
      /\ Insert(b, CacheKey(oid, source), spec)
      /\ UNCHANGED broken

\* "module not cached": V8 keeps the entry, and what it did find.
ModuleMissing(b, oid, source, map, row) ==
  LET spec  == Specifier(oid, source)
      links == Links(b, spec, map)
      found == {u \in LinkedUrls(links) : Found(b, row, u) # Absent}
  IN  /\ found # LinkedUrls(links)
      /\ \E got \in SUBSET found : Register(b, spec, links, row, got)
      /\ UNCHANGED <<fnCache, broken>>

\* Mutant: the cache is filled before the module evaluates.
InsertThenEvaluate(b, oid, source, map, row) ==
  LET spec  == Specifier(oid, source)
      links == Links(b, spec, map)
  IN  /\ \A u \in LinkedUrls(links) : Found(b, row, u) # Absent
      /\ Register(b, spec, links, row, LinkedUrls(links))
      /\ \E u \in LinkedUrls(links) \ Evaluated(b) :
           broken' = [broken EXCEPT ![b] = @ \cup {u}]
      /\ Insert(b, CacheKey(oid, source), spec)

\* A module throws while it evaluates, and does so for ever after.
EvaluationThrows(b, oid, source, map, row) ==
  LET spec  == Specifier(oid, source)
      links == Links(b, spec, map)
  IN  /\ \A u \in LinkedUrls(links) : Found(b, row, u) # Absent
      /\ Register(b, spec, links, row, LinkedUrls(links))
      /\ \E u \in LinkedUrls(links) \ Evaluated(b) :
           broken' = [broken EXCEPT ![b] = @ \cup {u}]
      /\ UNCHANGED fnCache

LoadFails(b, oid, source, map, row) ==
  \/ ModuleMissing(b, oid, source, map, row)
  \/ EvaluationThrows(b, oid, source, map, row)

Cached(b, oid, source) == CacheKey(oid, source) \in DOMAIN fnCache[b]

LoadOrGetCached(b, oid, source, map, row) ==
  \/ Cached(b, oid, source) /\ UNCHANGED caches
  \/ ~Cached(b, oid, source) /\ LoadSucceeds(b, oid, source, map, row)

(***************************************************************************)
(* Statements.                                                             *)
(***************************************************************************)
\* The rows a prefetch leaves; without an import map there is no prefetch.
Prefetched(oid, map) ==
  IF Declared(map) = {} THEN {rows[oid]}
  ELSE {row \in [Urls -> Sources \cup {Absent}] :
          \A u \in Urls : IF u \in LinkedUrls(map) THEN row[u] \in Served[u]
                          ELSE row[u] = Absent}

Define(oid, fn, row) ==
  /\ catalog' = [catalog EXCEPT ![oid] = fn]
  /\ rows' = [rows EXCEPT ![oid] = row]

CreateFunction(b) ==
  \E oid \in Oids, body \in Bodies, map \in ImportMaps :
    LET fn == [body |-> body, map |-> map]
    IN  \E order \in KeyOrders(map), row \in Prefetched(oid, map) :
          /\ RoomFor(b, Specifier(oid, AssembleModule(fn, order)))
          /\ LoadOrGetCached(b, oid, AssembleModule(fn, order), map, row)
          /\ Define(oid, fn, row)

\* CREATE FUNCTION in a connection that is not one of Backends.
CreateElsewhere ==
  /\ \E oid \in Oids, fn \in Procs : \E row \in Prefetched(oid, fn.map) : Define(oid, fn, row)
  /\ UNCHANGED caches

\* A statement that loads for an owner, and fails or is rolled back after:
\* the rows it wrote and the function it made go, the caches keep what they got.
RollsBack(b, oid) ==
  /\ \E body \in Bodies, map \in ImportMaps :
       LET fn == [body |-> body, map |-> map]
       IN  \E order \in KeyOrders(map), row \in Prefetched(oid, map) :
             /\ RoomFor(b, Specifier(oid, AssembleModule(fn, order)))
             /\ \/ LoadOrGetCached(b, oid, AssembleModule(fn, order), map, row)
                \/ /\ ~Cached(b, oid, AssembleModule(fn, order))
                   /\ LoadFails(b, oid, AssembleModule(fn, order), map, row)
  /\ UNCHANGED <<catalog, rows>>

\* CREATE FUNCTION fails, or its transaction is rolled back afterwards.
CreateRollsBack(b) == \E oid \in Oids : RollsBack(b, oid)

\* DO blocks: as CREATE FUNCTION, under the oid they share.
InlineHandler(b) ==
  \E body \in Bodies, map \in ImportMaps :
    LET fn == [body |-> body, map |-> map]
    IN  \E order \in KeyOrders(map), row \in Prefetched(DoBlock, map) :
          /\ RoomFor(b, Specifier(DoBlock, AssembleModule(fn, order)))
          /\ LoadOrGetCached(b, DoBlock, AssembleModule(fn, order), map, row)
          /\ rows' = [rows EXCEPT ![DoBlock] = row]
          /\ UNCHANGED catalog

\* A DO block whose load or whose body fails, or that is rolled back.
InlineRollsBack(b) == RollsBack(b, DoBlock)

CallHandler(b) ==
  \E oid \in Oids :
    /\ catalog[oid] # Absent
    /\ \E order \in KeyOrders(catalog[oid].map) :
         LET source == AssembleModule(catalog[oid], order)
         IN  /\ RoomFor(b, Specifier(oid, source))
             /\ \/ LoadOrGetCached(b, oid, source, catalog[oid].map, rows[oid])
                \/ /\ ~Cached(b, oid, source)
                   /\ LoadFails(b, oid, source, catalog[oid].map, rows[oid])
    /\ UNCHANGED <<catalog, rows>>

\* ALTER FUNCTION ... SET typescript.import_map: no validator.
AlterImportMap ==
  /\ \E oid \in Oids, map \in ImportMaps :
       /\ catalog[oid] # Absent
       /\ catalog' = [catalog EXCEPT ![oid].map = map]
  /\ UNCHANGED <<rows, caches>>

DropFunction ==
  /\ \E oid \in Oids :
       /\ catalog' = [catalog EXCEPT ![oid] = Absent]
       /\ rows' = [rows EXCEPT ![oid] = [u \in Urls |-> Absent]]
  /\ UNCHANGED caches

\* The process ends; thread-local state goes with it.
Reconnect(b) ==
  /\ fnCache' = [fnCache EXCEPT ![b] = Nothing]
  /\ entries' = [entries EXCEPT ![b] = Nothing]
  /\ modules' = [modules EXCEPT ![b] = [u \in Urls |-> Absent]]
  /\ broken' = [broken EXCEPT ![b] = {}]
  /\ UNCHANGED <<catalog, rows>>

Next ==
  \/ \E b \in Backends : \/ CreateFunction(b) \/ CreateRollsBack(b)
                         \/ InlineHandler(b) \/ InlineRollsBack(b)
                         \/ CallHandler(b) \/ Reconnect(b)
  \/ CreateElsewhere \/ AlterImportMap \/ DropFunction

Spec == Init /\ [][Next]_vars

-----------------------------------------------------------------------------
Assembled == [body: Bodies, names: UNION {[1..k -> Names] : k \in 0..Cardinality(Names)}]
Specifiers == [prefix: {"do", "fn"}, source: Assembled]
Keys == Owners \X Assembled

\* Types of the variables: partial functions of keys and specifiers.
TypeOK ==
  /\ catalog \in [Oids -> Procs \cup {Absent}]
  /\ rows \in [Owners -> [Urls -> Sources \cup {Absent}]]
  /\ \A b \in Backends :
       /\ DOMAIN fnCache[b] \subseteq Keys
       /\ Range(fnCache[b]) \subseteq DOMAIN entries[b]
       /\ DOMAIN entries[b] \subseteq Specifiers
       /\ Range(entries[b]) \subseteq ImportMaps
  /\ modules \in [Backends -> [Urls -> Sources \cup {Absent}]]
  /\ broken \in [Backends -> SUBSET Urls]

\* What FN_CACHE answers for a function has the body and the imported names
\* of its catalog row, whatever has been replaced, altered, dropped, rolled
\* back or run as a DO block in this or in another connection.
CallsRunTheirBody ==
  \A b \in Backends, oid \in Oids :
    catalog[oid] # Absent =>
      \A order \in KeyOrders(catalog[oid].map) :
        LET source == AssembleModule(catalog[oid], order)
        IN  Cached(b, oid, source) =>
              LET spec == fnCache[b][CacheKey(oid, source)]
              IN  /\ spec.prefix = "fn"
                  /\ spec.source.body = catalog[oid].body
                  /\ Range(spec.source.names) = Declared(catalog[oid].map)

\* FN_CACHE stands for loading: what it holds is an entry V8 has, with every
\* name it imports linked to a module that is there and did not throw.
CachedIsLoaded ==
  \A b \in Backends : \A spec \in Range(fnCache[b]) :
    /\ spec \in DOMAIN entries[b]
    /\ Range(spec.source.names) = Declared(entries[b][spec])
    /\ \A u \in LinkedUrls(entries[b][spec]) :
         modules[b][u] # Absent /\ u \notin broken[b]

\* "repeated calls do not need to reload and reevaluate the module": once a
\* function is in FN_CACHE its next call finds it, in whatever order that
\* call gets the keys of the import map.
RepeatedCallsHit ==
  \A b \in Backends, oid \in Oids :
    catalog[oid] # Absent =>
      LET Hit(order) == Cached(b, oid, AssembleModule(catalog[oid], order))
      IN  (\E order \in KeyOrders(catalog[oid].map) : Hit(order)) =>
            \A order \in KeyOrders(catalog[oid].map) : Hit(order)

\* "ALTER FUNCTION ... automatically gets a fresh entry": for an import map
\* that has just been altered FN_CACHE has nothing, or its very URLs.
AlterGetsAFreshEntry ==
  [][AlterImportMap =>
       \A b \in Backends, oid \in Oids : catalog'[oid] # catalog[oid] =>
         \A order \in KeyOrders(catalog'[oid].map) :
           LET source == AssembleModule(catalog'[oid], order)
           IN  Cached(b, oid, source) =>
                 entries[b][fnCache[b][CacheKey(oid, source)]] = catalog'[oid].map]_vars
=============================================================================
