------------------------- MODULE ModuleCachesProofs -------------------------
(***************************************************************************)
(* Proofs about ModuleCaches, for any functions, bodies, URLs and import   *)
(* maps.                                                                   *)
(*                                                                         *)
(* What FN_CACHE holds is known from its keys alone, since a key and a     *)
(* specifier are made of the same source; what an entry module links is    *)
(* known from its names alone, since those are in the specifier.  Both are *)
(* set once and for all, so that DDL, roll-backs and loads of other        *)
(* functions cannot change them.                                           *)
(***************************************************************************)
EXTENDS ModuleCaches, TLAPS, FiniteSetTheorems

\* The caches are functions of the connections.
PerConnection ==
  /\ fnCache = [b \in Backends |-> fnCache[b]]
  /\ entries = [b \in Backends |-> entries[b]]

\* A key determines what it leads to.
KeysAreFaithful ==
  \A b \in Backends : \A key \in DOMAIN fnCache[b] :
    fnCache[b][key] = Specifier(key[1], key[2])

\* An entry module links the names in its source, cached or not.
EntriesLinkTheirNames ==
  \A b \in Backends : \A spec \in DOMAIN entries[b] :
    Range(spec.source.names) = Declared(entries[b][spec])

IInv ==
  /\ TypeOK
  /\ PerConnection
  /\ KeysAreFaithful
  /\ EntriesLinkTheirNames
  /\ CachedIsLoaded

Row == [Urls -> Sources \cup {Absent}]

\* The part of IInv that is about the caches.
CachesInv ==
  /\ \A b \in Backends :
       /\ DOMAIN fnCache[b] \subseteq Keys
       /\ Range(fnCache[b]) \subseteq DOMAIN entries[b]
       /\ DOMAIN entries[b] \subseteq Specifiers
       /\ Range(entries[b]) \subseteq ImportMaps
  /\ modules \in [Backends -> Row]
  /\ broken \in [Backends -> SUBSET Urls]
  /\ PerConnection
  /\ KeysAreFaithful
  /\ EntriesLinkTheirNames
  /\ CachedIsLoaded

-----------------------------------------------------------------------------
\* An assembled source is typed and imports what the import map declares.
LEMMA SourceOfMap ==
  ASSUME NEW body \in Bodies, NEW map \in ImportMaps, NEW order \in KeyOrders(map),
         NEW fn, fn.body = body
  PROVE  /\ AssembleModule(fn, order) \in Assembled
         /\ AssembleModule(fn, order).body = body
         /\ Range(AssembleModule(fn, order).names) = Declared(map)
  <1>1. Declared(map) \subseteq Names
    BY DEF Declared
  <1>2. /\ IsFiniteSet(Declared(map))
        /\ Cardinality(Declared(map)) <= Cardinality(Names)
    BY <1>1, FS_Subset, ModuleCachesAssumption DEF ModuleCachesAssumption
  <1>3. /\ Cardinality(Declared(map)) \in Nat
        /\ Cardinality(Names) \in Nat
    BY <1>2, FS_CardinalityType, ModuleCachesAssumption DEF ModuleCachesAssumption
  <1>4. Cardinality(Declared(map)) \in 0..Cardinality(Names)
    BY <1>2, <1>3
  <1>5. /\ order \in [1..Cardinality(Declared(map)) -> Declared(map)]
        /\ \A n \in Declared(map) : \E i \in 1..Cardinality(Declared(map)) : order[i] = n
    BY DEF KeyOrders, Bijection, Surjection, Injection
  <1>6. order \in [1..Cardinality(Declared(map)) -> Names]
    BY <1>1, <1>5
  <1>7. order \in UNION {[1..k -> Names] : k \in 0..Cardinality(Names)}
    BY <1>4, <1>6
  <1>8. Range(order) = Declared(map)
    BY <1>5 DEF Range
  <1>9. QED
    BY <1>7, <1>8 DEF AssembleModule, Assembled

\* Specifiers and keys of typed sources are typed.
LEMMA KeyAndSpecifier ==
  ASSUME NEW oid \in Owners, NEW source \in Assembled
  PROVE  /\ Specifier(oid, source) \in Specifiers
         /\ Specifier(oid, source).source = source
         /\ CacheKey(oid, source) \in Keys
         /\ Specifier(CacheKey(oid, source)[1], CacheKey(oid, source)[2])
              = Specifier(oid, source)
  BY DEF Specifier, Specifiers, CacheKey, Keys

\* Registering modules adds to V8's module map and changes nothing there.
LEMMA RegisterAdds ==
  ASSUME CachesInv,
         NEW b \in Backends, NEW spec \in Specifiers, NEW map \in ImportMaps, NEW row \in Row,
         Range(spec.source.names) = Declared(map),
         NEW urls \in SUBSET Urls, Register(b, spec, Links(b, spec, map), row, urls)
  PROVE  /\ entries' = [c \in Backends |-> entries'[c]]
         /\ \A c \in Backends :
              /\ DOMAIN entries'[c] \subseteq Specifiers
              /\ Range(entries'[c]) \subseteq ImportMaps
              /\ \A s \in DOMAIN entries[c] :
                   s \in DOMAIN entries'[c] /\ entries'[c][s] = entries[c][s]
         /\ spec \in DOMAIN entries'[b]
         /\ entries'[b][spec] = Links(b, spec, map)
         /\ EntriesLinkTheirNames'
         /\ modules' \in [Backends -> Row]
         /\ \A c \in Backends, u \in Urls :
              modules[c][u] # Absent => modules'[c][u] = modules[c][u]
         /\ \A u \in urls : modules'[b][u] = Found(b, row, u)
  <1> DEFINE links == Links(b, spec, map)
  <1>1. links \in ImportMaps
    <2>1. CASE spec \in DOMAIN entries[b]
      <3>1. entries[b][spec] \in Range(entries[b])
        BY <2>1 DEF Range
      <3>2. QED
        BY <2>1, <3>1 DEF Links, CachesInv
    <2>2. CASE spec \notin DOMAIN entries[b]
      BY <2>2 DEF Links
    <2>3. QED
      BY <2>1, <2>2
  <1>2. Range(spec.source.names) = Declared(links)
    BY DEF Links, CachesInv, EntriesLinkTheirNames
  <1>3. \A u \in Urls : Found(b, row, u) \in Sources \cup {Absent}
    BY DEF Found, CachesInv, Row
  <1> DEFINE added == [s \in DOMAIN entries[b] \cup {spec} |->
                         IF s = spec THEN links ELSE entries[b][s]]
             compiled == [u \in Urls |-> IF u \in urls THEN Found(b, row, u) ELSE modules[b][u]]
  <1>4. /\ entries' = [entries EXCEPT ![b] = added]
        /\ modules' = [modules EXCEPT ![b] = compiled]
    BY DEF Register
  <1>5. /\ entries' = [c \in Backends |-> entries'[c]]
        /\ entries'[b] = added
        /\ \A c \in Backends : c # b => entries'[c] = entries[c]
    BY <1>4 DEF CachesInv, PerConnection
  <1>6. /\ DOMAIN added = DOMAIN entries[b] \cup {spec}
        /\ added[spec] = links
        /\ \A s \in DOMAIN entries[b] : added[s] = entries[b][s]
    BY DEF Links
  <1>7. /\ modules' \in [Backends -> Row]
        /\ modules'[b] = compiled
        /\ \A c \in Backends : c # b => modules'[c] = modules[c]
    BY <1>3, <1>4 DEF CachesInv, Row
  <1> HIDE DEF added, links
  <1>8. \A c \in Backends :
          /\ DOMAIN entries'[c] \subseteq Specifiers
          /\ Range(entries'[c]) \subseteq ImportMaps
          /\ \A s \in DOMAIN entries[c] :
               s \in DOMAIN entries'[c] /\ entries'[c][s] = entries[c][s]
    <2> SUFFICES ASSUME NEW c \in Backends
                 PROVE  /\ DOMAIN entries'[c] \subseteq Specifiers
                        /\ Range(entries'[c]) \subseteq ImportMaps
                        /\ \A s \in DOMAIN entries[c] :
                             s \in DOMAIN entries'[c] /\ entries'[c][s] = entries[c][s]
      OBVIOUS
    <2>1. CASE c = b
      BY <2>1, <1>1, <1>5, <1>6 DEF CachesInv, Range
    <2>2. CASE c # b
      BY <2>2, <1>5 DEF CachesInv
    <2>3. QED
      BY <2>1, <2>2
  <1>9. EntriesLinkTheirNames'
    <2> SUFFICES ASSUME NEW c \in Backends, NEW s \in DOMAIN entries'[c]
                 PROVE  Range(s.source.names) = Declared(entries'[c][s])
      BY DEF EntriesLinkTheirNames, Range, Declared
    <2>1. CASE c = b /\ s = spec
      BY <2>1, <1>2, <1>5, <1>6
    <2>2. CASE s \in DOMAIN entries[c] /\ ~(c = b /\ s = spec)
      BY <2>2, <1>8 DEF CachesInv, EntriesLinkTheirNames
    <2>3. QED
      BY <2>1, <2>2, <1>5, <1>6
  <1>10. \A c \in Backends, u \in Urls :
           modules[c][u] # Absent => modules'[c][u] = modules[c][u]
    BY <1>7 DEF Found
  <1>11. \A u \in urls : modules'[b][u] = Found(b, row, u)
    BY <1>7
  <1>12. QED
    BY <1>5, <1>6, <1>7, <1>8, <1>9, <1>10, <1>11 DEF links

\* CachedIsLoaded survives what adds modules, keeps cached functions but for
\* one, and marks as broken only what no cached function links.
LEMMA StillLoaded ==
  ASSUME CachesInv, EntriesLinkTheirNames',
         \A c \in Backends : \A s \in DOMAIN entries[c] :
           s \in DOMAIN entries'[c] /\ entries'[c][s] = entries[c][s],
         \A c \in Backends, u \in Urls : modules[c][u] # Absent => modules'[c][u] = modules[c][u],
         \A c \in Backends : broken'[c] \cap Evaluated(c) \subseteq broken[c],
         NEW c \in Backends, NEW spec \in Range(fnCache[c])
  PROVE  /\ spec \in DOMAIN entries'[c]
         /\ Range(spec.source.names) = Declared(entries'[c][spec])
         /\ \A u \in LinkedUrls(entries'[c][spec]) :
              modules'[c][u] # Absent /\ u \notin broken'[c]
  <1>1. spec \in DOMAIN entries[c]
    BY DEF CachesInv, CachedIsLoaded
  <1>2. entries'[c][spec] = entries[c][spec] /\ spec \in DOMAIN entries'[c]
    BY <1>1
  <1>3. entries[c][spec] \in ImportMaps
    BY <1>1 DEF CachesInv, Range
  <1>4. LinkedUrls(entries[c][spec]) \subseteq Urls
    BY <1>3, ModuleCachesAssumption DEF LinkedUrls, Declared, ModuleCachesAssumption
  <1>5. LinkedUrls(entries[c][spec]) \subseteq Evaluated(c)
    BY DEF Evaluated
  <1>6. \A u \in LinkedUrls(entries[c][spec]) : modules[c][u] # Absent /\ u \notin broken[c]
    BY DEF CachesInv, CachedIsLoaded
  <1>7. Range(spec.source.names) = Declared(entries[c][spec])
    BY <1>1 DEF CachesInv, EntriesLinkTheirNames
  <1>8. QED
    BY <1>2, <1>4, <1>5, <1>6, <1>7

\* A load that succeeds keeps the caches in order.
LEMMA LoadSucceedsKeeps ==
  ASSUME CachesInv,
         NEW b \in Backends, NEW oid \in Owners, NEW source \in Assembled,
         NEW map \in ImportMaps, NEW row \in Row,
         Range(source.names) = Declared(map),
         LoadSucceeds(b, oid, source, map, row)
  PROVE  CachesInv'
  <1> DEFINE spec == Specifier(oid, source)
             key == CacheKey(oid, source)
             links == Links(b, spec, map)
             cache == [k \in DOMAIN fnCache[b] \cup {key} |-> IF k = key THEN spec ELSE fnCache[b][k]]
  <1>1. /\ \A u \in LinkedUrls(links) : Found(b, row, u) # Absent /\ u \notin broken[b]
        /\ Register(b, spec, links, row, LinkedUrls(links))
        /\ fnCache' = [fnCache EXCEPT ![b] = cache]
        /\ broken' = broken
    BY DEF LoadSucceeds, Insert
  <1>2. /\ spec \in Specifiers /\ spec.source = source
        /\ key \in Keys /\ Specifier(key[1], key[2]) = spec
    BY KeyAndSpecifier
  <1>3. /\ fnCache' = [c \in Backends |-> fnCache'[c]]
        /\ fnCache'[b] = cache
        /\ \A c \in Backends : c # b => fnCache'[c] = fnCache[c]
        /\ DOMAIN cache = DOMAIN fnCache[b] \cup {key}
        /\ cache[key] = spec
        /\ \A k \in DOMAIN fnCache[b] : k # key => cache[k] = fnCache[b][k]
    BY <1>1 DEF CachesInv, PerConnection
  <1> HIDE DEF spec, key, cache, links
  <1>4. LinkedUrls(links) \in SUBSET Urls
    <2>1. links \in ImportMaps
      <3>1. spec \in DOMAIN entries[b] => entries[b][spec] \in Range(entries[b])
        BY DEF Range
      <3>2. QED
        BY <3>1 DEF links, Links, CachesInv
    <2>2. QED
      BY <2>1, ModuleCachesAssumption DEF LinkedUrls, Declared, ModuleCachesAssumption
  <1>5. /\ entries' = [c \in Backends |-> entries'[c]]
        /\ \A c \in Backends :
             /\ DOMAIN entries'[c] \subseteq Specifiers
             /\ Range(entries'[c]) \subseteq ImportMaps
             /\ \A s \in DOMAIN entries[c] :
                  s \in DOMAIN entries'[c] /\ entries'[c][s] = entries[c][s]
        /\ spec \in DOMAIN entries'[b]
        /\ entries'[b][spec] = links
        /\ EntriesLinkTheirNames'
        /\ modules' \in [Backends -> Row]
        /\ \A c \in Backends, u \in Urls :
             modules[c][u] # Absent => modules'[c][u] = modules[c][u]
        /\ \A u \in LinkedUrls(links) : modules'[b][u] = Found(b, row, u)
    BY <1>1, <1>2, <1>4, RegisterAdds DEF links
  <1>6. \A c \in Backends : Range(fnCache'[c]) \subseteq Range(fnCache[c]) \cup {s \in {spec} : c = b}
    <2> SUFFICES ASSUME NEW c \in Backends, NEW k \in DOMAIN fnCache'[c]
                 PROVE  fnCache'[c][k] \in Range(fnCache[c]) \cup {s \in {spec} : c = b}
      BY DEF Range
    <2>1. QED
      BY <1>3 DEF Range
  <1>7. CachedIsLoaded'
    <2> SUFFICES ASSUME NEW c \in Backends, NEW s \in Range(fnCache'[c])
                 PROVE  /\ s \in DOMAIN entries'[c]
                        /\ Range(s.source.names) = Declared(entries'[c][s])
                        /\ \A u \in LinkedUrls(entries'[c][s]) :
                             modules'[c][u] # Absent /\ u \notin broken'[c]
      BY DEF CachedIsLoaded, Range, Declared, LinkedUrls
    <2>1. CASE s \in Range(fnCache[c])
      BY <2>1, <1>1, <1>5, StillLoaded
    <2>2. CASE c = b /\ s = spec
      BY <2>2, <1>1, <1>5 DEF EntriesLinkTheirNames
    <2>3. QED
      BY <2>1, <2>2, <1>6
  <1>8. KeysAreFaithful'
    <2> SUFFICES ASSUME NEW c \in Backends, NEW k \in DOMAIN fnCache'[c]
                 PROVE  fnCache'[c][k] = Specifier(k[1], k[2])
      BY DEF KeysAreFaithful, Specifier
    <2>1. CASE c = b /\ k = key
      BY <2>1, <1>2, <1>3
    <2>2. CASE ~(c = b /\ k = key)
      BY <2>2, <1>3 DEF CachesInv, KeysAreFaithful
    <2>3. QED
      BY <2>1, <2>2
  <1>9. \A c \in Backends : DOMAIN fnCache'[c] \subseteq Keys
    BY <1>2, <1>3 DEF CachesInv
  <1>10. \A c \in Backends : Range(fnCache'[c]) \subseteq DOMAIN entries'[c]
    BY <1>7 DEF CachedIsLoaded
  <1>11. QED
    BY <1>1, <1>3, <1>5, <1>7, <1>8, <1>9, <1>10 DEF CachesInv, PerConnection

\* So does one that fails.
LEMMA LoadFailsKeeps ==
  ASSUME CachesInv,
         NEW b \in Backends, NEW oid \in Owners, NEW source \in Assembled,
         NEW map \in ImportMaps, NEW row \in Row,
         Range(source.names) = Declared(map),
         LoadFails(b, oid, source, map, row)
  PROVE  CachesInv'
  <1> DEFINE spec == Specifier(oid, source)
             links == Links(b, spec, map)
  <1>1. spec \in Specifiers /\ spec.source = source
    BY KeyAndSpecifier
  <1>2. LinkedUrls(links) \in SUBSET Urls
    <2>1. links \in ImportMaps
      <3>1. spec \in DOMAIN entries[b] => entries[b][spec] \in Range(entries[b])
        BY DEF Range
      <3>2. QED
        BY <3>1 DEF Links, CachesInv
    <2>2. QED
      BY <2>1, ModuleCachesAssumption DEF LinkedUrls, Declared, ModuleCachesAssumption
  <1>3. /\ fnCache' = fnCache
        /\ broken' \in [Backends -> SUBSET Urls]
        /\ \A c \in Backends : broken'[c] \cap Evaluated(c) \subseteq broken[c]
    <2>1. CASE ModuleMissing(b, oid, source, map, row)
      BY <2>1 DEF ModuleMissing, CachesInv
    <2>2. CASE EvaluationThrows(b, oid, source, map, row)
      <3>1. PICK u \in LinkedUrls(links) \ Evaluated(b) :
              broken' = [broken EXCEPT ![b] = @ \cup {u}]
        BY <2>2 DEF EvaluationThrows
      <3>2. fnCache' = fnCache
        BY <2>2 DEF EvaluationThrows
      <3> HIDE DEF links
      <3>3. QED
        BY <3>1, <3>2, <1>2 DEF CachesInv
    <2>3. QED
      BY <2>1, <2>2 DEF LoadFails
  <1>4. PICK urls \in SUBSET Urls : Register(b, spec, links, row, urls)
    <2>1. CASE ModuleMissing(b, oid, source, map, row)
      <3>1. PICK got \in SUBSET {u \in LinkedUrls(links) : Found(b, row, u) # Absent} :
              Register(b, spec, links, row, got)
        BY <2>1 DEF ModuleMissing
      <3>2. QED
        BY <3>1, <1>2
    <2>2. CASE EvaluationThrows(b, oid, source, map, row)
      BY <2>2, <1>2 DEF EvaluationThrows
    <2>3. QED
      BY <2>1, <2>2 DEF LoadFails
  <1>5. /\ entries' = [c \in Backends |-> entries'[c]]
        /\ \A c \in Backends :
             /\ DOMAIN entries'[c] \subseteq Specifiers
             /\ Range(entries'[c]) \subseteq ImportMaps
             /\ \A s \in DOMAIN entries[c] :
                  s \in DOMAIN entries'[c] /\ entries'[c][s] = entries[c][s]
        /\ EntriesLinkTheirNames'
        /\ modules' \in [Backends -> Row]
        /\ \A c \in Backends, u \in Urls :
             modules[c][u] # Absent => modules'[c][u] = modules[c][u]
    BY <1>1, <1>4, RegisterAdds
  <1>6. CachedIsLoaded'
    <2> SUFFICES ASSUME NEW c \in Backends, NEW s \in Range(fnCache[c])
                 PROVE  /\ s \in DOMAIN entries'[c]
                        /\ Range(s.source.names) = Declared(entries'[c][s])
                        /\ \A u \in LinkedUrls(entries'[c][s]) :
                             modules'[c][u] # Absent /\ u \notin broken'[c]
      BY <1>3 DEF CachedIsLoaded, Range, Declared, LinkedUrls
    <2>1. QED
      BY <1>3, <1>5, StillLoaded
  <1>7. KeysAreFaithful'
    BY <1>3 DEF CachesInv, KeysAreFaithful, Specifier
  <1>8. \A c \in Backends : Range(fnCache'[c]) \subseteq DOMAIN entries'[c]
    BY <1>6 DEF CachedIsLoaded
  <1>9. QED
    BY <1>3, <1>5, <1>6, <1>7, <1>8 DEF CachesInv, PerConnection

\* Nothing happens to the caches when the function is found in FN_CACHE.
LEMMA CachesUnchanged ==
  ASSUME CachesInv, UNCHANGED caches
  PROVE  CachesInv'
  BY DEF caches, CachesInv, CachedIsLoaded, KeysAreFaithful, EntriesLinkTheirNames,
         PerConnection, Range, Specifier, LinkedUrls, Declared

\* What CREATE FUNCTION, DO and calls do to the caches.
LEMMA LoadKeeps ==
  ASSUME IInv,
         NEW b \in Backends, NEW oid \in Owners, NEW body \in Bodies, NEW map \in ImportMaps,
         NEW fn, fn.body = body, NEW order \in KeyOrders(map),
         NEW row \in Row,
         \/ LoadOrGetCached(b, oid, AssembleModule(fn, order), map, row)
         \/ LoadFails(b, oid, AssembleModule(fn, order), map, row)
  PROVE  CachesInv'
  <1>1. CachesInv
    BY DEF IInv, TypeOK, CachesInv, Row
  <1>2. /\ AssembleModule(fn, order) \in Assembled
        /\ Range(AssembleModule(fn, order).names) = Declared(map)
    BY SourceOfMap
  <1>3. CASE LoadFails(b, oid, AssembleModule(fn, order), map, row)
    BY <1>1, <1>2, <1>3, LoadFailsKeeps
  <1>4. CASE LoadOrGetCached(b, oid, AssembleModule(fn, order), map, row)
    <2>1. CASE UNCHANGED caches
      BY <1>1, <2>1, CachesUnchanged
    <2>2. CASE LoadSucceeds(b, oid, AssembleModule(fn, order), map, row)
      BY <1>1, <1>2, <2>2, LoadSucceedsKeeps
    <2>3. QED
      BY <1>4, <2>1, <2>2 DEF LoadOrGetCached
  <1>5. QED
    BY <1>3, <1>4

\* The catalog and the rows.
CommittedInv ==
  /\ catalog \in [Oids -> Procs \cup {Absent}]
  /\ rows \in [Owners -> Row]

\* IInv in its two parts, before a step.
LEMMA Parts == IInv <=> CachesInv /\ CommittedInv
  BY DEF IInv, TypeOK, CachesInv, CommittedInv, Row

\* And after it.
LEMMA PartsPrime == IInv' <=> CachesInv' /\ CommittedInv'
  BY DEF IInv, TypeOK, CachesInv, CommittedInv, Row

\* A prefetch leaves a row.
LEMMA PrefetchedIsRow ==
  ASSUME IInv, NEW oid \in Owners, NEW map \in ImportMaps, NEW row \in Prefetched(oid, map)
  PROVE  row \in Row
  BY DEF Prefetched, IInv, TypeOK, Row

-----------------------------------------------------------------------------
\* No connection has cached anything yet, and no module has rows.
LEMMA InitIInv == Init => IInv
  <1> SUFFICES ASSUME Init PROVE IInv
    OBVIOUS
  <1>1. \A b \in Backends : /\ DOMAIN fnCache[b] = {} /\ DOMAIN entries[b] = {}
                            /\ Range(fnCache[b]) = {} /\ Range(entries[b]) = {}
    BY DEF Init, Nothing, Range
  <1>2. PerConnection
    BY DEF Init, PerConnection
  <1>3. TypeOK
    BY <1>1 DEF Init, TypeOK
  <1>4. /\ KeysAreFaithful /\ EntriesLinkTheirNames /\ CachedIsLoaded
    BY <1>1 DEF KeysAreFaithful, EntriesLinkTheirNames, CachedIsLoaded
  <1>5. QED
    BY <1>2, <1>3, <1>4 DEF IInv

\* CREATE FUNCTION: a load, and the commit of the function's rows.
LEMMA CreateFunctionStep ==
  ASSUME IInv, NEW b \in Backends, CreateFunction(b)
  PROVE  IInv'
  <1>1. PICK oid \in Oids, body \in Bodies, map \in ImportMaps :
          \E order \in KeyOrders(map), row \in Prefetched(oid, map) :
            LET fn == [body |-> body, map |-> map]
            IN  /\ LoadOrGetCached(b, oid, AssembleModule(fn, order), map, row)
                /\ Define(oid, fn, row)
    BY DEF CreateFunction
  <1> DEFINE fn == [body |-> body, map |-> map]
  <1>2. PICK order \in KeyOrders(map), row \in Prefetched(oid, map) :
          /\ LoadOrGetCached(b, oid, AssembleModule(fn, order), map, row)
          /\ Define(oid, fn, row)
    BY <1>1
  <1>3. oid \in Owners /\ fn \in Procs /\ fn.body = body
    BY DEF Owners, Procs
  <1>4. row \in Row
    BY <1>3, PrefetchedIsRow
  <1> HIDE DEF fn
  <1>5. CommittedInv'
    BY <1>2, <1>3, <1>4, Parts DEF Define, CommittedInv
  <1>6. CachesInv'
    BY <1>2, <1>3, <1>4, LoadKeeps
  <1>7. QED
    BY <1>5, <1>6, PartsPrime

\* CREATE FUNCTION on another connection: the commit alone.
LEMMA CreateElsewhereStep ==
  ASSUME IInv, CreateElsewhere
  PROVE  IInv'
  <1>1. PICK oid \in Oids, fn \in Procs : \E row \in Prefetched(oid, fn.map) : Define(oid, fn, row)
    BY DEF CreateElsewhere
  <1>2. PICK row \in Prefetched(oid, fn.map) : Define(oid, fn, row)
    BY <1>1
  <1>3. oid \in Owners /\ fn.map \in ImportMaps
    BY DEF Owners, Procs
  <1>4. row \in Row
    BY <1>3, PrefetchedIsRow
  <1>5. CommittedInv'
    BY <1>2, <1>3, <1>4, Parts DEF Define, CommittedInv
  <1>6. CachesInv'
    BY Parts, CachesUnchanged DEF CreateElsewhere
  <1>7. QED
    BY <1>5, <1>6, PartsPrime

\* CREATE FUNCTION or DO that fails or is rolled back: the load alone.
LEMMA RollsBackStep ==
  ASSUME IInv, NEW b \in Backends, NEW oid \in Owners, RollsBack(b, oid)
  PROVE  IInv'
  <1>1. PICK body \in Bodies, map \in ImportMaps :
          LET fn == [body |-> body, map |-> map]
          IN  \E order \in KeyOrders(map), row \in Prefetched(oid, map) :
                /\ RoomFor(b, Specifier(oid, AssembleModule(fn, order)))
                /\ \/ LoadOrGetCached(b, oid, AssembleModule(fn, order), map, row)
                   \/ /\ ~Cached(b, oid, AssembleModule(fn, order))
                      /\ LoadFails(b, oid, AssembleModule(fn, order), map, row)
    BY DEF RollsBack
  <1> DEFINE fn == [body |-> body, map |-> map]
  <1>2. PICK order \in KeyOrders(map), row \in Prefetched(oid, map) :
          \/ LoadOrGetCached(b, oid, AssembleModule(fn, order), map, row)
          \/ LoadFails(b, oid, AssembleModule(fn, order), map, row)
    BY <1>1
  <1>3. fn.body = body
    OBVIOUS
  <1>4. row \in Row
    BY PrefetchedIsRow
  <1> HIDE DEF fn
  <1>5. CommittedInv'
    BY Parts DEF RollsBack, CommittedInv
  <1>6. CachesInv'
    BY <1>2, <1>3, <1>4, LoadKeeps
  <1>7. QED
    BY <1>5, <1>6, PartsPrime

\* DO: a load, and the commit of the block's rows.
LEMMA InlineHandlerStep ==
  ASSUME IInv, NEW b \in Backends, InlineHandler(b)
  PROVE  IInv'
  <1>1. PICK body \in Bodies, map \in ImportMaps :
          \E order \in KeyOrders(map), row \in Prefetched(DoBlock, map) :
            LET fn == [body |-> body, map |-> map]
            IN  /\ LoadOrGetCached(b, DoBlock, AssembleModule(fn, order), map, row)
                /\ rows' = [rows EXCEPT ![DoBlock] = row]
                /\ UNCHANGED catalog
    BY DEF InlineHandler
  <1> DEFINE fn == [body |-> body, map |-> map]
  <1>2. PICK order \in KeyOrders(map), row \in Prefetched(DoBlock, map) :
          /\ LoadOrGetCached(b, DoBlock, AssembleModule(fn, order), map, row)
          /\ rows' = [rows EXCEPT ![DoBlock] = row]
          /\ UNCHANGED catalog
    BY <1>1
  <1>3. DoBlock \in Owners /\ fn.body = body
    BY DEF Owners
  <1>4. row \in Row
    BY <1>3, PrefetchedIsRow
  <1> HIDE DEF fn
  <1>5. CommittedInv'
    BY <1>2, <1>3, <1>4, Parts DEF CommittedInv
  <1>6. CachesInv'
    BY <1>2, <1>3, <1>4, LoadKeeps
  <1>7. QED
    BY <1>5, <1>6, PartsPrime

\* A call: a hit, or a load.
LEMMA CallHandlerStep ==
  ASSUME IInv, NEW b \in Backends, CallHandler(b)
  PROVE  IInv'
  <1>1. PICK oid \in Oids :
          /\ catalog[oid] # Absent
          /\ \E order \in KeyOrders(catalog[oid].map) :
               \/ LoadOrGetCached(b, oid, AssembleModule(catalog[oid], order), catalog[oid].map, rows[oid])
               \/ LoadFails(b, oid, AssembleModule(catalog[oid], order), catalog[oid].map, rows[oid])
    BY DEF CallHandler
  <1>2. catalog[oid] \in Procs
    BY <1>1 DEF IInv, TypeOK
  <1>3. catalog[oid].body \in Bodies /\ catalog[oid].map \in ImportMaps
    BY <1>2 DEF Procs
  <1>4. oid \in Owners /\ rows[oid] \in Row
    BY DEF Owners, IInv, TypeOK, Row
  <1>5. CachesInv'
    BY <1>1, <1>3, <1>4, LoadKeeps
  <1>6. CommittedInv'
    BY Parts DEF CallHandler, CommittedInv
  <1>7. QED
    BY <1>5, <1>6, PartsPrime

\* DDL without a handler changes the catalog and the rows, and no cache.
LEMMA DdlStep ==
  ASSUME IInv, AlterImportMap \/ DropFunction
  PROVE  IInv'
  <1>1. UNCHANGED caches
    BY DEF AlterImportMap, DropFunction
  <1>2. catalog' \in [Oids -> Procs \cup {Absent}]
    <2>1. CASE AlterImportMap
      <3>1. PICK oid \in Oids, map \in ImportMaps :
              catalog[oid] # Absent /\ catalog' = [catalog EXCEPT ![oid].map = map]
        BY <2>1 DEF AlterImportMap
      <3>2. catalog[oid] \in Procs
        BY <3>1 DEF IInv, TypeOK
      <3>3. [catalog[oid] EXCEPT !.map = map] \in Procs
        BY <3>2 DEF Procs
      <3>4. QED
        BY <3>1, <3>3 DEF IInv, TypeOK
    <2>2. CASE DropFunction
      BY <2>2 DEF DropFunction, IInv, TypeOK
    <2>3. QED
      BY <2>1, <2>2
  <1>3. rows' \in [Owners -> Row]
    BY DEF AlterImportMap, DropFunction, IInv, TypeOK, Row
  <1>4. CommittedInv'
    BY <1>2, <1>3 DEF CommittedInv
  <1>5. CachesInv'
    BY <1>1, Parts, CachesUnchanged
  <1>6. QED
    BY <1>4, <1>5, PartsPrime

\* A new process has empty caches.
LEMMA ReconnectStep ==
  ASSUME IInv, NEW b \in Backends, Reconnect(b)
  PROVE  IInv'
  <1>1. /\ \A c \in Backends : c # b => /\ fnCache'[c] = fnCache[c] /\ entries'[c] = entries[c]
                                        /\ modules'[c] = modules[c] /\ broken'[c] = broken[c]
        /\ fnCache'[b] = Nothing /\ entries'[b] = Nothing
        /\ modules'[b] = [u \in Urls |-> Absent] /\ broken'[b] = {}
        /\ UNCHANGED <<catalog, rows>>
        /\ modules' \in [Backends -> Row] /\ broken' \in [Backends -> SUBSET Urls]
    BY DEF Reconnect, IInv, TypeOK, PerConnection, Row
  <1>2. DOMAIN Nothing = {} /\ Range(Nothing) = {}
    BY DEF Nothing, Range
  <1>3. PerConnection'
    BY DEF Reconnect, IInv, PerConnection
  <1>4. \A c \in Backends :
          /\ DOMAIN fnCache'[c] \subseteq Keys
          /\ Range(fnCache'[c]) \subseteq DOMAIN entries'[c]
          /\ DOMAIN entries'[c] \subseteq Specifiers
          /\ Range(entries'[c]) \subseteq ImportMaps
    BY <1>1, <1>2 DEF IInv, TypeOK
  <1>5. KeysAreFaithful'
    BY <1>1, <1>2 DEF IInv, KeysAreFaithful, Specifier
  <1>6. EntriesLinkTheirNames'
    BY <1>1, <1>2 DEF IInv, EntriesLinkTheirNames, Declared, Range
  <1>7. CachedIsLoaded'
    <2> SUFFICES ASSUME NEW c \in Backends, NEW s \in Range(fnCache'[c])
                 PROVE  /\ s \in DOMAIN entries'[c]
                        /\ Range(s.source.names) = Declared(entries'[c][s])
                        /\ \A u \in LinkedUrls(entries'[c][s]) :
                             modules'[c][u] # Absent /\ u \notin broken'[c]
      BY DEF CachedIsLoaded, Range, Declared, LinkedUrls
    <2>1. c # b
      BY <1>1, <1>2
    <2>2. QED
      BY <1>1, <2>1 DEF IInv, CachedIsLoaded
  <1>8. CachesInv'
    BY <1>1, <1>3, <1>4, <1>5, <1>6, <1>7 DEF CachesInv
  <1>9. CommittedInv'
    BY <1>1 DEF CommittedInv, IInv, TypeOK, Row
  <1>10. QED
    BY <1>8, <1>9, PartsPrime

\* Every step keeps the invariant.
LEMMA NextIInv == IInv /\ [Next]_vars => IInv'
  <1> SUFFICES ASSUME IInv, [Next]_vars PROVE IInv'
    OBVIOUS
  <1>1. CASE UNCHANGED vars
    BY <1>1 DEF vars, caches, IInv, TypeOK, PerConnection, KeysAreFaithful, EntriesLinkTheirNames,
                CachedIsLoaded, Range, Declared,
                LinkedUrls, Specifier
  <1>2. CASE CreateElsewhere
    BY <1>2, CreateElsewhereStep
  <1>3. CASE AlterImportMap \/ DropFunction
    BY <1>3, DdlStep
  <1>4. ASSUME NEW b \in Backends,
               \/ CreateFunction(b) \/ CreateRollsBack(b)
               \/ InlineHandler(b) \/ InlineRollsBack(b)
               \/ CallHandler(b) \/ Reconnect(b)
        PROVE  IInv'
    BY <1>4, CreateFunctionStep, RollsBackStep, InlineHandlerStep, CallHandlerStep, ReconnectStep
       DEF CreateRollsBack, InlineRollsBack, Owners
  <1>5. QED
    BY <1>1, <1>2, <1>3, <1>4 DEF Next

-----------------------------------------------------------------------------
\* The inductive invariant: the caches follow from their keys and names.
THEOREM Inductive == Spec => []IInv
  <1>1. Init => IInv
    BY InitIInv
  <1>2. IInv /\ [Next]_vars => IInv'
    BY NextIInv
  <1>3. QED
    BY <1>1, <1>2, PTL DEF Spec

\* Type correctness: the caches are partial functions of keys and specifiers.
THEOREM TypeCorrect == Spec => []TypeOK
  <1>1. IInv => TypeOK
    BY DEF IInv
  <1>2. QED
    BY <1>1, Inductive, PTL

\* FN_CACHE answers with the body and the imported names of the function's
\* catalog row, whatever DDL, roll-backs and DO blocks went before.
THEOREM OwnBody == Spec => []CallsRunTheirBody
  <1>1. IInv => CallsRunTheirBody
    <2> SUFFICES ASSUME IInv, NEW b \in Backends, NEW oid \in Oids, catalog[oid] # Absent,
                        NEW order \in KeyOrders(catalog[oid].map),
                        Cached(b, oid, AssembleModule(catalog[oid], order))
                 PROVE  LET spec == fnCache[b][CacheKey(oid, AssembleModule(catalog[oid], order))]
                        IN  /\ spec.prefix = "fn"
                            /\ spec.source.body = catalog[oid].body
                            /\ Range(spec.source.names) = Declared(catalog[oid].map)
      BY DEF CallsRunTheirBody
    <2> DEFINE source == AssembleModule(catalog[oid], order)
    <2>1. catalog[oid].body \in Bodies /\ catalog[oid].map \in ImportMaps
      BY DEF IInv, TypeOK, Procs
    <2>2. /\ source.body = catalog[oid].body
          /\ Range(source.names) = Declared(catalog[oid].map)
      BY <2>1, SourceOfMap
    <2> HIDE DEF source
    <2>3. fnCache[b][CacheKey(oid, source)] = Specifier(oid, source)
      BY DEF source, Cached, CacheKey, IInv, KeysAreFaithful
    <2>4. oid # DoBlock
      BY ModuleCachesAssumption DEF ModuleCachesAssumption
    <2>5. QED
      BY <2>2, <2>3, <2>4 DEF source, Specifier
  <1>2. QED
    BY <1>1, Inductive, PTL

\* A function in FN_CACHE is one that loaded: every import linked to a module
\* that is there and did not throw.
THEOREM CachedLoaded == Spec => []CachedIsLoaded
  <1>1. IInv => CachedIsLoaded
    BY DEF IInv
  <1>2. QED
    BY <1>1, Inductive, PTL
=============================================================================
