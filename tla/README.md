# A TLA+ model of the TypeScript procedural language for PostgreSQL

The repository is a PostgreSQL extension, written in Rust with pgrx and
`deno_core`, that adds `LANGUAGE typescript`. This directory holds TLA+ modules
that model the extension, TLC configurations that check them on small
instances, and proofs that TLAPS checks for every instance.

| file | what it is |
|---|---|
| `Backend.tla` | one backend: handlers, shared V8 runtime, event loop, `_pg.execute` |
| `RuntimeContract.tla` | what the handlers promise, implemented by `Backend` |
| `Permissions.tla` | `typescript.*` settings, caps and admission |
| `AdmissionContract.tla` | what the settings promise, implemented by `Permissions` |
| `ModuleStore.tla` | prefetch, module rows, loader, clean-up |
| `ModuleCaches.tla` | `FN_CACHE` and V8's module map across statements, DDL and reconnections |
| `Sessions.tla` | several backends over one table of modules, one SQL command at a time |
| `FunctionRegistry.tla` | what the sessions promise one another, implemented by `Sessions` |
| `Values.tla` | values on their way into JavaScript and back |
| `NumbersProofs.tla` | lemmas about the numbers of `Values`: powers of two, grids, rounding, saturation |
| other `*Proofs.tla` | theorems about the module of the same name |
| `MC*.tla`, `MC*.cfg` | small instances for TLC |
| `PROJECT.json` | runs, mutants, hazards, theorems, and the source lines of each definition |

To check: `tlc -config MCBackend.cfg MCBackend.tla` and so on for the runs
below, `tlapm BackendProofs.tla` and so on for the proofs.

## 1. Inventory

### How the parts interact

PostgreSQL calls one of three handlers of `plhandler.rs`: for a function call,
for the validation of `CREATE FUNCTION`, and for `DO`. Each handler

1. reads the catalog row or the block's text, the function's own settings
   (`proconfig`) or the session's, and the superuser's caps, and refuses what
   the caps do not cover (`guc.rs`, `permissions.rs`);
2. (validator and `DO` only) walks the import graph over the network and
   stores every module in `deno_internal.deno_package_modules` through SPI
   (`fetch.rs`, `module_store.rs`);
3. borrows the one runtime of the backend, a thread-local `RefCell`, and puts
   the permissions and the `_pg` gate into its `OpState` (`runtime.rs`,
   `extensions/pg.rs`);
4. looks up `FN_CACHE`, and if the function is not there sets the loader's
   context, loads the assembled module, evaluates it, and clears the context
   (`loader.rs`, which reads the rows of step 2);
5. (call and `DO` only) opens the gate, runs the default export, polls the
   event loop until the returned promise settles, converts the value
   (`convert.rs`), shuts the gate and drops the borrow.

JavaScript reaches PostgreSQL again by `_pg.execute`, which runs SQL through
SPI on the same thread; that SQL may call a TypeScript function, so step 1
starts again below step 5. The state that steps share is: the borrow flag and
`OpState` of the runtime, the loader's context, `FN_CACHE`, V8's module map,
the event loop, and the table of modules, which all backends see.

### Components

| component | source | state | operations | hard part | what makes it correct |
|---|---|---|---|---|---|
| Handlers and runtime | `plhandler.rs`, `runtime.rs`, `extensions/pg.rs` | `JS_RT` borrow, `PgExecuteState`, `PermissionsContainer`, `FN_CACHE`, event loop | call, validate, inline; load, evaluate, run, poll; `_pg.execute` | re-entrance, an error path out of every phase, work that outlives its call | the shared state always belongs to the one invocation inside, and is clean when there is none |
| Permissions | `guc.rs`, `permissions.rs` | setting texts of functions and session, caps, `max_imports` | SET, ALTER FUNCTION, ALTER SYSTEM, admission | three meanings of "empty", nothing checked when set, changes between validation and call | code runs with what it asked for, within the caps of that moment |
| Prefetch, store, loader | `fetch.rs`, `module_store.rs`, `loader.rs`, `lib.rs` | rows (oid, specifier, source), loader context | prefetch, resolve, load, clean up on drop | two walks of one graph at two times, a changing network, cycles, failures half-way | what the validator accepted can be loaded; nothing beyond the cap; all or nothing |
| `FN_CACHE` and V8's module map | `plhandler.rs`, `runtime.rs` | per-backend caches | look up, insert | neither follows DDL or a roll-back | a call runs the code its catalog row describes |
| Several backends | `plhandler.rs`, `lib.rs` | the table, the catalog | everything above, in concurrent transactions | all `DO` blocks share oid 0; ways of dropping the trigger does not see | functions and their rows change together; every statement ends |
| `_pg.execute` data | `extensions/pg.rs`, `js/pg_*.js` | none | infer parameter types, bind, fetch rows | int8 limits, errors caught without a subtransaction | the statement gets the values it was given, or fails |
| Conversion | `convert.rs` | none | datum to V8 and back | limits of float4, int8, NaN through JSON | a value survives, or the call fails |
| Console | `extensions/console.rs`, `js/console_*.js` | none | one message per `console.*` call | none | message level |
| Transpilation, error reports | `loader.rs`, `plhandler.rs` | none | TypeScript to JavaScript, by swc | none | pure function of the source |
| Build, examples, type packages | `build.rs`, `examples/`, `packages/` | none | | none | |

The hazards of each, at the line where they bite, are in `PROJECT.json`
(`hazards`), with the properties that would catch them, or the reason none does
yet.

## 2. The modules

### Backend: one backend and its runtime

`stack` is the C stack, reduced to handler invocations and the SQL statements
their JavaScript is executing. A handler frame records what the handler reads
on entry (`kind`, `oid`, `source`, effective `grant`, whether SQL is granted)
and its `phase`:

| phase | where the code is |
|---|---|
| `setup` | before `with_runtime`: catalog, settings, caps, prefetch |
| `entered` | borrowed, gate shut, permissions set; `FN_CACHE` not yet consulted |
| `loading` | `load_side_es_module`, context set |
| `evaluating` | `mod_evaluate` and its event loop, context set |
| `loaded` | the default export is at hand |
| `body`, `awaiting`, `settled` | `run_function`, gate open: JavaScript running, the promise pending, the promise ready |

The other variables are the shared state itself: `borrowed` (`JS_RT`), `ctx`
(`PgModuleLoader::ctx`), `pgState` (`PgExecuteState`), `perms`
(`PermissionsContainer`), `fnCache` (keys of `FN_CACHE`), `tasks` (work in the
event loop, each piece with the oid whose code started it).

Actions: `CallHandler`, `Validator`, `InlineHandler` push a frame;
`SetupFails`, `BorrowRefused` (the nested `borrow_mut` panics), `EnterRuntime`,
`PermissionsInvalid` are the ways out of `setup`; `UseCached`, `StartLoading`,
`LoadFails`, `LoadSucceeds`, `EvaluationFails`, `EvaluationSucceeds`,
`PreloadReturns` load; `StartBody`, `BodyFails`, `Await`, `BodySettles`,
`Return` run; `StartTask`, `TaskCompletes`, `TaskRejects`, `LoopRunsDry` are the
event loop; `PgExecute`, `StatementReturns` are SQL. Everything that leaves the
runtime goes through `Leave`, which is what the guards of the code restore on
drop, by scope.

Abstractions: the values of `Grants` and `Sources` are opaque; which grant an
invocation gets is the business of `Permissions`. The prefetch is part of
`setup`, and any error of it is `SetupFails`; it is modelled in `ModuleStore`.
`Slots` bounds the work outstanding in the event loop. One piece of work may
reach `_pg.execute` while it is polled, or complete, or reject; timers and ops
are not told apart. The effects of SQL on tables are left out. The runtime
exists from the start, since `_PG_init` prewarms it. Dynamic `import()` is left
out. An oid and a `Sources` value identify a cached function, as
`(Oid, hash_str)` does; what such an entry was compiled from is the business of
`ModuleCaches`.

`RuntimeContract` is the promise: a runtime lent to one lessee at a time; a gate
that opens only for a lessee that was granted SQL, and shuts when the runtime is
given back; while a statement executes, nothing moves. The refinement mapping
reads the lease off the outermost frame and the rest off the shared state, so
`ImplementsContract` says that the shared state follows the stack.

### Permissions: texts, caps, admission

State is what PostgreSQL keeps: per kind of code (`"function"`: the function's
`proconfig`; `"do"`: the session's settings) the text of each `allow_*` setting
and the import map; the texts of `max_allow_*` and of `max_imports`; and
`running`, what the code that runs now was handed. A text is `blank`, a word for
nothing (`off`), a word for everything (`star`), or a list with the set of its
trimmed entries. The list may be empty: that is the text `","`.

`ParseRaw`, `IntersectPermission`, `Unfulfillable`, `ToRuntime` are the
functions of `guc.rs` and `permissions.rs` of those names; `Admitted` is the
conjunction of the checks all three handlers make, in any order, since each only
fails the statement. `SetRequest`, `SetImportMap`, `SetCap`, `SetMaxImports` are
unchecked, as in the code; `CreateFunction` goes through the validator; `Begin`
and `End` are an invocation, and settings may change in between.

Abstractions: order and repetition in lists do not matter to any of these
functions and are dropped. What an entry of a list lets the Deno runtime reach
is `Covers`, an arbitrary function of the entry; what it is a prefix of, for
`max_imports`, is `Under`; so a `max_imports` entry and an `allow_import` entry
of the same text may mean different things, as they do. Permission descriptors
that Deno rejects are `Malformed`. The function `Granted` models the runtime's
reading of `Option<Vec<String>>`: none is nothing, the empty list is everything.

`AdmissionContract` is the promise with sets of resources: code runs only if
everything it asks for lies within the caps, and then with exactly that, until
it ends. The refinement mapping maps each text to the resources it stands for.

### ModuleStore: where imports come from

`store`, `catalog` are the committed rows and import maps; `rows` the rows as
the transaction of the `statement` in progress sees them; `web` what the network
serves, which changes (`WebChanges`). The two walks of the import graph, the
prefetch's and the loader's, use `pending` (asked for, not there), `seen` and
`failed`. Both ask for what an arriving module imports through `Discover`, since
both go through `ImportMapResolver::resolve_from_dependency`; they differ in
where a module comes from (`PrefetchModule`: the row or else the network,
upserted; `LoadModule`: the row or an error) and in how an error ends the walk
(an unresolved import does not stop the prefetch at once, a failed fetch does).

`CreateFunction`, `InlineHandler`, `CallHandler` begin a statement;
`AlterImportMap` changes a function's import map with no handler involved;
`DropFunction` is the trigger. `StatementAborts` ends a statement at any moment:
a syntax error, a cancelled query, a crash of the server. PostgreSQL's
transaction does the recovery, so `Abort` puts `rows` back to `store`.

`DropElsewhere` is every other way a function goes, without the trigger:
`DROP PROCEDURE`, `DROP SCHEMA ... CASCADE`, `DROP OWNED`; its rows stay for
whatever function gets the oid next.

`vetted` records that a function's import map last went through the validator.
It is not in the code; it is what the properties are relative to.

Abstractions: one session, each statement a transaction of its own. The role
that runs a function may see its rows (the row-security policy asks
`has_function_privilege`, which a caller has). Every load is by a backend whose
V8 has not seen the modules; with them in V8's module map it asks for fewer.
Only static imports are followed, as `skip_dynamic_deps` says. A module that does
not parse ends the statement, by `StatementAborts`.

### ModuleCaches: what outlives a statement

One step is one statement, since `ModuleStore` and `Sessions` have the inside of
it. `catalog` has the body and the import map of each function, `rows` the
committed module rows; per connection, `fnCache` maps the keys of `FN_CACHE` to
entry modules, `entries` is V8's module map for entry modules, with the URLs
their imports were linked to, `modules` the source V8 compiled for each URL,
`broken` the URLs whose evaluation threw.

`AssembleModule` is the text that is hashed: body, parameters and the *names* of
the import map, in the order a `HashMap` happens to give them (`KeyOrders`, a
choice made anew by each statement). `CacheKey` is `(Oid, u64)`, and two texts
are taken to have different hashes. `LoadSucceeds`, `ModuleMissing`,
`EvaluationThrows` are the ends of a load: V8 links a specifier once, keeps what
it found even if something else was missing, and never evaluates again a module
that threw. `CreateRollsBack` is a `CREATE FUNCTION` that fails or whose
transaction is rolled back, `InlineRollsBack` a `DO` block whose load or body
fails or that is rolled back: the rows go, the caches keep what they got.
`Reconnect` ends the process.

Abstractions: a module stands for itself and all it imports. `Evaluated` has the
modules that are known to have evaluated: those of functions in `FN_CACHE`.
`MaxEntries` bounds the entry modules a connection assembles.

### Sessions: several backends

`store` and `catalog` are committed. `work` is the statement of each session
with its `phase`: `tuple` (its change of the `pg_proc` row, which `CREATE`,
`ALTER` and `DROP` make before the handler or the trigger gets to work),
`changed` (a statement that changes no more than that: `AlterImportMap`, and
`DropElsewhere`, which the clean-up trigger does not see), `clear` (the
`DELETE`, row by row), `prefetch` and `write` (`load_module`, and the upsert),
`catalog` (a call about to read `pg_proc`), `load`. `written` and `gone` are the
changes of its transaction, `todo` what is left of the phase, `at` the row it
stopped at. `inStep` is not in the code: it keeps the functions whose `pg_proc`
row was last changed by `CREATE FUNCTION` or by a `DROP FUNCTION` with the
trigger, which are those the properties can promise something about. A function
whose import map was altered to other modules may say "module not cached", and
one that was dropped otherwise leaves its rows.

Each SQL command the handlers issue through SPI takes a snapshot of its own in a
transaction that has written; a call whose transaction has not sees the
snapshot of the statement that calls, while `PgProc::new` reads the catalog of
the moment, so `CallHandler` allows both snapshots. A row that another
transaction has changed is waited for, and `Ended` is what becomes of the
waiters: a `DELETE` skips a row that was deleted meanwhile, a second change of
one `pg_proc` row fails with "tuple concurrently updated". `DeadlockDetected` is
PostgreSQL's detector.

`FunctionRegistry` is the promise: the import map of a function and its rows are
published together and removed together (`Publish`, `Remove`); only what goes
around the validator and the trigger changes the one without the other, and puts
the function out of step (`FallBehind`); `DO` blocks touch only their own rows.
The refinement is the identity on the committed state.

Abstractions: each statement is a transaction of its own; the import graph is
flat; V8 has seen none of the modules. `UndisturbedFindEverything` claims
nothing of a call during which another session commits a change of the same
function: it may miss modules or run old and new ones together, as the rows are
read one by one.

### Values: conversions

A column of some type (`column`), what is `stored` in it, and what JavaScript
`held`s. `PassArgument` is `PgDatum::serialize`, `FetchRow` is
`OwnedPgValue::from_datum`, `Compute` any value JavaScript can make itself;
`ReturnIt`, `BindInferred`, `BindTyped` write the held value back the three ways
there are, in any order, over and over. `BindInferred` binds the value by itself
and `BindTyped` gives it the column's type. `EncodeParam` is what `pg_hook.js`
makes of the first: a plain object with just the keys `type` and `value` (tag
`"param"`) is a typed parameter, of whatever type the string under `type` names,
and anything else has its type inferred. `Assigned` is PostgreSQL's assignment
of the parameter to the column. `original` remembers what was there.

A finite number is the integer of its halves, which is enough to have
fractions; the integer types have `W2 < W4 < W8` bits, and floats `P4 < P8`
significant bits and a largest exponent, so that `W4 <= P8 < W8`: int4 fits a
number and int8 does not, as 32, 53 and 64. jsonb numbers go beyond both. The
result of a conversion is a set where it is up to PostgreSQL's input functions,
or to `serde_v8`, which may hand on a bigint or refuse it. An object or array
has one field, which is a leaf, and so is what a document `{type, value}` has
under `value`; a row has one column, so that none reads as `{type, value}`; the
names under `type` are of scalar types. Strings are opaque, but for `"out"`,
the text an output function gave, and for `JsonText`, the document a string is
the text of, if any. `InputText` is what an input function makes
of the text of a parameter: a string is a text column's own value, and whatever
value of it the column's type has otherwise. A float assigned to an integer
column goes to one of its neighbours, for PostgreSQL to choose. `Rounded` breaks
ties one way. `Loses(type, v, w)` is the relation of a value to what the
conversions may make of it, in however many round trips: `Saturated`,
`RoundedLeaves` or `RoundedDocs` for numbers, `Unpacked` for documents taken for
typed parameters, `ParsedTo` for strings read as JSON, `FieldLost`.

## 3. Runs

States are distinct states; each run takes from a few seconds to two minutes.

| run | instance | shows |
|---|---|---|
| `backend` | 2 functions + `DO`, 2 grants, 2 tasks; 67,984 states | `IdleIsClean`, `OneInvocationInside`, `HolderHasItsGrants`, `ContextIsScoped`, `SqlOnlyBelowABody`, `NestedLeavesRuntimeAlone`, `ImplementsContract`, `EveryCallReturns` |
| `backend_drain` | 1 task | `DrainedBeforeReturn` is violated (finding 1) |
| `backend_direct` | 2 functions, 1 task | `OnlyTheDirectCallExecutesSql` is violated (finding 2) |
| `permissions` | all forms of text over 2 good entries and a malformed one; 105,300 states | `ImportsWithinCap`, `NothingWithoutAsking`, `ImplementsAdmission` |
| `permissions_kinds` | functions and `DO` together, fewer texts; 137,781 states | `ImplementsAdmission` |
| `module_store` | 2 modules that may form a cycle, 2 names, 1 function + `DO`; 261,864 states | `VettedIsRunnable`, `LoaderFindsEverything`, `PrefetchWithinCap`, `PrefetchIsFresh`, `OtherRowsUntouched`, `AllOrNothing`, `StatementsEnd` |
| `caches` | 1 connection and others, 2 functions + `DO`, 2 bodies, 3 import maps (none, and 2 names with their URLs either way); 160,594 states up to symmetry | `CallsRunTheirBody`, `CachedIsLoaded` |
| `caches_reload` | 2 functions, 4 import maps, 2 versions of a module | `RepeatedCallsHit` is violated (finding 3) |
| `caches_alter` | the same | `AlterGetsAFreshEntry` is violated (finding 4) |
| `sessions` | 2 connections, 1 function that imports one module or both + `DO` that imports both; 118,381 states | `CreateFindsEverything`, `UndisturbedFindEverything`, `OnlyDoBlocksDeadlock`, `FunctionsHaveTheirModules`, `ImplementsRegistry`, `StatementsEnd` |
| `sessions_do` | `DO` blocks that import one module or both | `DoFindsEverything` is violated (finding 5) |
| `values` | integers of 2, 3 and 5 bits, floats of 2 and 3 significant bits, 2 strings, one the text of a document; 29,637 states | `OnlyKnownLosses`, `ReturnsAreExact`, `ParametersAreExact`, `JsonParametersAreExact` |

**Why the bounds are enough.** In `Backend` no state constraint is needed: a
nested handler never gets beyond its setup, so the stack is at most three deep
(handler, statement, handler), and the set of states is finite by itself. Two
functions and two grants are the fewest with which state can belong to the
wrong one; `DO` blocks give a third owner. Two tasks let one complete while a
body waits for the other, and let an earlier call's work meet a later call's.
In `Permissions` two entries give lists that are equal, disjoint, nested and
overlapping only in part once the malformed entry counts as the third. In
`ModuleStore` two modules make a cycle and an import at distance two through a
name; a function against `DO` is the fewest owners with rows to confuse; the
cap `{a}` admits a root and not what it imports. In `ModuleCaches` a map of two
names has two orders, two maps give one name different URLs, and two functions
and `DO` blocks over two bodies make every pair of owners with the same
assembled text and with another one; functions, and bodies, are
interchangeable, hence the symmetry. `MaxEntries` is two since a load looks at
one entry and may leave another behind, and other connections act through
`CreateElsewhere`. `caches` has one version of each module, as its properties do
not tell versions apart. In `Sessions` two connections and two rows are what a
deadlock of row locks takes; that a function without an import map has no
prefetch is in `sessions_do` and in the theorems, where import maps are any. In `Values` the
widths keep the order of the real ones and leave room between them, so that
each boundary has values on both sides; JavaScript computes a value only for a
column that is NULL, which is where every column can get to. What small
instances cannot show is settled by the theorems, which hold for any sets.

**Deadlock** is checked in every run: a client can always issue a statement.

**Fairness.** `Backend!FairSpec` has weak fairness for the handlers' own steps,
which are straight-line code of one thread, and strong fairness for user code
that the handler waits for: that module evaluation ends, that a running body
settles or throws, that work it awaits completes, that SQL returns. The code has
no timeout, so without these `EveryCallReturns` would say nothing about it: an
endless loop in a body hangs the backend for good, since no JavaScript looks at
a cancel request: the process has to be killed. Work left
in the event loop by earlier calls is under no fairness: an interval may go on
for ever, and `KeptBusy` is that case. `EveryCallReturns` says that every call
returns or such work keeps the loop busy for ever; nothing else of the extension
makes a call hang: not re-entrance, not a promise no one will settle (the loop
runs dry and the call fails). Clients need not issue anything.
`ModuleStore!FairSpec` has weak fairness for the steps of the walks: both are
loops of one thread, and an HTTP request ends with an answer or an error. The
network and the clients are under no fairness.
`Sessions!FairSpec` has strong fairness for the steps of each session, since a
step that waits for a row is enabled only now and then, while PostgreSQL's lock
queues let each waiter have its turn, and weak fairness for the deadlock
detector, which runs after `deadlock_timeout`. `StatementAborts` is under none:
`StatementsEnd` holds without anyone cancelling a query.

**Mutants.** Each property of a passing run is paired in `PROJECT.json` with a
mutated form of a definition, which stands in the modules just before the
definition and is marked `Mutant`. With it in place of the definition, TLC finds
the property violated.

## 4. Findings

1. `src/tests/pg_regress/sql/async.sql:1` says "the event loop is drained before
   the result is returned". `with_event_loop_promise` polls the loop only until
   the promise of the body is ready: `backend_drain` shows a call that starts a
   timer and returns with it still in the loop. It runs, if at all, during some
   later call of the same backend.
2. `src/src/extensions/pg.rs:641-643` says of the flag that lets `_pg.execute`
   through: "Only the direct user-function call gets the 'inside the function
   body' flag. Module evaluation and other shared-runtime work keep it off". The
   flag belongs to the `OpState`, not to a call, and work left over by an earlier
   call runs while a later body is awaited: `backend_direct` shows such work executing SQL with the flag, and
   the permissions, of the later function.

3. `src/README.md:103-105` says that `FN_CACHE` is there "so repeated calls do
   not need to reload and reevaluate the module". `assemble_module`
   (`plhandler.rs:488`) writes the imports in the order of a `HashMap` that is
   built anew for each call. With two names the hash has two values, with n
   names n!: `caches_reload` shows a function that is cached and whose next call
   misses. The call then loads and evaluates the entry module again, and
   `FN_CACHE` has one more entry. The modules it imports are not evaluated again.
4. `src/src/plhandler.rs:263-264` says "Keying on source_hash means ALTER FUNCTION
   (which changes the source) automatically gets a fresh entry". ALTER FUNCTION
   cannot change the body, it changes settings, and of these the hashed text has
   only the names of the import map: `caches_alter` shows an ALTER FUNCTION that
   gives a name another URL and finds the entry with the old one.
5. `src/src/plhandler.rs:211-212` says of `DO` blocks "Fetch and cache all
   dependencies before execution". The rows are those of oid 0, which `DO`
   blocks of all connections share. A row that the prefetch finds it uses
   without writing, hence without locking: `sessions_do` shows another
   connection's block deleting it before the load, which fails with "module not
   cached". For a function this cannot happen (`CreateFindsEverything`), as its
   `pg_proc` row is locked first.

All of them are about what a comment says and the code does; the properties of
the passing runs hold in spite of them (`SqlOnlyBelowABody` holds: the statement is
below *a* body that was granted SQL, though it may not be that body's;
`CallsRunTheirBody` holds: the body is the function's own, though the modules may
be those of an earlier import map).

The list in `Values!OnlyKnownLosses` is what the conversions lose by design or
by oversight; no comment of the code says otherwise. A whole number beyond int8
that is a parameter without a type becomes the largest int8; jsonb numbers that
are neither i64, u64 nor float8 are rounded; 2^63 inside an object or array
becomes 2^63 - 1 (`i64::MAX as f64` is 2^63); jsonb null comes back as SQL NULL,
and a jsonb string given with the type jsonb is parsed; a jsonb document
`{"type": "jsonb", "value": 1}` that is read and bound again is taken for a
typed parameter (`pg_hook.js:21-25`) and stored as `1`; NaN and infinity in a
row that was an argument come back as NULL.

## 5. Proofs

TLAPS checks these for every value of the constants that satisfies the named
assumption of the module (`BackendAssumption`, `PermissionsAssumption`,
`ModuleStoreAssumption`, `ModuleCachesAssumption`, `SessionsAssumption`:
distinctness of markers, and the types of the functions that are constants;
`ValuesAssumption`: the order of the widths, which is that of 16, 32 and 64 bits
and of 24 and 53 significant bits). No set needs to be finite but `Names` of `ModuleCaches`, the names an import map may
declare, whose keys `assemble_module` writes one after another.

**`BackendProofs`.** The invariants of `Backend` are not inductive one by one:
that the borrow is given back needs the shape of the stack, and the shape needs
the borrow flag, as only it keeps a nested handler from entering. `IInv` is
their conjunction with the facts about frames they rest on: a statement lies
directly on the holder's frame, at most one handler lies on that statement and
is in its setup, the gate is open exactly in body phases, and the validator is
never in one (which `TypeOK` says of every frame). Each action is then a lemma, and `Inductive`, `TypeCorrect`, `CleanWhenIdle`,
`OneInside`, `GrantsOfTheHolder`, `ContextOfTheLoad`, `SqlBelowABody` follow;
`NestedIsHarmless` and `Implements` (every step is a step of `RuntimeContract`
or a stutter) are action properties proved from `IInv`.

**`PermissionsProofs`.** `IntersectionIsBounded` is about the operator alone:
the intersection grants no resource outside the request or the cap. The key
lemma says that an admitted request parses, is covered by its cap, and so is
handed over unchanged: `Granted(Effective(..))` is what the text denotes. From
it `ImportsCapped`, `AskedFor` and `Implements`.

**`ModuleStoreProofs`.** What has to be carried along is that a walk in progress
is sound (`WalkIsSound`): every module asked for is pending or has a row, all of
whose imports have been asked for, unless the walk has failed; and that in a
load what has been asked for stays inside a set of modules that is closed under
imports with these rows (`LoadStaysInside`). When the prefetch ends with nothing
pending and no error, `seen` is such a closed set, which is what the load that
follows, and every later one, stays inside. `VettedRuns`, `LoaderMissesNothing`,
`PrefetchCapped`, `PrefetchFresh`, `OthersUntouched` are conjuncts or consequences, and
`NoPartialPrefetch` the action property. The walk is stated with a closed set,
not with reachability by recursion, so no induction over data is needed.

**`ModuleCachesProofs`.** Two facts make the caches independent of what DDL,
roll-backs and other connections do to the catalog. A key of `FN_CACHE`
determines its specifier (`KeysAreFaithful`), as both are made of the same oid
and source: hence `OwnBody`. And the imports of an entry module are the names in
its specifier (`EntriesLinkTheirNames`), cached or not: a load that finds an
entry V8 already has finds the links that it needs, which with the guard of
`EvaluationThrows` is `CachedLoaded`. Loads, which
change the caches, and commits, which change the rows, are proved apart
(`CachesInv`, `CommittedInv`) and put together per action.

**`SessionsProofs`.** The argument is that the change of the `pg_proc` row is a
lock (`OneHoldsTuple`): of the statements that create, alter or drop one
function, one is past it. While it lasts the committed rows of the function stand still, so
what that statement deletes is all there was (`OwnsRows`), and what it has done
with is there (`FindsImports`). `DO` blocks and calls have no lock; a commit under
their oid marks them disturbed, and `FindsImports` claims nothing of them after
that. A call's imports are the rows' only if the function is `inStep` when it
reads `pg_proc`, and stays so unless it is disturbed. `CreateFinds` and
`UndisturbedFind` are consequences;
`FunctionsDoNotDeadlock` says that who waits for a function's row waits for the
holder of its `pg_proc` row, and that one never waits. `Implements` needs that a
committing `DROP` leaves no row, a committing `CREATE` exactly its imports, and
a committing `ALTER` the rows as they were (`DropLeavesNothing`,
`CreateLeavesItsImports`, `AlterLeavesTheRows`). `FunctionsAreComplete` is proved
from the contract: whatever implements `FunctionRegistry` has exactly the rows
of its imports for each function that is in step.

**`NumbersProofs`.** The numbers of `Values` are bounded by powers of two, which
are a recursive function, so the module first shows that `Pow2` is the function
its equation describes: every non-empty set of naturals has a least element
(`LeastElement`), hence a lemma of induction over a set of naturals, which
shows that a function that doubles exists on every initial segment and is
unique, and so the lemma `Pow2Def`. The rest is about the grids of floating-point numbers:
a whole number of at most `P8` bits is on that of float8 (`SafeIsDouble`), which
also goes beyond int8 (`DoublesReachFar`), the grid of float4 is part of that of
float8 (`FloatsAreDoubles`), a number on a grid is its own rounding
(`RoundedExact`). `SaturationIsStable`: a number beyond int8 that was saturated,
and rounded to something beyond int8 again, is saturated to the same bound the
next time.

**`ValuesProofs`.** For every width, and every value of every column type. The
lemmas go by what JavaScript may hold: for each sort of value
(`NothingWritten`, `BoolWritten`, `TextWritten`, `IntegerWritten`,
`FloatWritten`, `NotFiniteWritten`, `StructWritten`, `OutWritten`) what the three
ways back write of it if nothing takes it for a typed parameter, for a document
`{type, value}` that binding it is giving its leaf one of the types there are
(`BoundCases`), and for each column type what reading it gives
(`ReadCases`). Together they are `RoundTrips`: to read a value and write what
was read, any way, stores that value, or one it may lose to, or fails.
`OnlyKnownLosses` speaks of any number of round trips, so it also takes
`LossesAreStable`: what is lost to twice could have been lost to at once. For
strings that are read as JSON and may be strings again that is by `Reach`, the
least closed set of strings, with no recursion (`ReachGoesOn`). The inductive invariant adds to `TypeOK` and `OnlyKnownLosses` that what JavaScript
holds was read from what is stored, unless nothing was to be kept (`Fresh`):
without it a value held from before a write could be written over the next.
`KnownLosses` follows, and `ExactTypes`, that no loss touches the integer types,
booleans, strings, types known by their text or rows of int8; `ReturnsExact`, `ParametersExact` and
`JsonParametersExact` are the action properties. The proof made two definitions more exact: a string given
to a text column arrives as it is, and a fraction given to an integer column
arrives as a neighbour of itself, not as any integer.

**Only model-checked.** The liveness properties `EveryCallReturns` and
`StatementsEnd` (fairness and ENABLED are beyond the prover) and the violation
runs.

## 6. Not modelled, and the plan

Done, in this order: `Backend` with `RuntimeContract`; `Permissions` with
`AdmissionContract`; `ModuleStore`; the proofs of each; then `ModuleCaches` and
`Sessions` with `FunctionRegistry`, with their proofs, and `Values`; then the
proofs of `Values`.

Open:

1. What a failed statement leaves behind when JavaScript catches the error:
   `op_pg_execute` makes no subtransaction. What SQL does to tables is outside
   these modules, so there is no state to state it about.
2. Dynamic `import()` by work left in the event loop while another function
   loads, which then finds that one's context.

Left out for good: console formatting, transpilation and error reports (pure
functions of their input, without state), the build, examples and type packages
(nothing at run time), and the memory plumbing of pgrx.
