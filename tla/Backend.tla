------------------------------ MODULE Backend ------------------------------
(***************************************************************************)
(* One PostgreSQL backend running LANGUAGE typescript code.                *)
(*                                                                         *)
(* A backend is one thread with one V8 runtime.  PostgreSQL enters the     *)
(* extension through three handlers (a function call, the validator of     *)
(* CREATE FUNCTION, and DO); a handler borrows the runtime, points the     *)
(* shared pieces of it (permissions, `_pg` gate, loader context) at        *)
(* itself, loads the module if FN_CACHE does not hold it, runs the body    *)
(* and gives everything back.  JavaScript may call `_pg.execute`, whose    *)
(* SQL may reach a handler again, in the middle of the first one.          *)
(*                                                                         *)
(* `stack` is the C stack as far as it matters: handler invocations and    *)
(* the SQL statements their JavaScript is executing, outermost first.      *)
(* The event loop belongs to the runtime, not to a call: work it still     *)
(* holds when a call returns is there for the next one.                    *)
(***************************************************************************)
EXTENDS Naturals, Sequences

CONSTANTS
  Oids,      (* functions of LANGUAGE typescript                            *)
  DoBlock,   (* DO_BLOCK_OID, the cache key of every DO block               *)
  Sources,   (* assembled module sources, told apart by hash_str            *)
  Grants,    (* values of RuntimePermissions                                *)
  NoGrant,   (* RuntimePermissions::default(), what create_runtime installs *)
  Slots,     (* bounds the work outstanding in the event loop               *)
  None       (* no oid, no slot                                             *)

Owners == Oids \cup {DoBlock}

ASSUME BackendAssumption ==
  /\ DoBlock \notin Oids
  /\ None \notin Owners
  /\ None \notin Slots
  /\ None \notin [oid: Owners, grant: Grants, sql: BOOLEAN]
  /\ NoGrant \in Grants

VARIABLES
  stack,     (* handler invocations and SQL statements, outermost first     *)
  borrowed,  (* JS_RT is mutably borrowed                                   *)
  ctx,       (* PgModuleLoader::ctx: the oid it resolves for, or None       *)
  pgState,   (* PgExecuteState in the OpState                               *)
  perms,     (* PermissionsContainer in the OpState                         *)
  fnCache,   (* keys of FN_CACHE                                            *)
  tasks      (* event loop work, each with the oid whose code started it    *)

runtimeVars == <<borrowed, ctx, pgState, perms, fnCache, tasks>>
vars == <<stack, runtimeVars>>

(***************************************************************************)
(* Frames.                                                                 *)
(***************************************************************************)
LoadPhases == {"loading", "evaluating"}
BodyPhases == {"body", "awaiting", "settled"}
Phases     == {"setup", "entered", "loaded"} \cup LoadPhases \cup BodyPhases

\* Phases in which the event loop is polled.
LoopPhases == {"evaluating", "awaiting", "settled"}

HandlerFrame ==
  [kind: {"call", "validate", "inline"}, oid: Owners, source: Sources,
   grant: Grants, sql: BOOLEAN, phase: Phases, waits: Slots \cup {None}]

StatementFrame == [kind: {"sql"}, oid: Owners, phase: {"sql"}]

PgExecuteState == [enabled: BOOLEAN, allowed: BOOLEAN]

Top     == stack[Len(stack)]
Busy    == stack # <<>>
InPhase(p) == Busy /\ Top.phase = p

Push(f) == stack' = Append(stack, f)
Pop     == stack' = SubSeq(stack, 1, Len(stack) - 1)
Goto(p) == stack' = [stack EXCEPT ![Len(stack)].phase = p]
GotoWaiting(p, w) ==
  stack' = [stack EXCEPT ![Len(stack)] = [@ EXCEPT !.phase = p, !.waits = w]]

Init ==
  /\ stack = <<>>
  /\ borrowed = FALSE
  /\ ctx = None
  /\ pgState = [enabled |-> FALSE, allowed |-> FALSE]
  /\ perms = NoGrant
  /\ fnCache = {}
  /\ tasks = [s \in Slots |-> None]

(***************************************************************************)
(* Entering a handler.  PostgreSQL calls one for a client statement, or    *)
(* for a statement JavaScript is executing.  The handler first reads the   *)
(* catalog row and the settings: source, effective permissions and         *)
(* whether `_pg.execute` is granted are fixed for the invocation here.     *)
(***************************************************************************)
CanEnter == Busy => Top.kind = "sql"

Invocation(kind, oid, source, grant, sql) ==
  [kind |-> kind, oid |-> oid, source |-> source, grant |-> grant,
   sql |-> sql, phase |-> "setup", waits |-> None]

CallHandler ==
  \E oid \in Oids, source \in Sources, grant \in Grants, sql \in BOOLEAN :
    /\ CanEnter
    /\ Push(Invocation("call", oid, source, grant, sql))
    /\ UNCHANGED runtimeVars

Validator ==
  \E oid \in Oids, source \in Sources, grant \in Grants, sql \in BOOLEAN :
    /\ CanEnter
    /\ Push(Invocation("validate", oid, source, grant, sql))
    /\ UNCHANGED runtimeVars

InlineHandler ==
  \E source \in Sources, grant \in Grants, sql \in BOOLEAN :
    /\ CanEnter
    /\ Push(Invocation("inline", DoBlock, source, grant, sql))
    /\ UNCHANGED runtimeVars

\* An unreadable setting, a cap that does not cover the request, or a
\* prefetch that fails: PostgreSQL ERROR before the runtime is touched.
SetupFails ==
  /\ InPhase("setup")
  /\ Pop
  /\ UNCHANGED runtimeVars

(***************************************************************************)
(* with_runtime: RefCell::borrow_mut panics while the runtime is borrowed, *)
(* and the panic becomes a PostgreSQL ERROR of the nested statement.       *)
(***************************************************************************)
\* Mutant: the runtime is handed out again while it is borrowed.
AlwaysBorrow == TRUE

CanBorrow == ~borrowed

\* Mutant: the gate is set before the runtime is borrowed.
GateBeforeBorrow ==
  /\ InPhase("setup")
  /\ ~CanBorrow
  /\ Pop
  /\ pgState' = [enabled |-> Top.sql, allowed |-> FALSE]
  /\ UNCHANGED <<borrowed, ctx, perms, fnCache, tasks>>

BorrowRefused ==
  /\ InPhase("setup")
  /\ ~CanBorrow
  /\ Pop
  /\ UNCHANGED runtimeVars

\* Mutant: the gate is left as open as the grant while the module loads.
GateAsGranted(f) == pgState' = [enabled |-> f.sql, allowed |-> f.sql]

\* The gate is shut for loading, whatever the invocation was granted.
CloseGateFor(f) == pgState' = [enabled |-> f.sql, allowed |-> FALSE]

\* Mutant: the permissions of an earlier invocation stay.
KeepPermissions(f) == UNCHANGED perms

SetRuntimePermissions(f) == perms' = f.grant

EnterRuntime ==
  /\ InPhase("setup")
  /\ CanBorrow
  /\ borrowed' = TRUE
  /\ CloseGateFor(Top)
  /\ SetRuntimePermissions(Top)
  /\ Goto("entered")
  /\ UNCHANGED <<ctx, fnCache, tasks>>

\* Permissions::from_options rejects the allow lists: the gate was already
\* written, the permissions were not, and the borrow guard is dropped.
PermissionsInvalid ==
  /\ InPhase("setup")
  /\ CanBorrow
  /\ CloseGateFor(Top)
  /\ Pop
  /\ UNCHANGED <<borrowed, ctx, perms, fnCache, tasks>>

(***************************************************************************)
(* Leaving the runtime, by value or by unwinding: every scope the          *)
(* invocation is inside of restores what it set.                           *)
(***************************************************************************)
\* Mutants: the context is never cleared, or not when loading fails.
KeepContext == UNCHANGED ctx
ClearContextOnSuccess == ctx' = IF Top.phase = "evaluating" THEN None ELSE ctx

ClearContext == ctx' = IF Top.phase \in LoadPhases THEN None ELSE ctx

\* Mutant: the guard of the body does not restore the gate.
LeaveGateOpen == UNCHANGED pgState

CloseGate ==
  pgState' = IF Top.phase \in BodyPhases
             THEN [pgState EXCEPT !.allowed = FALSE]
             ELSE pgState

DropBorrow == borrowed' = FALSE

Leave ==
  /\ Pop
  /\ ClearContext
  /\ CloseGate
  /\ DropBorrow
  /\ UNCHANGED <<perms, fnCache>>

(***************************************************************************)
(* Loading the module.                                                     *)
(***************************************************************************)
CacheKey(f) == <<f.oid, f.source>>

UseCached ==
  /\ InPhase("entered")
  /\ CacheKey(Top) \in fnCache
  /\ Goto("loaded")
  /\ UNCHANGED runtimeVars

StartLoading ==
  /\ InPhase("entered")
  /\ CacheKey(Top) \notin fnCache
  /\ ctx' = Top.oid
  /\ Goto("loading")
  /\ UNCHANGED <<borrowed, pgState, perms, fnCache, tasks>>

\* load_side_es_module: a specifier does not resolve, a module is not cached
\* or does not parse, or reading the store raises a PostgreSQL error.
LoadFails ==
  /\ InPhase("loading")
  /\ Leave
  /\ UNCHANGED tasks

LoadSucceeds ==
  /\ InPhase("loading")
  /\ Goto("evaluating")
  /\ UNCHANGED runtimeVars

\* The module throws, its top-level await never settles, or it has no
\* default export.
EvaluationFails ==
  /\ InPhase("evaluating")
  /\ Leave
  /\ UNCHANGED tasks

EvaluationSucceeds ==
  /\ InPhase("evaluating")
  /\ fnCache' = fnCache \cup {CacheKey(Top)}
  /\ ClearContext
  /\ Goto("loaded")
  /\ UNCHANGED <<borrowed, pgState, perms, tasks>>

\* The validator stops here.
PreloadReturns ==
  /\ InPhase("loaded")
  /\ Top.kind = "validate"
  /\ Leave
  /\ UNCHANGED tasks

(***************************************************************************)
(* The body.                                                               *)
(***************************************************************************)
\* Mutant: what has been loaded is run, also by the validator.
StartBodyOfAny ==
  /\ InPhase("loaded")
  /\ pgState' = [pgState EXCEPT !.allowed = TRUE]
  /\ Goto("body")
  /\ UNCHANGED <<borrowed, ctx, perms, fnCache, tasks>>

StartBody ==
  /\ InPhase("loaded")
  /\ Top.kind # "validate"
  /\ pgState' = [pgState EXCEPT !.allowed = TRUE]
  /\ Goto("body")
  /\ UNCHANGED <<borrowed, ctx, perms, fnCache, tasks>>

\* An argument does not convert, or the body throws.
BodyFails ==
  /\ InPhase("body")
  /\ Leave
  /\ UNCHANGED tasks

\* The body's promise waits for outstanding work, or for nothing at all.
Await ==
  /\ InPhase("body")
  /\ \E w \in {s \in Slots : tasks[s] # None} \cup {None} :
       GotoWaiting("awaiting", w)
  /\ UNCHANGED runtimeVars

BodySettles ==
  /\ InPhase("body")
  /\ Goto("settled")
  /\ UNCHANGED runtimeVars

\* The promise is ready: its value is converted and the handler returns (or,
\* if the value does not fit the result type, fails, with the same effect).
Return ==
  /\ InPhase("settled")
  /\ Leave
  /\ UNCHANGED tasks

(***************************************************************************)
(* The event loop.  Timers, ops and unresolved promises outlive the call   *)
(* that started them: with_event_loop_promise polls the loop only until    *)
(* the promise it was given is ready.                                      *)
(***************************************************************************)
NoWork == \A s \in Slots : tasks[s] = None

\* Code of the invocation itself starts a timer or an async op.
StartTask(s) ==
  /\ Busy
  /\ Top.phase \in {"evaluating", "body"}
  /\ tasks[s] = None
  /\ tasks' = [tasks EXCEPT ![s] = Top.oid]
  /\ UNCHANGED <<stack, borrowed, ctx, pgState, perms, fnCache>>

\* A piece of work completes; a body that was waiting for it runs on.
TaskCompletes(s) ==
  /\ Busy
  /\ Top.phase \in LoopPhases
  /\ tasks[s] # None
  /\ tasks' = [tasks EXCEPT ![s] = None]
  /\ IF Top.phase = "awaiting" /\ Top.waits = s
     THEN GotoWaiting("body", None)
     ELSE UNCHANGED stack
  /\ UNCHANGED <<borrowed, ctx, pgState, perms, fnCache>>

\* A piece of work ends in an unhandled rejection: polling the loop fails,
\* and with it the invocation that polls, whoever started the work.
TaskRejects(s) ==
  /\ Busy
  /\ Top.phase \in LoopPhases
  /\ tasks[s] # None
  /\ Leave
  /\ tasks' = [tasks EXCEPT ![s] = None]

\* Mutant: the empty loop is polled for ever.
PollForEver ==
  /\ InPhase("awaiting")
  /\ Top.waits = None
  /\ NoWork
  /\ UNCHANGED vars

\* The loop is empty and the promise still pending: an error, not a hang.
LoopRunsDry ==
  /\ InPhase("awaiting")
  /\ Top.waits = None
  /\ NoWork
  /\ Leave
  /\ UNCHANGED tasks

(***************************************************************************)
(* `_pg.execute`.  Any JavaScript that runs may call it: the code of the   *)
(* invocation, or work the event loop is running.                          *)
(***************************************************************************)
RunsCodeOf(oid) ==
  \/ Top.phase \in {"evaluating", "body"} /\ Top.oid = oid
  \/ Top.phase \in LoopPhases /\ \E s \in Slots : tasks[s] = oid

GateOpen == pgState.enabled /\ pgState.allowed

PgExecute(oid) ==
  /\ Busy
  /\ RunsCodeOf(oid)
  /\ GateOpen
  /\ Push([kind |-> "sql", oid |-> oid, phase |-> "sql"])
  /\ UNCHANGED runtimeVars

\* A result, or a PostgreSQL ERROR caught and turned into an exception.
StatementReturns ==
  /\ InPhase("sql")
  /\ Pop
  /\ UNCHANGED runtimeVars

-----------------------------------------------------------------------------
Enter == CallHandler \/ Validator \/ InlineHandler

Setup == SetupFails \/ BorrowRefused \/ EnterRuntime \/ PermissionsInvalid

Load ==
  \/ UseCached \/ StartLoading
  \/ LoadFails \/ LoadSucceeds
  \/ EvaluationFails \/ EvaluationSucceeds
  \/ PreloadReturns

Body == StartBody \/ BodyFails \/ Await \/ BodySettles \/ Return

EventLoop ==
  \/ \E s \in Slots : StartTask(s) \/ TaskCompletes(s) \/ TaskRejects(s)
  \/ LoopRunsDry

Sql == (\E oid \in Owners : PgExecute(oid)) \/ StatementReturns

Next == Enter \/ Setup \/ Load \/ Body \/ EventLoop \/ Sql

Spec == Init /\ [][Next]_vars

(***************************************************************************)
(* Fairness.  The handlers are straight-line code.  Beyond that, user code *)
(* terminates: a running body settles or throws, a SQL statement returns,  *)
(* the work a body awaits completes, and so does a module that evaluates   *)
(* in an otherwise empty loop.  Other work need not end (an interval never *)
(* does), and clients need not ever issue another call.                    *)
(***************************************************************************)
HandlerStep ==
  \/ SetupFails \/ BorrowRefused \/ EnterRuntime \/ PermissionsInvalid
  \/ UseCached \/ StartLoading \/ LoadFails \/ LoadSucceeds
  \/ PreloadReturns \/ StartBody \/ LoopRunsDry

AwaitedWorkCompletes ==
  InPhase("awaiting") /\ \E s \in Slots : Top.waits = s /\ TaskCompletes(s)

UserCodeTerminates ==
  /\ SF_vars(NoWork /\ (EvaluationFails \/ EvaluationSucceeds))
  /\ SF_vars(BodyFails \/ BodySettles)
  /\ SF_vars(Return)
  /\ SF_vars(StatementReturns)
  /\ SF_vars(AwaitedWorkCompletes)

FairSpec == Spec /\ WF_vars(HandlerStep) /\ UserCodeTerminates

-----------------------------------------------------------------------------
\* Types of the variables.
StateTypes ==
  /\ stack \in Seq(HandlerFrame \cup StatementFrame)
  /\ borrowed \in BOOLEAN
  /\ ctx \in Owners \cup {None}
  /\ pgState \in PgExecuteState
  /\ perms \in Grants
  /\ fnCache \in SUBSET (Owners \X Sources)
  /\ tasks \in [Slots -> Owners \cup {None}]

\* Types of one backend's shared state, and of the frames by their kind: one
\* of the validator is never in a phase in which a body runs.
TypeOK ==
  /\ StateTypes
  /\ \A i \in DOMAIN stack :
       stack[i].kind = "validate" => stack[i].phase \notin BodyPhases

Holder == stack[1]

\* With no handler on the stack the runtime is free: not borrowed, no loader
\* context, `_pg` gate shut, on whichever of the error paths the last
\* handler left.
IdleIsClean ==
  ~Busy => ~borrowed /\ ctx = None /\ ~pgState.allowed

\* One invocation is inside the runtime at a time, the outermost one: the
\* handlers below its SQL never get further than their setup.
OneInvocationInside ==
  /\ \A i \in DOMAIN stack : i > 1 => stack[i].phase \in {"sql", "setup"}
  /\ borrowed <=> Busy /\ Holder.phase # "setup"

\* While an invocation is inside, the permissions and the `_pg` switch in
\* the OpState are the ones it was granted, whatever ran below it.
HolderHasItsGrants ==
  borrowed => perms = Holder.grant /\ pgState.enabled = Holder.sql

\* The loader resolves for the invocation that is loading, and for none
\* outside loading.
ContextIsScoped ==
  ctx = IF borrowed /\ Holder.phase \in LoadPhases THEN Holder.oid ELSE None

\* SQL runs only below the body of a call or DO block that was granted it:
\* not while modules load or evaluate, and not for the validator.
SqlOnlyBelowABody ==
  \A i \in DOMAIN stack :
    stack[i].kind = "sql" =>
      /\ Holder.kind # "validate"
      /\ Holder.sql
      /\ Holder.phase \in BodyPhases
      /\ ctx = None

\* Nothing a nested handler or its statement does reaches the runtime of
\* the invocation that is executing the statement.
NestedLeavesRuntimeAlone ==
  [][Len(stack) > 1 => UNCHANGED runtimeVars]_vars

\* What is awaited depends on nothing but the loop running dry, and other
\* work keeps it from that.
KeptBusy ==
  /\ Busy
  /\ Holder.phase \in {"evaluating", "awaiting"}
  /\ Holder.waits = None
  /\ ~NoWork

\* The backend becomes idle again and again: handlers that were entered come
\* back, with a value or an error, also if a body waits for something that
\* never happens.  The one exception is such a wait, or a module's own, in a
\* loop that work like an interval keeps busy for ever.
EveryCallReturns == []<>~Busy \/ <>[]KeptBusy

(***************************************************************************)
(* The refinement mapping: who has the runtime is read off the stack, what *)
(* JavaScript may do off the shared state.                                 *)
(***************************************************************************)
LeaseOf == IF borrowed
           THEN [oid |-> Holder.oid, grant |-> Holder.grant, sql |-> Holder.sql]
           ELSE None

Contract == INSTANCE RuntimeContract
  WITH NoLease <- None, lease <- LeaseOf, grant <- perms,
       gate <- GateOpen, statement <- Len(stack) > 1

\* The shared state of the runtime follows the invocation that holds it.
ImplementsContract == Contract!ContractSpec

\* "The event loop is drained before the result is returned."
DrainedBeforeReturn == [][Return => NoWork']_vars

\* "Only the direct user-function call gets the 'inside the function body'
\* flag": a statement is issued by code of the invocation whose body runs.
OnlyTheDirectCallExecutesSql ==
  \A i \in DOMAIN stack : stack[i].kind = "sql" => stack[i].oid = Holder.oid

=============================================================================
