--------------------------- MODULE BackendProofs ---------------------------
(***************************************************************************)
(* Proofs about Backend, for every set of functions, sources, permission   *)
(* sets and event-loop slots.                                              *)
(*                                                                         *)
(* The invariants TLC checks are not inductive one by one: that the        *)
(* runtime's shared state is the holder's needs that nothing below the     *)
(* holder enters the runtime, which needs that the runtime is borrowed     *)
(* whenever a statement executes, which needs that the gate was opened by  *)
(* a body.  IInv says all of it at once, by the depth of the stack.        *)
(***************************************************************************)
EXTENDS Backend, SequenceTheorems, TLAPS

Frame == HandlerFrame \cup StatementFrame

\* The stack never holds more than an invocation, one statement of it, and
\* one handler below that statement which has not got past its setup.
StackShape ==
  /\ Len(stack) <= 3
  /\ Len(stack) >= 1 => stack[1] \in HandlerFrame
  /\ Len(stack) >= 2 =>
       /\ stack[2] \in StatementFrame
       /\ Holder.phase \in BodyPhases
       /\ Holder.sql
  /\ Len(stack) >= 3 =>
       /\ stack[3] \in HandlerFrame
       /\ stack[3].phase = "setup"

\* The `_pg` gate is open exactly while the holder's body runs.
GateFollowsBody ==
  pgState.allowed <=> Busy /\ Holder.phase \in BodyPhases

BorrowFollowsHolder == borrowed <=> Busy /\ Holder.phase # "setup"

ValidatorHasNoBody ==
  Busy => (Holder.kind = "validate" => Holder.phase \notin BodyPhases)

IInv ==
  /\ StateTypes
  /\ StackShape
  /\ BorrowFollowsHolder
  /\ GateFollowsBody
  /\ HolderHasItsGrants
  /\ ContextIsScoped
  /\ ValidatorHasNoBody

-----------------------------------------------------------------------------
(***************************************************************************)
(* The three ways a step changes the stack.                                *)
(***************************************************************************)
\* A push leaves the frames below alone and adds one on top.
LEMMA PushFacts ==
  ASSUME NEW S, NEW s \in Seq(S), NEW e \in S
  PROVE  LET t == Append(s, e)
         IN  /\ t \in Seq(S)
             /\ Len(t) = Len(s) + 1
             /\ t # <<>>
             /\ t[Len(s) + 1] = e
             /\ \A i \in 1..Len(s) : t[i] = s[i]
  OBVIOUS

\* A pop leaves the frames below alone and removes the top one.
LEMMA PopFacts ==
  ASSUME NEW S, NEW s \in Seq(S), s # <<>>
  PROVE  LET t == SubSeq(s, 1, Len(s) - 1)
         IN  /\ t \in Seq(S)
             /\ Len(t) = Len(s) - 1
             /\ \A i \in 1..(Len(s) - 1) : t[i] = s[i]
             /\ Len(s) = 1 => t = <<>>
  <1> DEFINE n == Len(s) - 1
             t == SubSeq(s, 1, n)
  <1>1. Len(s) \in Nat \ {0}
    BY EmptySeq
  <1>2. \A i \in 1..n : s[i] \in S
    BY <1>1, ElementOfSeq
  <1>3. n \in Nat /\ 1 \in Int
    BY <1>1
  <1>4. /\ t \in Seq(S)
        /\ Len(t) = IF 1 <= n THEN n - 1 + 1 ELSE 0
        /\ \A i \in 1..(n - 1 + 1) : t[i] = s[1 + i - 1]
    <2> HIDE DEF n
    <2>1. QED
      BY <1>2, <1>3, SubSeqProperties
  <1>5. /\ Len(t) = n
        /\ \A i \in 1..n : t[i] = s[i]
    <2> HIDE DEF n, t
    <2>1. QED
      BY <1>3, <1>4
  <1>6. Len(s) = 1 => t = <<>>
    <2>1. n = 0 => t = <<>>
      <3> HIDE DEF n, t
      <3>1. QED
        BY <1>4, <1>5, EmptySeq
    <2>2. QED
      BY <1>1, <2>1
  <1>7. QED
    BY <1>4, <1>5, <1>6

-----------------------------------------------------------------------------
(***************************************************************************)
(* Where an enabled action finds the stack.                                *)
(***************************************************************************)
\* A busy stack is one, two or three frames deep.
LEMMA Depth ==
  ASSUME IInv, Busy
  PROVE  /\ stack \in Seq(Frame)
         /\ Len(stack) \in 1..3
  <1>1. stack \in Seq(Frame)
    BY DEF IInv, StateTypes, Frame
  <1>2. Len(stack) \in Nat \ {0}
    BY <1>1, EmptySeq DEF Busy
  <1>3. Len(stack) <= 3
    BY DEF IInv, StackShape
  <1>4. \A n \in Nat \ {0} : n <= 3 => n \in 1..3
    OBVIOUS
  <1>5. QED
    BY <1>1, <1>2, <1>3, <1>4

\* Whoever is past its setup is the holder, and alone on the stack.
LEMMA PastSetupIsAlone ==
  ASSUME IInv, Busy, Top.phase \notin {"setup", "sql"}
  PROVE  /\ Len(stack) = 1
         /\ Top = Holder
         /\ Holder \in HandlerFrame
         /\ borrowed
  <1> USE DEF IInv, StackShape, BorrowFollowsHolder, Top, Holder
  <1>1. Len(stack) \in 1..3
    BY Depth
  <1>2. Len(stack) # 2
    BY DEF StatementFrame
  <1>3. Len(stack) # 3
    OBVIOUS
  <1>4. QED
    BY <1>1, <1>2, <1>3

\* A statement on top is the holder's, one above it.
LEMMA StatementIsSecond ==
  ASSUME IInv, Busy, Top.kind = "sql"
  PROVE  Len(stack) = 2
  <1> USE DEF IInv, StackShape, Top
  <1>1. Len(stack) \in 1..3
    BY Depth
  <1>2. QED
    BY <1>1 DEF HandlerFrame

\* Only statement frames are in phase "sql".
LEMMA SqlPhaseIsStatement ==
  ASSUME IInv, InPhase("sql")
  PROVE  Len(stack) = 2
  <1> USE DEF IInv, StackShape, Top, InPhase
  <1>1. Len(stack) \in 1..3
    BY Depth
  <1>2. QED
    BY <1>1 DEF HandlerFrame, Phases, LoadPhases, BodyPhases

\* A handler in its setup is either alone, with the runtime free, or below a
\* statement of the holder, with the runtime borrowed.
LEMMA SetupIsFirstOrThird ==
  ASSUME IInv, InPhase("setup")
  PROVE  /\ Top \in HandlerFrame
         /\ \/ Len(stack) = 1 /\ ~borrowed
            \/ Len(stack) = 3 /\ borrowed
  <1> USE DEF IInv, StackShape, BorrowFollowsHolder, Top, Holder, InPhase
  <1>1. Len(stack) \in 1..3
    BY Depth
  <1>2. Len(stack) # 2
    BY DEF StatementFrame
  <1>3. Len(stack) = 3 => borrowed
    BY DEF BodyPhases
  <1>4. QED
    BY <1>1, <1>2, <1>3

\* Replacing the only frame of the stack.
LEMMA ReplaceHolder ==
  ASSUME stack \in Seq(Frame), Len(stack) = 1, NEW g \in HandlerFrame,
         stack' = [stack EXCEPT ![1] = g]
  PROVE  /\ stack' \in Seq(Frame)
         /\ Len(stack') = 1
         /\ Busy'
         /\ Holder' = g
  <1>1. g \in Frame
    BY DEF Frame
  <1>2. stack' \in Seq(Frame) /\ Len(stack') = 1 /\ stack'[1] = g
    BY <1>1, ExceptSeq
  <1>3. QED
    BY <1>2, EmptySeq DEF Busy, Holder

\* Moving the holder to another phase changes nothing else on the stack.
LEMMA GotoFacts ==
  ASSUME IInv, Len(stack) = 1, Holder \in HandlerFrame,
         NEW p \in Phases, Goto(p)
  PROVE  /\ stack' \in Seq(Frame)
         /\ Len(stack') = 1
         /\ Busy'
         /\ Holder' = [Holder EXCEPT !.phase = p]
         /\ Holder' \in HandlerFrame
         /\ Holder'.phase = p
  <1> DEFINE h == [Holder EXCEPT !.phase = p]
  <1>1. stack \in Seq(Frame)
    BY DEF IInv, StateTypes, Frame
  <1>2. h \in HandlerFrame /\ h.phase = p
    BY DEF HandlerFrame
  <1>3. stack' = [stack EXCEPT ![1] = h]
    BY DEF Goto, Holder
  <1>4. PICK g \in HandlerFrame : g = h
    BY <1>2
  <1>5. stack' = [stack EXCEPT ![1] = g]
    BY <1>3, <1>4
  <1>6. QED
    BY <1>1, <1>2, <1>4, <1>5, ReplaceHolder

\* Leaving empties the stack and restores the idle runtime.
LEMMA LeaveFacts ==
  ASSUME IInv, Busy, Top.phase \notin {"setup", "sql"}, Leave,
         tasks' \in [Slots -> Owners \cup {None}]
  PROVE  IInv'
  <1>1. Len(stack) = 1 /\ Top = Holder /\ Holder \in HandlerFrame /\ borrowed
    BY PastSetupIsAlone
  <1>2. stack' = <<>> /\ stack' \in Seq(Frame) /\ Len(stack') = 0
    BY <1>1, PopFacts, EmptySeq DEF IInv, StateTypes, Frame, Leave, Pop, Busy
  <1>3. ctx' = None
    BY <1>1 DEF IInv, ContextIsScoped, Leave, ClearContext
  <1>4. pgState' \in PgExecuteState /\ ~pgState'.allowed
    BY <1>1 DEF IInv, StateTypes, GateFollowsBody, Leave, CloseGate, PgExecuteState
  <1>5. borrowed' = FALSE /\ perms' = perms /\ fnCache' = fnCache
    BY DEF Leave, DropBorrow
  <1>6. ~Busy'
    BY <1>2 DEF Busy
  <1>7. StateTypes'
    BY <1>2, <1>3, <1>4, <1>5 DEF IInv, StateTypes, Frame
  <1>8. StackShape'
    BY <1>2 DEF StackShape
  <1>9. QED
    BY <1>3, <1>4, <1>5, <1>6, <1>7, <1>8
       DEF IInv, BorrowFollowsHolder, GateFollowsBody, HolderHasItsGrants,
           ContextIsScoped, ValidatorHasNoBody

-----------------------------------------------------------------------------
(***************************************************************************)
(* IInv is inductive.  One lemma per group of actions.                     *)
(***************************************************************************)
\* A fresh invocation goes on top, in its setup: at the bottom of an empty
\* stack, or above a statement of the holder.
LEMMA EnterPreserves ==
  ASSUME IInv, Enter
  PROVE  IInv'
  <1>1. PICK f \in HandlerFrame : /\ CanEnter
                                  /\ Push(f)
                                  /\ f.phase = "setup"
                                  /\ UNCHANGED runtimeVars
    <2>1. \A k \in {"call", "validate", "inline"}, o \in Owners, s \in Sources,
             g \in Grants, e \in BOOLEAN :
            /\ Invocation(k, o, s, g, e) \in HandlerFrame
            /\ Invocation(k, o, s, g, e).phase = "setup"
      BY DEF Invocation, HandlerFrame, Phases
    <2>2. CASE CallHandler
      BY <2>1, <2>2 DEF CallHandler, Owners
    <2>3. CASE Validator
      BY <2>1, <2>3 DEF Validator, Owners
    <2>4. CASE InlineHandler
      BY <2>1, <2>4 DEF InlineHandler, Owners
    <2>5. QED
      BY <2>2, <2>3, <2>4 DEF Enter
  <1>2. UNCHANGED <<borrowed, ctx, pgState, perms, fnCache, tasks>>
    BY <1>1 DEF runtimeVars
  <1>3. stack \in Seq(Frame) /\ f \in Frame
    BY <1>1 DEF IInv, StateTypes, Frame
  <1>4. /\ stack' \in Seq(Frame)
        /\ Len(stack') = Len(stack) + 1
        /\ Busy'
        /\ stack'[Len(stack) + 1] = f
        /\ \A i \in 1..Len(stack) : stack'[i] = stack[i]
    BY <1>1, <1>3, PushFacts DEF Push, Busy
  <1>5. StateTypes'
    BY <1>2, <1>4 DEF IInv, StateTypes, Frame
  <1>6. CASE ~Busy
    <2>1. Len(stack) = 0
      BY <1>3, <1>6, EmptySeq DEF Busy
    <2>2. Len(stack') = 1 /\ stack'[1] = f /\ Holder' = f
      BY <1>4, <2>1 DEF Holder
    <2>3. StackShape'
      BY <1>1, <2>2 DEF StackShape
    <2>4. /\ BorrowFollowsHolder'
          /\ GateFollowsBody'
          /\ HolderHasItsGrants'
          /\ ContextIsScoped'
          /\ ValidatorHasNoBody'
      BY <1>1, <1>2, <1>4, <1>6, <2>2
         DEF IInv, BorrowFollowsHolder, GateFollowsBody, HolderHasItsGrants,
             ContextIsScoped, ValidatorHasNoBody, BodyPhases
    <2>5. QED
      BY <1>5, <2>3, <2>4 DEF IInv
  <1>7. CASE Busy
    <2>1. Len(stack) = 2
      BY <1>1, <1>7, StatementIsSecond DEF CanEnter
    <2>2. /\ Len(stack') = 3
          /\ stack'[1] = stack[1]
          /\ stack'[2] = stack[2]
          /\ stack'[3] = f
          /\ Holder' = Holder
      BY <1>4, <2>1 DEF Holder
    <2>3. StackShape'
      BY <1>1, <2>1, <2>2 DEF IInv, StackShape, Holder
    <2>4. /\ BorrowFollowsHolder'
          /\ GateFollowsBody'
          /\ HolderHasItsGrants'
          /\ ContextIsScoped'
          /\ ValidatorHasNoBody'
      BY <1>2, <1>4, <1>7, <2>2
         DEF IInv, BorrowFollowsHolder, GateFollowsBody, HolderHasItsGrants,
             ContextIsScoped, ValidatorHasNoBody
    <2>5. QED
      BY <1>5, <2>3, <2>4 DEF IInv
  <1>8. QED
    BY <1>6, <1>7

\* Popping whatever is above the holder leaves the rest as it was.
LEMMA PopAbovePreserves ==
  ASSUME IInv, Len(stack) \in {2, 3}, Pop, UNCHANGED runtimeVars
  PROVE  IInv'
  <1>1. UNCHANGED <<borrowed, ctx, pgState, perms, fnCache, tasks>>
    BY DEF runtimeVars
  <1>2. stack \in Seq(Frame) /\ Busy
    <2>1. stack \in Seq(Frame)
      BY DEF IInv, StateTypes, Frame
    <2>2. Busy
      BY EmptySeq DEF Busy
    <2>3. QED
      BY <2>1, <2>2
  <1>3. /\ stack' \in Seq(Frame)
        /\ Len(stack') = Len(stack) - 1
        /\ \A i \in 1..(Len(stack) - 1) : stack'[i] = stack[i]
    BY <1>2, PopFacts DEF Pop, Busy
  <1>4. /\ Len(stack') \in {1, 2}
        /\ Holder' = Holder
        /\ stack'[1] = stack[1]
        /\ Len(stack) = 3 => stack'[2] = stack[2]
    <2>1. CASE Len(stack) = 2
      BY <1>3, <2>1 DEF Holder
    <2>2. CASE Len(stack) = 3
      BY <1>3, <2>2 DEF Holder
    <2>3. QED
      BY <2>1, <2>2
  <1>5. Busy'
    BY <1>3, <1>4, EmptySeq DEF Busy
  <1>6. StateTypes'
    BY <1>1, <1>3 DEF IInv, StateTypes, Frame
  <1>7. StackShape'
    BY <1>3, <1>4 DEF IInv, StackShape
  <1>8. QED
    BY <1>1, <1>2, <1>4, <1>5, <1>6, <1>7
       DEF IInv, BorrowFollowsHolder, GateFollowsBody, HolderHasItsGrants,
           ContextIsScoped, ValidatorHasNoBody

\* What a step of the holder has to show: it stays alone on the stack, and
\* the shared state fits its new phase.
LEMMA HolderStepPreserves ==
  ASSUME IInv, Len(stack) = 1,
         stack' \in Seq(Frame), Len(stack') = 1, Busy',
         Holder' \in HandlerFrame,
         Holder'.kind = Holder.kind, Holder'.oid = Holder.oid,
         Holder'.grant = Holder.grant, Holder'.sql = Holder.sql,
         Holder'.phase # "setup", borrowed' = TRUE,
         perms' = Holder.grant,
         pgState' \in PgExecuteState,
         pgState'.enabled = Holder.sql,
         pgState'.allowed <=> Holder'.phase \in BodyPhases,
         ctx' = IF Holder'.phase \in LoadPhases THEN Holder.oid ELSE None,
         Holder.kind = "validate" => Holder'.phase \notin BodyPhases,
         fnCache' \in SUBSET (Owners \X Sources),
         tasks' \in [Slots -> Owners \cup {None}]
  PROVE  IInv'
  <1>1. StateTypes'
    BY DEF StateTypes, Frame, HandlerFrame
  <1>2. StackShape'
    BY DEF StackShape, Holder
  <1>3. QED
    BY <1>1, <1>2
       DEF IInv, BorrowFollowsHolder, GateFollowsBody, HolderHasItsGrants,
           ContextIsScoped, ValidatorHasNoBody

\* The steps of Setup: give up, or take the runtime.
LEMMA SetupPreserves ==
  ASSUME IInv, Setup
  PROVE  IInv'
  <1>1. InPhase("setup") /\ Busy
    BY DEF Setup, SetupFails, BorrowRefused, EnterRuntime, PermissionsInvalid,
           InPhase
  <1>2. /\ Top \in HandlerFrame
        /\ \/ Len(stack) = 1 /\ ~borrowed
           \/ Len(stack) = 3 /\ borrowed
    BY <1>1, SetupIsFirstOrThird
  <1>3. stack \in Seq(Frame)
    BY <1>1, Depth
  <1>4. ASSUME Len(stack) = 1, Pop, pgState' \in PgExecuteState, ~pgState'.allowed,
               UNCHANGED <<borrowed, ctx, perms, fnCache, tasks>>
        PROVE  IInv'
    <2>1. stack' = <<>> /\ stack' \in Seq(Frame) /\ Len(stack') = 0 /\ ~Busy'
      BY <1>1, <1>3, <1>4, PopFacts, EmptySeq DEF Pop, Busy
    <2>2. ~borrowed /\ ctx = None
      BY <1>2, <1>4 DEF IInv, ContextIsScoped
    <2>3. StateTypes' /\ StackShape'
      BY <1>4, <2>1 DEF IInv, StateTypes, StackShape, Frame
    <2>4. QED
      BY <1>4, <2>1, <2>2, <2>3
         DEF IInv, BorrowFollowsHolder, GateFollowsBody, HolderHasItsGrants,
             ContextIsScoped, ValidatorHasNoBody
  <1>5. ASSUME Pop, UNCHANGED runtimeVars
        PROVE  IInv'
    <2>1. CASE Len(stack) = 3
      BY <1>5, <2>1, PopAbovePreserves
    <2>2. CASE Len(stack) = 1
      <3>1. pgState \in PgExecuteState
        BY DEF IInv, StateTypes
      <3>2. Holder.phase = "setup"
        BY <1>1, <2>2 DEF InPhase, Top, Holder
      <3>3. ~pgState.allowed
        BY <3>2 DEF IInv, GateFollowsBody, BodyPhases
      <3>4. QED
        BY <1>4, <1>5, <2>2, <3>1, <3>3 DEF runtimeVars
    <2>3. QED
      BY <1>2, <2>1, <2>2
  <1>6. CASE SetupFails
    BY <1>5, <1>6 DEF SetupFails
  <1>7. CASE BorrowRefused
    BY <1>5, <1>7 DEF BorrowRefused
  <1>8. CASE PermissionsInvalid
    <2>1. Len(stack) = 1 /\ Top.sql \in BOOLEAN
      BY <1>2, <1>8 DEF PermissionsInvalid, CanBorrow, HandlerFrame
    <2>2. pgState' \in PgExecuteState /\ ~pgState'.allowed
      BY <1>8, <2>1 DEF PermissionsInvalid, CloseGateFor, PgExecuteState
    <2>3. QED
      BY <1>4, <1>8, <2>1, <2>2 DEF PermissionsInvalid
  <1>9. CASE EnterRuntime
    <2>1. Len(stack) = 1 /\ ~borrowed /\ Top = Holder /\ Holder \in HandlerFrame
      BY <1>2, <1>9 DEF EnterRuntime, CanBorrow, Top, Holder
    <2>2. /\ stack' \in Seq(Frame)
          /\ Len(stack') = 1
          /\ Busy'
          /\ Holder' = [Holder EXCEPT !.phase = "entered"]
          /\ Holder' \in HandlerFrame
      BY <1>9, <2>1, GotoFacts DEF EnterRuntime, Phases
    <2>3. /\ Holder'.kind = Holder.kind
          /\ Holder'.oid = Holder.oid
          /\ Holder'.grant = Holder.grant
          /\ Holder'.sql = Holder.sql
          /\ Holder'.phase = "entered"
      BY <2>1, <2>2 DEF HandlerFrame
    <2>4. /\ pgState' = [enabled |-> Holder.sql, allowed |-> FALSE]
          /\ pgState' \in PgExecuteState
          /\ pgState'.enabled = Holder.sql
          /\ pgState'.allowed = FALSE
      BY <1>9, <2>1 DEF EnterRuntime, CloseGateFor, PgExecuteState, HandlerFrame
    <2>5. perms' = Holder.grant /\ borrowed' = TRUE
      BY <1>9, <2>1 DEF EnterRuntime, SetRuntimePermissions
    <2>6. ctx' = None /\ fnCache' = fnCache /\ tasks' = tasks
      BY <1>9, <2>1 DEF EnterRuntime, IInv, ContextIsScoped
    <2>7. /\ fnCache' \in SUBSET (Owners \X Sources)
          /\ tasks' \in [Slots -> Owners \cup {None}]
      BY <2>6 DEF IInv, StateTypes
    <2>8. "entered" \notin BodyPhases /\ "entered" \notin LoadPhases
      BY DEF BodyPhases, LoadPhases
    <2>9. QED
      BY <2>1, <2>2, <2>3, <2>4, <2>5, <2>6, <2>7, <2>8, HolderStepPreserves
  <1>10. QED
    BY <1>6, <1>7, <1>8, <1>9 DEF Setup

\* A holder that moves to phase p, with the shared state set as p wants it.
LEMMA MovePreserves ==
  ASSUME IInv, Busy, Top.phase \notin {"setup", "sql"},
         NEW p \in Phases, p # "setup", Goto(p),
         UNCHANGED <<borrowed, perms>>,
         pgState' \in PgExecuteState,
         pgState'.enabled = pgState.enabled,
         pgState'.allowed <=> p \in BodyPhases,
         ctx' = IF p \in LoadPhases THEN Holder.oid ELSE None,
         Holder.kind = "validate" => p \notin BodyPhases,
         fnCache' \in SUBSET (Owners \X Sources),
         tasks' \in [Slots -> Owners \cup {None}]
  PROVE  IInv'
  <1>1. Len(stack) = 1 /\ Top = Holder /\ Holder \in HandlerFrame /\ borrowed
    BY PastSetupIsAlone
  <1>2. /\ stack' \in Seq(Frame)
        /\ Len(stack') = 1
        /\ Busy'
        /\ Holder' = [Holder EXCEPT !.phase = p]
        /\ Holder' \in HandlerFrame
        /\ Holder'.phase = p
    BY <1>1, GotoFacts
  <1>3. /\ Holder'.kind = Holder.kind
        /\ Holder'.oid = Holder.oid
        /\ Holder'.grant = Holder.grant
        /\ Holder'.sql = Holder.sql
    BY <1>1, <1>2 DEF HandlerFrame
  <1>4. perms' = Holder.grant /\ pgState.enabled = Holder.sql /\ borrowed' = TRUE
    BY <1>1 DEF IInv, HolderHasItsGrants, StateTypes
  <1>5. pgState'.enabled = Holder.sql
    BY <1>4
  <1>6. QED
    BY <1>1, <1>2, <1>3, <1>4, <1>5, HolderStepPreserves

\* What the shared state is while the holder is past its setup.
LEMMA SharedStateOfHolder ==
  ASSUME IInv, Busy, Top.phase \notin {"setup", "sql"}
  PROVE  /\ pgState \in PgExecuteState
         /\ pgState.allowed <=> Top.phase \in BodyPhases
         /\ ctx = IF Top.phase \in LoadPhases THEN Holder.oid ELSE None
         /\ fnCache \in SUBSET (Owners \X Sources)
         /\ tasks \in [Slots -> Owners \cup {None}]
  <1>1. Top = Holder /\ borrowed
    BY PastSetupIsAlone
  <1>2. QED
    BY <1>1 DEF IInv, StateTypes, GateFollowsBody, ContextIsScoped

\* Loading: from "entered" to "loaded", or out.
LEMMA LoadPreserves ==
  ASSUME IInv, Load
  PROVE  IInv'
  <1> USE DEF InPhase
  <1>1. Busy /\ Top.phase \in {"entered", "loading", "evaluating", "loaded"}
    BY DEF Load, UseCached, StartLoading, LoadFails, LoadSucceeds,
           EvaluationFails, EvaluationSucceeds, PreloadReturns
  <1>2. Top.phase \notin {"setup", "sql"} /\ Top.phase \notin BodyPhases
    BY <1>1 DEF BodyPhases
  <1>3. /\ Top = Holder /\ Holder \in HandlerFrame
        /\ pgState \in PgExecuteState /\ ~pgState.allowed
        /\ ctx = IF Top.phase \in LoadPhases THEN Holder.oid ELSE None
        /\ fnCache \in SUBSET (Owners \X Sources)
        /\ tasks \in [Slots -> Owners \cup {None}]
    BY <1>1, <1>2, PastSetupIsAlone, SharedStateOfHolder
  <1>4. CASE LoadFails \/ EvaluationFails \/ PreloadReturns
    <2>1. Leave /\ tasks' \in [Slots -> Owners \cup {None}]
      BY <1>3, <1>4 DEF LoadFails, EvaluationFails, PreloadReturns
    <2>2. QED
      BY <1>1, <1>2, <2>1, LeaveFacts
  <1>5. CASE UseCached
    <2>1. UNCHANGED <<borrowed, ctx, pgState, perms, fnCache, tasks>>
      BY <1>5 DEF UseCached, runtimeVars
    <2>2. "loaded" \in Phases /\ "loaded" \notin BodyPhases /\ "loaded" \notin LoadPhases
      BY DEF Phases, BodyPhases, LoadPhases
    <2>3. Goto("loaded") /\ Top.phase \notin LoadPhases
      BY <1>5 DEF UseCached, LoadPhases
    <2>4. QED
      BY <1>1, <1>2, <1>3, <2>1, <2>2, <2>3, MovePreserves
  <1>6. CASE StartLoading
    <2>1. "loading" \in Phases /\ "loading" \notin BodyPhases /\ "loading" \in LoadPhases
      BY DEF Phases, BodyPhases, LoadPhases
    <2>2. /\ Goto("loading")
          /\ ctx' = Holder.oid
          /\ UNCHANGED <<borrowed, pgState, perms, fnCache, tasks>>
      BY <1>3, <1>6 DEF StartLoading
    <2>3. QED
      BY <1>1, <1>2, <1>3, <2>1, <2>2, MovePreserves
  <1>7. CASE LoadSucceeds
    <2>1. "evaluating" \in Phases /\ "evaluating" \notin BodyPhases /\ "evaluating" \in LoadPhases
      BY DEF Phases, BodyPhases, LoadPhases
    <2>2. /\ Goto("evaluating")
          /\ ctx' = Holder.oid
          /\ UNCHANGED <<borrowed, ctx, pgState, perms, fnCache, tasks>>
      BY <1>3, <1>7 DEF LoadSucceeds, runtimeVars, LoadPhases
    <2>3. QED
      BY <1>1, <1>2, <1>3, <2>1, <2>2, MovePreserves
  <1>8. CASE EvaluationSucceeds
    <2>1. "loaded" \in Phases /\ "loaded" \notin BodyPhases /\ "loaded" \notin LoadPhases
      BY DEF Phases, BodyPhases, LoadPhases
    <2>2. /\ Goto("loaded")
          /\ ctx' = None
          /\ UNCHANGED <<borrowed, pgState, perms, tasks>>
      BY <1>3, <1>8 DEF EvaluationSucceeds, ClearContext
    <2>3. fnCache' \in SUBSET (Owners \X Sources)
      BY <1>3, <1>8 DEF EvaluationSucceeds, CacheKey, HandlerFrame
    <2>4. QED
      BY <1>1, <1>2, <1>3, <2>1, <2>2, <2>3, MovePreserves
  <1>9. QED
    BY <1>4, <1>5, <1>6, <1>7, <1>8 DEF Load

\* Suspending or resuming the body: the holder stays within its body.
LEMMA SuspendPreserves ==
  ASSUME IInv, Busy, Top.phase \in BodyPhases,
         NEW p \in BodyPhases, NEW w \in Slots \cup {None},
         GotoWaiting(p, w),
         UNCHANGED <<borrowed, ctx, pgState, perms, fnCache>>,
         tasks' \in [Slots -> Owners \cup {None}]
  PROVE  IInv'
  <1> DEFINE h == [Holder EXCEPT !.phase = p, !.waits = w]
  <1>1. Top.phase \notin {"setup", "sql"} /\ p # "setup" /\ p \in Phases
    BY DEF BodyPhases, Phases
  <1>2. /\ Len(stack) = 1
        /\ Top = Holder /\ Holder \in HandlerFrame /\ borrowed
        /\ stack \in Seq(Frame)
    BY <1>1, PastSetupIsAlone, Depth
  <1>3. stack' = [stack EXCEPT ![1] = h]
    BY <1>2 DEF GotoWaiting, Holder
  <1>4. /\ h \in HandlerFrame
        /\ h.phase = p
        /\ h.kind = Holder.kind /\ h.oid = Holder.oid
        /\ h.grant = Holder.grant /\ h.sql = Holder.sql
    BY <1>1, <1>2 DEF HandlerFrame
  <1>5. PICK g \in HandlerFrame : g = h
    BY <1>4
  <1>6. /\ stack' \in Seq(Frame)
        /\ Len(stack') = 1
        /\ Busy'
        /\ Holder' = g
    <2>1. stack' = [stack EXCEPT ![1] = g]
      BY <1>3, <1>5
    <2>2. QED
      BY <1>2, <2>1, ReplaceHolder
  <1>7. /\ pgState \in PgExecuteState
        /\ pgState.allowed
        /\ ctx = None
        /\ fnCache \in SUBSET (Owners \X Sources)
    BY <1>1, SharedStateOfHolder DEF BodyPhases, LoadPhases
  <1>8. pgState.enabled = Holder.sql /\ perms = Holder.grant
    BY <1>2 DEF IInv, HolderHasItsGrants
  <1>9. Holder.kind # "validate"
    BY <1>2 DEF IInv, ValidatorHasNoBody
  <1>10. p \notin LoadPhases
    BY DEF BodyPhases, LoadPhases
  <1>11. QED
    <2> HIDE DEF h
    <2>1. borrowed' = TRUE
      BY <1>2 DEF IInv, StateTypes
    <2>2. QED
      BY <1>1, <1>2, <1>4, <1>5, <1>6, <1>7, <1>8, <1>9, <1>10, <2>1,
         HolderStepPreserves

\* The body: from "loaded" to "settled", or out.
LEMMA BodyPreserves ==
  ASSUME IInv, Body
  PROVE  IInv'
  <1> USE DEF InPhase
  <1>1. Busy /\ Top.phase \in {"loaded", "body", "settled"}
    BY DEF Body, StartBody, BodyFails, Await, BodySettles, Return
  <1>2. Top.phase \notin {"setup", "sql"} /\ Top.phase \notin LoadPhases
    BY <1>1 DEF LoadPhases
  <1>3. /\ Len(stack) = 1
        /\ Top = Holder /\ Holder \in HandlerFrame /\ borrowed
        /\ pgState \in PgExecuteState
        /\ pgState.allowed <=> Top.phase \in BodyPhases
        /\ ctx = None
        /\ fnCache \in SUBSET (Owners \X Sources)
        /\ tasks \in [Slots -> Owners \cup {None}]
    BY <1>1, <1>2, PastSetupIsAlone, SharedStateOfHolder
  <1>4. CASE BodyFails \/ Return
    <2>1. Leave /\ tasks' \in [Slots -> Owners \cup {None}]
      BY <1>3, <1>4 DEF BodyFails, Return
    <2>2. QED
      BY <1>1, <1>2, <2>1, LeaveFacts
  <1>5. CASE StartBody
    <2>1. "body" \in Phases /\ "body" \in BodyPhases /\ "body" \notin LoadPhases
      BY DEF Phases, BodyPhases, LoadPhases
    <2>2. /\ Goto("body")
          /\ UNCHANGED <<borrowed, ctx, perms, fnCache, tasks>>
          /\ Holder.kind # "validate"
      BY <1>3, <1>5 DEF StartBody
    <2>3. /\ pgState' \in PgExecuteState
          /\ pgState'.enabled = pgState.enabled
          /\ pgState'.allowed = TRUE
      BY <1>3, <1>5 DEF StartBody, PgExecuteState
    <2>4. QED
      BY <1>1, <1>2, <1>3, <2>1, <2>2, <2>3, MovePreserves
  <1>6. CASE BodySettles
    <2>1. "settled" \in Phases /\ "settled" \in BodyPhases /\ "settled" \notin LoadPhases
      BY DEF Phases, BodyPhases, LoadPhases
    <2>2. /\ Goto("settled")
          /\ UNCHANGED <<borrowed, ctx, pgState, perms, fnCache, tasks>>
      BY <1>3, <1>6 DEF BodySettles, runtimeVars
    <2>3. Top.phase \in BodyPhases
      BY <1>6 DEF BodySettles, BodyPhases
    <2>4. Holder.kind # "validate"
      BY <1>1, <1>3, <2>3 DEF IInv, ValidatorHasNoBody
    <2>5. QED
      BY <1>1, <1>2, <1>3, <2>1, <2>2, <2>3, <2>4, MovePreserves
  <1>7. CASE Await
    <2>1. PICK w \in Slots \cup {None} : GotoWaiting("awaiting", w)
      BY <1>7 DEF Await
    <2>2. UNCHANGED <<borrowed, ctx, pgState, perms, fnCache, tasks>>
      BY <1>7 DEF Await, runtimeVars
    <2>3. Top.phase \in BodyPhases /\ "awaiting" \in BodyPhases
      BY <1>7 DEF Await, BodyPhases
    <2>4. QED
      BY <1>1, <1>3, <2>1, <2>2, <2>3, SuspendPreserves
  <1>8. QED
    BY <1>4, <1>5, <1>6, <1>7 DEF Body

\* The event loop: work starts, completes, or fails the poll.
LEMMA EventLoopPreserves ==
  ASSUME IInv, EventLoop
  PROVE  IInv'
  <1> USE DEF InPhase
  <1>1. Busy /\ Top.phase \in {"evaluating", "body", "awaiting", "settled"}
    BY DEF EventLoop, StartTask, TaskCompletes, TaskRejects, LoopRunsDry, LoopPhases
  <1>2. Top.phase \notin {"setup", "sql"}
    BY <1>1
  <1>3. /\ Top = Holder /\ Holder \in HandlerFrame
        /\ tasks \in [Slots -> Owners \cup {None}]
    BY <1>1, <1>2, PastSetupIsAlone, SharedStateOfHolder
  <1>4. ASSUME UNCHANGED <<stack, borrowed, ctx, pgState, perms, fnCache>>,
               tasks' \in [Slots -> Owners \cup {None}]
        PROVE  IInv'
    BY <1>4 DEF IInv, StateTypes, StackShape, BorrowFollowsHolder, GateFollowsBody,
                HolderHasItsGrants, ContextIsScoped, ValidatorHasNoBody,
                Busy, Holder
  <1>5. ASSUME NEW s \in Slots, StartTask(s)
        PROVE  IInv'
    <2>1. Top.oid \in Owners
      BY <1>3 DEF HandlerFrame
    <2>2. tasks' \in [Slots -> Owners \cup {None}]
      BY <1>3, <1>5, <2>1 DEF StartTask
    <2>3. QED
      BY <1>4, <1>5, <2>2 DEF StartTask
  <1>6. ASSUME NEW s \in Slots, tasks' = [tasks EXCEPT ![s] = None]
        PROVE  tasks' \in [Slots -> Owners \cup {None}]
    BY <1>3, <1>6
  <1>7. ASSUME NEW s \in Slots, TaskCompletes(s)
        PROVE  IInv'
    <2>1. /\ tasks' \in [Slots -> Owners \cup {None}]
          /\ UNCHANGED <<borrowed, ctx, pgState, perms, fnCache>>
      BY <1>6, <1>7 DEF TaskCompletes
    <2>2. CASE Top.phase = "awaiting" /\ Top.waits = s
      <3>1. GotoWaiting("body", None)
        BY <1>7, <2>2 DEF TaskCompletes
      <3>2. "body" \in BodyPhases /\ Top.phase \in BodyPhases
        BY <2>2 DEF BodyPhases
      <3>3. QED
        BY <1>1, <2>1, <3>1, <3>2, SuspendPreserves
    <2>3. CASE ~(Top.phase = "awaiting" /\ Top.waits = s)
      BY <1>4, <1>7, <2>1, <2>3 DEF TaskCompletes
    <2>4. QED
      BY <2>2, <2>3
  <1>8. ASSUME NEW s \in Slots, TaskRejects(s)
        PROVE  IInv'
    <2>1. Leave /\ tasks' \in [Slots -> Owners \cup {None}]
      BY <1>6, <1>8 DEF TaskRejects
    <2>2. QED
      BY <1>1, <1>2, <2>1, LeaveFacts
  <1>9. CASE LoopRunsDry
    <2>1. Leave /\ tasks' \in [Slots -> Owners \cup {None}]
      BY <1>3, <1>9 DEF LoopRunsDry
    <2>2. QED
      BY <1>1, <1>2, <2>1, LeaveFacts
  <1>10. QED
    BY <1>5, <1>7, <1>8, <1>9 DEF EventLoop

\* An open gate means that the holder is alone, in its body.
LEMMA OpenGate ==
  ASSUME IInv, Busy, Top.phase \notin {"setup", "sql"}, GateOpen
  PROVE  /\ Len(stack) = 1
         /\ borrowed
         /\ Holder \in HandlerFrame
         /\ Holder.phase \in BodyPhases
         /\ Holder.sql
         /\ Holder.kind # "validate"
  <1>1. Len(stack) = 1 /\ Holder \in HandlerFrame /\ borrowed
    BY PastSetupIsAlone
  <1>2. Holder.phase \in BodyPhases
    BY DEF IInv, GateFollowsBody, GateOpen
  <1>3. Holder.sql
    BY <1>1 DEF IInv, HolderHasItsGrants, GateOpen
  <1>4. Holder.kind # "validate"
    BY <1>2 DEF IInv, ValidatorHasNoBody
  <1>5. QED
    BY <1>1, <1>2, <1>3, <1>4

\* A statement goes on top of the body that may issue it, and comes off again.
LEMMA SqlPreserves ==
  ASSUME IInv, Sql
  PROVE  IInv'
  <1>1. CASE StatementReturns
    <2>1. Len(stack) = 2
      BY <1>1, SqlPhaseIsStatement DEF StatementReturns
    <2>2. QED
      BY <1>1, <2>1, PopAbovePreserves DEF StatementReturns
  <1>2. ASSUME NEW oid \in Owners, PgExecute(oid)
        PROVE  IInv'
    <2> DEFINE f == [kind |-> "sql", oid |-> oid, phase |-> "sql"]
    <2>1. Busy /\ Top.phase \notin {"setup", "sql"} /\ GateOpen
      BY <1>2 DEF PgExecute, RunsCodeOf, LoopPhases
    <2>2. Len(stack) = 1 /\ Holder.phase \in BodyPhases /\ Holder.sql
      BY <2>1, OpenGate
    <2>3. f \in StatementFrame
      BY DEF StatementFrame
    <2>4. stack \in Seq(Frame)
      BY DEF IInv, StateTypes, Frame
    <2>5. PICK g \in StatementFrame : stack' = Append(stack, g)
      BY <1>2, <2>3 DEF PgExecute, Push
    <2>6. g \in Frame
      BY DEF Frame
    <2>7. /\ stack' \in Seq(Frame)
          /\ Len(stack') = 2
          /\ Busy'
          /\ stack'[2] = g
          /\ Holder' = Holder
      <3>1. /\ stack' \in Seq(Frame)
            /\ Len(stack') = Len(stack) + 1
            /\ stack' # <<>>
            /\ stack'[Len(stack) + 1] = g
            /\ \A i \in 1..Len(stack) : stack'[i] = stack[i]
        BY <2>4, <2>5, <2>6, PushFacts
      <3>2. stack'[1] = stack[1]
        BY <2>2, <3>1
      <3>3. QED
        BY <2>2, <3>1, <3>2 DEF Busy, Holder
    <2>8. UNCHANGED <<borrowed, ctx, pgState, perms, fnCache, tasks>>
      BY <1>2 DEF PgExecute, runtimeVars
    <2>9. StateTypes'
      BY <2>7, <2>8 DEF IInv, StateTypes, Frame
    <2>10. StackShape'
      BY <2>2, <2>7 DEF IInv, StackShape, Holder
    <2>11. QED
      BY <2>1, <2>7, <2>8, <2>9, <2>10
         DEF IInv, BorrowFollowsHolder, GateFollowsBody, HolderHasItsGrants,
             ContextIsScoped, ValidatorHasNoBody
  <1>3. QED
    BY <1>1, <1>2 DEF Sql

\* The runtime create_runtime returns is an idle one.
LEMMA InitEstablishes ==
  ASSUME Init
  PROVE  IInv
  <1>1. stack = <<>> /\ stack \in Seq(Frame) /\ Len(stack) = 0 /\ ~Busy
    BY EmptySeq DEF Init, Busy
  <1>2. StateTypes
    BY <1>1, BackendAssumption DEF Init, StateTypes, PgExecuteState, Frame
  <1>3. StackShape
    BY <1>1 DEF StackShape
  <1>4. QED
    BY <1>1, <1>2, <1>3
       DEF Init, IInv, BorrowFollowsHolder, GateFollowsBody,
           HolderHasItsGrants, ContextIsScoped, ValidatorHasNoBody

\* Every step of a backend keeps the invariant.
LEMMA NextPreserves ==
  ASSUME IInv, [Next]_vars
  PROVE  IInv'
  <1>1. CASE Next
    BY <1>1, EnterPreserves, SetupPreserves, LoadPreserves, BodyPreserves,
       EventLoopPreserves, SqlPreserves DEF Next
  <1>2. CASE UNCHANGED vars
    BY <1>2 DEF vars, runtimeVars, IInv, StateTypes, StackShape, Busy, Holder,
                BorrowFollowsHolder, GateFollowsBody, HolderHasItsGrants,
                ContextIsScoped, ValidatorHasNoBody
  <1>3. QED
    BY <1>1, <1>2

-----------------------------------------------------------------------------
(***************************************************************************)
(* What follows from IInv, and the theorems.                               *)
(***************************************************************************)
\* The inductive invariant holds in every reachable state.
THEOREM Inductive == Spec => []IInv
  <1>1. Init => IInv
    BY InitEstablishes
  <1>2. IInv /\ [Next]_vars => IInv'
    BY NextPreserves
  <1>3. QED
    BY <1>1, <1>2, PTL DEF Spec

\* Every variable keeps its type, and no frame of the validator gets to a
\* body, whatever fails and however far.
THEOREM TypeCorrect == Spec => []TypeOK
  <1>1. IInv => TypeOK
    <2> SUFFICES ASSUME IInv, NEW i \in DOMAIN stack, stack[i].kind = "validate"
                 PROVE  stack[i].phase \notin BodyPhases
      BY DEF IInv, TypeOK
    <2>1. stack \in Seq(Frame)
      BY DEF IInv, StateTypes, Frame
    <2>2. Len(stack) <= 3 /\ i \in 1..Len(stack)
      BY <2>1 DEF IInv, StackShape
    <2>3. CASE i = 1
      BY <2>2, <2>3 DEF IInv, ValidatorHasNoBody, Busy, Holder
    <2>4. CASE i = 2
      BY <2>2, <2>4 DEF IInv, StackShape, StatementFrame
    <2>5. CASE i = 3
      BY <2>2, <2>5 DEF IInv, StackShape, BodyPhases
    <2>6. QED
      BY <2>1, <2>2, <2>3, <2>4, <2>5
  <1>2. QED
    BY <1>1, Inductive, PTL

\* When the last handler has returned, on any path, the runtime is not
\* borrowed, has no loader context and does not execute SQL.
THEOREM CleanWhenIdle == Spec => []IdleIsClean
  <1>1. IInv => IdleIsClean
    BY DEF IInv, IdleIsClean, BorrowFollowsHolder, GateFollowsBody,
           ContextIsScoped, StateTypes, PgExecuteState
  <1>2. QED
    BY <1>1, Inductive, PTL

\* Re-entrant handlers stay in their setup, with the runtime borrowed.
LEMMA IInvImpliesOneInside ==
  ASSUME IInv
  PROVE  OneInvocationInside
  <1>1. ASSUME NEW i \in DOMAIN stack, i > 1
        PROVE  stack[i].phase \in {"sql", "setup"}
    <2>1. Busy
      BY <1>1, EmptySeq DEF Busy
    <2>2. Len(stack) \in 1..3 /\ stack \in Seq(Frame)
      BY <2>1, Depth
    <2>3. DOMAIN stack = 1..Len(stack)
      BY <2>2, LenProperties
    <2>4. i \in {2, 3} /\ i <= Len(stack)
      BY <1>1, <2>2, <2>3
    <2>5. QED
      BY <2>2, <2>4 DEF IInv, StackShape, StatementFrame
  <1>2. QED
    BY <1>1 DEF IInv, OneInvocationInside, BorrowFollowsHolder

\* At most one invocation is past its setup, the outermost; the runtime is
\* borrowed exactly while there is one.
THEOREM OneInside == Spec => []OneInvocationInside
  <1>1. IInv => OneInvocationInside
    BY IInvImpliesOneInside
  <1>2. QED
    BY <1>1, Inductive, PTL

\* The permissions and the `_pg` switch the runtime has are those of the
\* invocation inside it.
THEOREM GrantsOfTheHolder == Spec => []HolderHasItsGrants
  <1>1. IInv => HolderHasItsGrants
    BY DEF IInv
  <1>2. QED
    BY <1>1, Inductive, PTL

\* The loader resolves for the invocation that is loading and for no other.
THEOREM ContextOfTheLoad == Spec => []ContextIsScoped
  <1>1. IInv => ContextIsScoped
    BY DEF IInv
  <1>2. QED
    BY <1>1, Inductive, PTL

\* A statement's holder is in its body and was granted SQL.
LEMMA IInvImpliesSqlBelowABody ==
  ASSUME IInv
  PROVE  SqlOnlyBelowABody
  <1>1. ASSUME NEW i \in DOMAIN stack, stack[i].kind = "sql"
        PROVE  /\ Holder.kind # "validate"
               /\ Holder.sql
               /\ Holder.phase \in BodyPhases
               /\ ctx = None
    <2>1. Busy
      BY <1>1, EmptySeq DEF Busy
    <2>2. Len(stack) \in 1..3 /\ stack \in Seq(Frame)
      BY <2>1, Depth
    <2>3. DOMAIN stack = 1..Len(stack)
      BY <2>2, LenProperties
    <2>4. i \in {1, 2, 3} /\ i <= Len(stack)
      BY <2>2, <2>3
    <2>5. Len(stack) >= 2
      BY <1>1, <2>2, <2>4 DEF IInv, StackShape, HandlerFrame
    <2>6. Holder.sql /\ Holder.phase \in BodyPhases
      BY <2>5 DEF IInv, StackShape
    <2>7. Holder.kind # "validate"
      BY <2>1, <2>6 DEF IInv, ValidatorHasNoBody
    <2>8. ctx = None
      BY <2>6 DEF IInv, ContextIsScoped, BodyPhases, LoadPhases
    <2>9. QED
      BY <2>6, <2>7, <2>8
  <1>2. QED
    BY <1>1 DEF SqlOnlyBelowABody

\* SQL executes only below a body that was granted it.
THEOREM SqlBelowABody == Spec => []SqlOnlyBelowABody
  <1>1. IInv => SqlOnlyBelowABody
    BY IInvImpliesSqlBelowABody
  <1>2. QED
    BY <1>1, Inductive, PTL

\* With something above the holder, only the stack changes.
LEMMA NestedStep ==
  ASSUME IInv, Next, Len(stack) > 1
  PROVE  UNCHANGED runtimeVars
  <1>1. Len(stack) # 1
    <2>1. stack \in Seq(Frame)
      BY DEF IInv, StateTypes, Frame
    <2>2. Len(stack) \in Nat
      BY <2>1
    <2>3. \A n \in Nat : n > 1 => n # 1
      OBVIOUS
    <2>4. QED
      BY <2>2, <2>3
  <1>2. ~(Busy /\ Top.phase \notin {"setup", "sql"})
    <2> SUFFICES ASSUME Busy, Top.phase \notin {"setup", "sql"}
                 PROVE  FALSE
      OBVIOUS
    <2>1. Len(stack) = 1
      BY PastSetupIsAlone
    <2>2. QED
      BY <1>1, <2>1
  <1>3. ~Load /\ ~Body /\ ~EventLoop
    BY <1>2
       DEF InPhase, LoopPhases,
           Load, UseCached, StartLoading, LoadFails, LoadSucceeds,
           EvaluationFails, EvaluationSucceeds, PreloadReturns,
           Body, StartBody, BodyFails, Await, BodySettles, Return,
           EventLoop, StartTask, TaskCompletes, TaskRejects, LoopRunsDry
  <1>4. CASE Enter
    BY <1>4 DEF Enter, CallHandler, Validator, InlineHandler
  <1>5. CASE Setup
    <2>1. InPhase("setup")
      BY <1>5 DEF Setup, SetupFails, BorrowRefused, EnterRuntime, PermissionsInvalid
    <2>2. borrowed
      <3>1. \/ Len(stack) = 1 /\ ~borrowed
            \/ Len(stack) = 3 /\ borrowed
        BY <2>1, SetupIsFirstOrThird
      <3>2. QED
        BY <1>1, <3>1
    <2>3. QED
      BY <1>5, <2>2
         DEF Setup, SetupFails, BorrowRefused, EnterRuntime, PermissionsInvalid,
             CanBorrow
  <1>6. CASE Sql
    BY <1>6 DEF Sql, PgExecute, StatementReturns
  <1>7. QED
    BY <1>3, <1>4, <1>5, <1>6 DEF Next

\* A nested handler, on whatever path it takes, leaves the runtime to the
\* invocation whose statement it serves.
THEOREM NestedIsHarmless == Spec => NestedLeavesRuntimeAlone
  <1>1. IInv /\ [Next]_vars => [Len(stack) > 1 => UNCHANGED runtimeVars]_vars
    BY NestedStep
  <1>2. QED
    BY <1>1, Inductive, PTL DEF Spec, NestedLeavesRuntimeAlone

-----------------------------------------------------------------------------
(***************************************************************************)
(* Backend implements RuntimeContract.                                     *)
(***************************************************************************)
\* What the mapping reads while an invocation is inside.
LEMMA MappingOfHolder ==
  ASSUME IInv, borrowed
  PROVE  /\ Holder \in HandlerFrame
         /\ LeaseOf = [oid |-> Holder.oid, grant |-> Holder.grant, sql |-> Holder.sql]
         /\ LeaseOf \in Contract!Leases
         /\ LeaseOf # None
         /\ LeaseOf.sql = Holder.sql
         /\ LeaseOf.grant = Holder.grant
  <1>1. Busy
    BY DEF IInv, BorrowFollowsHolder
  <1>2. Len(stack) \in 1..3
    BY <1>1, Depth
  <1>3. Holder \in HandlerFrame
    BY <1>2 DEF IInv, StackShape, Holder
  <1>4. LeaseOf = [oid |-> Holder.oid, grant |-> Holder.grant, sql |-> Holder.sql]
    BY DEF LeaseOf
  <1>5. LeaseOf \in Contract!Leases
    BY <1>3, <1>4 DEF Contract!Leases, HandlerFrame
  <1>6. LeaseOf # None
    BY <1>5, BackendAssumption DEF Contract!Leases
  <1>7. QED
    BY <1>3, <1>4, <1>5, <1>6

\* Leaving is giving the lease back.
LEMMA LeaveGivesBack ==
  ASSUME IInv, Busy, Top.phase \notin {"setup", "sql"}, Leave
  PROVE  Contract!GiveBack
  <1>1. Len(stack) = 1 /\ Top = Holder /\ borrowed
    BY PastSetupIsAlone
  <1>2. stack' = <<>> /\ Len(stack') = 0
    BY <1>1, PopFacts, EmptySeq DEF IInv, StateTypes, Leave, Pop, Busy
  <1>3. LeaseOf' = None
    BY DEF Leave, DropBorrow, LeaseOf
  <1>4. ~pgState'.allowed
    BY <1>1 DEF IInv, StateTypes, GateFollowsBody, Leave, CloseGate, PgExecuteState
  <1>5. GateOpen' = FALSE
    BY <1>4 DEF GateOpen
  <1>6. perms' = perms
    BY DEF Leave
  <1>7. LeaseOf # None
    BY <1>1, MappingOfHolder
  <1>8. QED
    BY <1>1, <1>2, <1>3, <1>5, <1>6, <1>7 DEF Contract!GiveBack, Contract!Lent

\* The holder stays who it is when its frame is replaced at another phase.
LEMMA SameHolder ==
  ASSUME IInv, Busy, Top.phase \notin {"setup", "sql"}, UNCHANGED borrowed,
         \/ \E p \in Phases : Goto(p)
         \/ \E p \in Phases, w \in Slots \cup {None} : GotoWaiting(p, w)
         \/ UNCHANGED stack
  PROVE  /\ Len(stack) = 1
         /\ Len(stack') = 1
         /\ LeaseOf' = LeaseOf
  <1>1. Len(stack) = 1 /\ Top = Holder /\ Holder \in HandlerFrame /\ borrowed
    BY PastSetupIsAlone
  <1>2. stack \in Seq(Frame)
    BY Depth
  <1>3. ASSUME NEW g \in HandlerFrame, stack' = [stack EXCEPT ![1] = g],
               g.oid = Holder.oid, g.grant = Holder.grant, g.sql = Holder.sql
        PROVE  Len(stack') = 1 /\ LeaseOf' = LeaseOf
    <2>1. Len(stack') = 1 /\ Holder' = g
      BY <1>1, <1>2, <1>3, ReplaceHolder
    <2>2. QED
      BY <1>1, <1>3, <2>1 DEF LeaseOf
  <1>4. ASSUME NEW p \in Phases, Goto(p)
        PROVE  Len(stack') = 1 /\ LeaseOf' = LeaseOf
    <2> DEFINE h == [Holder EXCEPT !.phase = p]
    <2>1. /\ h \in HandlerFrame
          /\ h.oid = Holder.oid /\ h.grant = Holder.grant /\ h.sql = Holder.sql
      BY <1>1 DEF HandlerFrame
    <2>2. stack' = [stack EXCEPT ![1] = h]
      BY <1>1, <1>4 DEF Goto, Holder
    <2>3. QED
      BY <1>3, <2>1, <2>2
  <1>5. ASSUME NEW p \in Phases, NEW w \in Slots \cup {None}, GotoWaiting(p, w)
        PROVE  Len(stack') = 1 /\ LeaseOf' = LeaseOf
    <2> DEFINE h == [Holder EXCEPT !.phase = p, !.waits = w]
    <2>1. /\ h \in HandlerFrame
          /\ h.oid = Holder.oid /\ h.grant = Holder.grant /\ h.sql = Holder.sql
      BY <1>1 DEF HandlerFrame
    <2>2. stack' = [stack EXCEPT ![1] = h]
      BY <1>1, <1>5 DEF GotoWaiting, Holder
    <2>3. QED
      BY <1>3, <2>1, <2>2
  <1>6. UNCHANGED stack => Len(stack') = 1 /\ LeaseOf' = LeaseOf
    BY <1>1 DEF LeaseOf, Holder
  <1>7. QED
    BY <1>1, <1>4, <1>5, <1>6

\* Steps that do not touch the lease, the permissions, or the gate.
LEMMA Stutters ==
  ASSUME LeaseOf' = LeaseOf, perms' = perms, GateOpen' = GateOpen,
         (Len(stack) > 1)' = (Len(stack) > 1)
  PROVE  UNCHANGED Contract!contractVars
  BY DEF Contract!contractVars

\* A new invocation, not yet inside, is not visible in the contract.
LEMMA EnterStutters ==
  ASSUME IInv, Enter
  PROVE  UNCHANGED Contract!contractVars
  <1>1. CanEnter /\ UNCHANGED runtimeVars /\ \E e \in HandlerFrame : Push(e)
    <2>1. \A k \in {"call", "validate", "inline"}, o \in Owners, s \in Sources,
             a \in Grants, e \in BOOLEAN : Invocation(k, o, s, a, e) \in HandlerFrame
      BY DEF Invocation, HandlerFrame, Phases
    <2>2. CASE CallHandler
      BY <2>1, <2>2 DEF CallHandler, Owners
    <2>3. CASE Validator
      BY <2>1, <2>3 DEF Validator, Owners
    <2>4. CASE InlineHandler
      BY <2>1, <2>4 DEF InlineHandler, Owners
    <2>5. QED
      BY <2>2, <2>3, <2>4 DEF Enter
  <1>2. UNCHANGED <<borrowed, pgState, perms>>
    BY <1>1 DEF runtimeVars
  <1>3. /\ stack \in Seq(Frame)
        /\ Len(stack') = Len(stack) + 1
        /\ \A i \in 1..Len(stack) : stack'[i] = stack[i]
    <2>1. stack \in Seq(Frame) /\ HandlerFrame \subseteq Frame
      BY DEF IInv, StateTypes, Frame
    <2>2. PICK e \in Frame : stack' = Append(stack, e)
      BY <1>1, <2>1 DEF Push
    <2>3. QED
      BY <2>1, <2>2, PushFacts
  <1>4. CASE Busy
    <2>1. Len(stack) = 2
      BY <1>1, <1>4, StatementIsSecond DEF CanEnter
    <2>2. Len(stack') = 3 /\ stack'[1] = stack[1]
      BY <1>3, <2>1
    <2>3. QED
      BY <1>2, <2>1, <2>2, Stutters DEF LeaseOf, Holder, GateOpen
  <1>5. CASE ~Busy
    <2>1. Len(stack) = 0 /\ ~borrowed
      BY <1>3, <1>5, EmptySeq DEF Busy, IInv, BorrowFollowsHolder
    <2>2. Len(stack') = 1
      BY <1>3, <2>1
    <2>3. QED
      BY <1>2, <2>1, <2>2, Stutters DEF LeaseOf, GateOpen
  <1>6. QED
    BY <1>4, <1>5

\* Taking the runtime is Lend; giving up before that is not visible.
LEMMA SetupRefines ==
  ASSUME IInv, IInv', Setup
  PROVE  Contract!Lend \/ UNCHANGED Contract!contractVars
  <1>1. InPhase("setup") /\ Busy
    BY DEF Setup, SetupFails, BorrowRefused, EnterRuntime, PermissionsInvalid,
           InPhase
  <1>2. /\ Top \in HandlerFrame
        /\ \/ Len(stack) = 1 /\ ~borrowed
           \/ Len(stack) = 3 /\ borrowed
    BY <1>1, SetupIsFirstOrThird
  <1>3. stack \in Seq(Frame)
    BY <1>1, Depth
  <1>4. Len(stack) = 1 => GateOpen = FALSE /\ LeaseOf = None
    <2>1. Len(stack) = 1 => ~borrowed /\ Holder.phase = "setup"
      BY <1>1, <1>2 DEF InPhase, Top, Holder
    <2>2. Len(stack) = 1 => ~pgState.allowed
      BY <2>1 DEF IInv, GateFollowsBody, BodyPhases
    <2>3. QED
      BY <2>1, <2>2 DEF GateOpen, LeaseOf
  <1>5. ASSUME Pop
        PROVE  /\ Len(stack') = Len(stack) - 1
               /\ Len(stack) = 3 => Holder' = Holder
    <2>1. /\ Len(stack') = Len(stack) - 1
          /\ \A i \in 1..(Len(stack) - 1) : stack'[i] = stack[i]
      BY <1>1, <1>3, <1>5, PopFacts DEF Pop, Busy
    <2>2. QED
      BY <2>1 DEF Holder
  <1>6. ASSUME Pop, UNCHANGED runtimeVars
        PROVE  UNCHANGED Contract!contractVars
    <2>1. UNCHANGED <<borrowed, pgState, perms>>
      BY <1>6 DEF runtimeVars
    <2>2. CASE Len(stack) = 3
      <3>1. Len(stack') = 2 /\ Holder' = Holder
        BY <1>5, <1>6, <2>2
      <3>2. QED
        BY <2>1, <2>2, <3>1, Stutters DEF LeaseOf, GateOpen
    <2>3. CASE Len(stack) = 1 /\ ~borrowed
      <3>1. Len(stack') = 0
        BY <1>5, <1>6, <2>3
      <3>2. QED
        BY <2>1, <2>3, <3>1, Stutters DEF LeaseOf, GateOpen
    <2>4. QED
      BY <1>2, <2>2, <2>3
  <1>7. CASE SetupFails \/ BorrowRefused
    BY <1>6, <1>7 DEF SetupFails, BorrowRefused
  <1>8. CASE PermissionsInvalid
    <2>1. Len(stack) = 1 /\ ~borrowed /\ Pop /\ UNCHANGED <<borrowed, perms>>
      BY <1>2, <1>8 DEF PermissionsInvalid, CanBorrow
    <2>2. Len(stack') = 0
      BY <1>5, <2>1
    <2>3. GateOpen' = FALSE /\ LeaseOf' = None
      BY <1>8, <2>1 DEF PermissionsInvalid, CloseGateFor, GateOpen, LeaseOf
    <2>4. GateOpen' = GateOpen /\ LeaseOf' = LeaseOf /\ perms' = perms
      BY <1>4, <2>1, <2>3
    <2>5. (Len(stack) > 1)' = (Len(stack) > 1)
      BY <2>1, <2>2
    <2>6. QED
      BY <2>4, <2>5, Stutters
  <1>9. CASE EnterRuntime
    <2>1. Len(stack) = 1 /\ Top = Holder /\ ~borrowed
      BY <1>2, <1>9 DEF EnterRuntime, CanBorrow, Top, Holder
    <2>2. Len(stack') = 1
      BY <1>2, <1>9, <2>1, GotoFacts DEF EnterRuntime, Phases
    <2>3. borrowed' /\ GateOpen' = FALSE
      BY <1>9 DEF EnterRuntime, CloseGateFor, GateOpen
    <2>4. LeaseOf' \in Contract!Leases /\ LeaseOf'.grant = Holder'.grant
      <3>1. Busy'
        BY <2>3 DEF IInv, BorrowFollowsHolder
      <3>2. Holder' \in HandlerFrame
        BY <1>2, <1>9, <2>1, GotoFacts DEF EnterRuntime, Phases
      <3>3. LeaseOf' = [oid |-> Holder'.oid, grant |-> Holder'.grant, sql |-> Holder'.sql]
        BY <2>3 DEF LeaseOf
      <3>4. QED
        BY <3>2, <3>3 DEF Contract!Leases, HandlerFrame
    <2>5. perms' = Holder'.grant
      BY <2>3 DEF IInv, HolderHasItsGrants
    <2>6. QED
      BY <1>4, <2>1, <2>2, <2>3, <2>4, <2>5 DEF Contract!Lend, Contract!Lent
  <1>10. QED
    BY <1>7, <1>8, <1>9 DEF Setup

\* Loading, the body and the event loop: the gate opens when a body starts
\* that was granted SQL; leaving gives the lease back.
LEMMA InsideRefines ==
  ASSUME IInv, Load \/ Body \/ EventLoop
  PROVE  \/ Contract!OpenGate
         \/ Contract!GiveBack
         \/ UNCHANGED Contract!contractVars
  <1>1. Busy /\ Top.phase \notin {"setup", "sql"}
    BY DEF InPhase, LoopPhases,
           Load, UseCached, StartLoading, LoadFails, LoadSucceeds,
           EvaluationFails, EvaluationSucceeds, PreloadReturns,
           Body, StartBody, BodyFails, Await, BodySettles, Return,
           EventLoop, StartTask, TaskCompletes, TaskRejects, LoopRunsDry
  <1>2. CASE Leave
    BY <1>1, <1>2, LeaveGivesBack
  <1>3. ASSUME UNCHANGED <<borrowed, perms, pgState>>,
               \/ \E p \in Phases : Goto(p)
               \/ \E p \in Phases, w \in Slots \cup {None} : GotoWaiting(p, w)
               \/ UNCHANGED stack
        PROVE  UNCHANGED Contract!contractVars
    <2>1. /\ Len(stack) = 1
          /\ Len(stack') = 1
          /\ LeaseOf' = LeaseOf
      BY <1>1, <1>3, SameHolder
    <2>2. QED
      BY <1>3, <2>1, Stutters DEF GateOpen
  <1>4. CASE StartBody
    <2>1. /\ Len(stack) = 1
          /\ Len(stack') = 1
          /\ LeaseOf' = LeaseOf
      BY <1>1, <1>4, SameHolder DEF StartBody, Phases, BodyPhases
    <2>2. /\ borrowed
          /\ pgState.enabled = Holder.sql
          /\ Holder.sql \in BOOLEAN
          /\ ~pgState.allowed
      <3>1. borrowed /\ Top = Holder /\ Holder \in HandlerFrame
        BY <1>1, PastSetupIsAlone
      <3>2. Holder.phase \notin BodyPhases
        BY <1>4, <3>1 DEF StartBody, InPhase, BodyPhases
      <3>3. QED
        BY <3>1, <3>2 DEF IInv, HolderHasItsGrants, GateFollowsBody, HandlerFrame
    <2>3. LeaseOf # None /\ LeaseOf.sql = Holder.sql
      BY <2>2, MappingOfHolder
    <2>4. /\ GateOpen = FALSE
          /\ GateOpen' = Holder.sql
          /\ perms' = perms
      BY <1>4, <2>2 DEF StartBody, GateOpen, IInv, StateTypes, PgExecuteState
    <2>5. CASE Holder.sql
      BY <2>1, <2>3, <2>4, <2>5 DEF Contract!OpenGate, Contract!Lent
    <2>6. CASE ~Holder.sql
      BY <2>1, <2>2, <2>4, <2>6, Stutters
    <2>7. QED
      BY <2>2, <2>5, <2>6
  <1>5. CASE Load
    <2>1. \/ Leave
          \/ /\ UNCHANGED <<borrowed, perms, pgState>>
             /\ \E p \in Phases : Goto(p)
      BY <1>5 DEF Load, UseCached, StartLoading, LoadFails, LoadSucceeds,
                  EvaluationFails, EvaluationSucceeds, PreloadReturns,
                  runtimeVars, Phases, LoadPhases
    <2>2. QED
      BY <1>2, <1>3, <2>1
  <1>6. CASE Body
    <2>1. \/ Leave
          \/ StartBody
          \/ /\ UNCHANGED <<borrowed, perms, pgState>>
             /\ \/ \E p \in Phases : Goto(p)
                \/ \E p \in Phases, w \in Slots \cup {None} : GotoWaiting(p, w)
      <3>1. "awaiting" \in Phases /\ "settled" \in Phases
        BY DEF Phases, BodyPhases
      <3>2. QED
        BY <1>6, <3>1 DEF Body, BodyFails, Await, BodySettles, Return, runtimeVars
    <2>2. QED
      BY <1>2, <1>3, <1>4, <2>1
  <1>7. CASE EventLoop
    <2>1. \/ Leave
          \/ /\ UNCHANGED <<borrowed, perms, pgState>>
             /\ \/ \E p \in Phases, w \in Slots \cup {None} : GotoWaiting(p, w)
                \/ UNCHANGED stack
      <3>1. "body" \in Phases
        BY DEF Phases, BodyPhases
      <3>2. QED
        BY <1>7, <3>1 DEF EventLoop, StartTask, TaskCompletes, TaskRejects, LoopRunsDry
    <2>2. QED
      BY <1>2, <1>3, <2>1
  <1>8. QED
    BY <1>5, <1>6, <1>7

\* Statements are Execute and Answer.
LEMMA SqlRefines ==
  ASSUME IInv, Sql
  PROVE  Contract!Execute \/ Contract!Answer
  <1>1. stack \in Seq(Frame)
    BY DEF IInv, StateTypes, Frame
  <1>2. CASE StatementReturns
    <2>1. Len(stack) = 2
      BY <1>2, SqlPhaseIsStatement DEF StatementReturns
    <2>2. Pop /\ UNCHANGED <<borrowed, pgState, perms>>
      BY <1>2 DEF StatementReturns, runtimeVars
    <2>3. Len(stack') = 1 /\ Holder' = Holder
      <3>1. /\ Len(stack') = Len(stack) - 1
            /\ \A i \in 1..(Len(stack) - 1) : stack'[i] = stack[i]
        BY <1>1, <1>2, <2>2, PopFacts DEF Pop, Busy, StatementReturns, InPhase
      <3>2. QED
        BY <2>1, <3>1 DEF Holder
    <2>4. QED
      BY <2>1, <2>2, <2>3 DEF Contract!Answer, LeaseOf, GateOpen
  <1>3. ASSUME NEW oid \in Owners, PgExecute(oid)
        PROVE  Contract!Execute
    <2>1. Busy /\ Top.phase \notin {"setup", "sql"} /\ GateOpen
      BY <1>3 DEF PgExecute, RunsCodeOf, LoopPhases
    <2>2. Len(stack) = 1
      BY <2>1, OpenGate
    <2>3. UNCHANGED <<borrowed, pgState, perms>>
      BY <1>3 DEF PgExecute, runtimeVars
    <2>4. Len(stack') = 2 /\ Holder' = Holder
      <3>1. PICK e \in Frame : stack' = Append(stack, e)
        BY <1>3 DEF PgExecute, Push, Frame, StatementFrame
      <3>2. /\ Len(stack') = Len(stack) + 1
            /\ \A i \in 1..Len(stack) : stack'[i] = stack[i]
        BY <1>1, <3>1, PushFacts
      <3>3. QED
        BY <2>2, <3>2 DEF Holder
    <2>5. QED
      BY <2>1, <2>2, <2>3, <2>4 DEF Contract!Execute, LeaseOf, GateOpen
  <1>4. QED
    BY <1>2, <1>3 DEF Sql

\* Every behaviour of a backend is a behaviour of the lease contract.
THEOREM Implements == Spec => ImplementsContract
  <1>1. Init => Contract!ContractInit
    <2> SUFFICES ASSUME Init
                 PROVE  Contract!ContractInit
      OBVIOUS
    <2>1. Len(stack) = 0
      BY EmptySeq DEF Init
    <2>2. QED
      BY <2>1, BackendAssumption DEF Init, Contract!ContractInit, LeaseOf, GateOpen
  <1>2. IInv /\ IInv' /\ [Next]_vars
        => [Contract!ContractNext]_(Contract!contractVars)
    <2>1. ASSUME IInv, IInv', Next
          PROVE  Contract!ContractNext \/ UNCHANGED Contract!contractVars
      BY <2>1, EnterStutters, SetupRefines, InsideRefines, SqlRefines
         DEF Next, Contract!ContractNext
    <2>2. UNCHANGED vars => UNCHANGED Contract!contractVars
      BY DEF vars, runtimeVars, Contract!contractVars, LeaseOf, Holder, GateOpen
    <2>3. QED
      BY <2>1, <2>2
  <1>3. QED
    BY <1>1, <1>2, Inductive, PTL
       DEF Spec, ImplementsContract, Contract!ContractSpec

=============================================================================
