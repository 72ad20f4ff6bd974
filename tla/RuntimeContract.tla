-------------------------- MODULE RuntimeContract --------------------------
(***************************************************************************)
(* What a handler may rely on: the backend's runtime is lent to one        *)
(* invocation at a time, with the permissions of that invocation; SQL is   *)
(* accepted from it only once its body runs and only if it was granted;    *)
(* while a statement executes the lease does not move.                     *)
(*                                                                         *)
(* Backend implements this: the lease is what the stack says, `grant` and  *)
(* `gate` are what the shared OpState says.                                *)
(***************************************************************************)
CONSTANTS
  Owners,   (* whom the runtime can be lent to                              *)
  Grants,   (* permission sets                                              *)
  NoLease   (* nobody has the runtime                                       *)

Leases == [oid: Owners, grant: Grants, sql: BOOLEAN]

VARIABLES
  lease,      (* the invocation the runtime is lent to, or NoLease          *)
  grant,      (* permissions JavaScript runs with                           *)
  gate,       (* SQL is accepted                                            *)
  statement   (* a SQL statement of the lessee is executing                 *)

contractVars == <<lease, grant, gate, statement>>

Lent == lease # NoLease

ContractInit ==
  /\ lease = NoLease
  /\ grant \in Grants
  /\ gate = FALSE
  /\ statement = FALSE

Lend ==
  /\ ~Lent
  /\ lease' \in Leases
  /\ grant' = lease'.grant
  /\ UNCHANGED <<gate, statement>>

OpenGate ==
  /\ Lent
  /\ ~statement
  /\ lease.sql
  /\ gate' = TRUE
  /\ UNCHANGED <<lease, grant, statement>>

Execute ==
  /\ gate
  /\ ~statement
  /\ statement' = TRUE
  /\ UNCHANGED <<lease, grant, gate>>

Answer ==
  /\ statement
  /\ statement' = FALSE
  /\ UNCHANGED <<lease, grant, gate>>

GiveBack ==
  /\ Lent
  /\ ~statement
  /\ lease' = NoLease
  /\ gate' = FALSE
  /\ UNCHANGED <<grant, statement>>

ContractNext == Lend \/ OpenGate \/ Execute \/ Answer \/ GiveBack

ContractSpec == ContractInit /\ [][ContractNext]_contractVars

=============================================================================
