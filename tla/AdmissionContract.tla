------------------------- MODULE AdmissionContract -------------------------
(***************************************************************************)
(* What permission settings promise: code runs only if everything it asked *)
(* for lies within the caps of that moment, and then with exactly what it  *)
(* asked for, whatever is changed while it runs.                           *)
(*                                                                         *)
(* Requests and caps are sets of resources here; Permissions, where they   *)
(* are texts, allow lists and Option<Vec<String>>, implements this.        *)
(***************************************************************************)
CONSTANTS
  Kinds,      (* where a request comes from: a function, or the session     *)
  Fields,     (* read, write, net, ..., import, pg_execute                  *)
  Resources,  (* what code may reach                                        *)
  Idle        (* no code runs                                               *)

Demands == [Fields -> SUBSET Resources]

VARIABLES
  want,       (* what each kind of code asks for                            *)
  cap,        (* what the superuser allows                                  *)
  may         (* the running code: its kind and what it can reach, or Idle  *)

contractVars == <<want, cap, may>>

ContractInit ==
  /\ want \in [Kinds -> Demands]
  /\ cap \in Demands
  /\ may = Idle

\* A setting changes, of either side, at any time.
Change ==
  /\ want' \in [Kinds -> Demands]
  /\ cap' \in Demands
  /\ UNCHANGED may

Start ==
  /\ may = Idle
  /\ \E k \in Kinds :
       /\ \A f \in Fields : want[k][f] \subseteq cap[f]
       /\ may' = [kind |-> k, reach |-> want[k]]
  /\ UNCHANGED <<want, cap>>

Stop ==
  /\ may # Idle
  /\ may' = Idle
  /\ UNCHANGED <<want, cap>>

ContractSpec == ContractInit /\ [][Change \/ Start \/ Stop]_contractVars

=============================================================================
