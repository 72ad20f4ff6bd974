-------------------------- MODULE FunctionRegistry --------------------------
(***************************************************************************)
(* What the sessions promise one another: the modules kept for a function  *)
(* change in one step with its import map, to exactly those it imports, or *)
(* go with it.  An import map may also change, or go, without them, and    *)
(* the function is out of step then.                                       *)
(***************************************************************************)
CONSTANTS Oids, DoBlock, Urls, Sources, Absent

VARIABLES
  imports,   (* what each function imports, or Absent                       *)
  modules,   (* the modules kept for each function and for DO blocks        *)
  inStep     (* functions whose imports and modules changed together last   *)

NoModules == [u \in Urls |-> Absent]
Kept      == [Urls -> Sources \cup {Absent}]

Init ==
  /\ imports = [o \in Oids |-> Absent]
  /\ modules = [o \in Oids \cup {DoBlock} |-> NoModules]
  /\ inStep = Oids

\* Without imports, what is kept does not matter and stays.
Publish(oid) ==
  \E needs \in SUBSET Urls, row \in Kept :
    /\ needs # {} => {u \in Urls : row[u] # Absent} = needs
    /\ needs = {} => row = modules[oid]
    /\ imports' = [imports EXCEPT ![oid] = needs]
    /\ modules' = [modules EXCEPT ![oid] = row]
    /\ inStep' = inStep \cup {oid}

Remove(oid) ==
  /\ imports' = [imports EXCEPT ![oid] = Absent]
  /\ modules' = [modules EXCEPT ![oid] = NoModules]
  /\ inStep' = inStep \cup {oid}

FallBehind(oid) ==
  /\ imports[oid] # Absent
  /\ \E needs \in {Absent} \cup SUBSET Urls : imports' = [imports EXCEPT ![oid] = needs]
  /\ inStep' = inStep \ {oid}
  /\ UNCHANGED modules

DoBlockLeaves ==
  /\ \E row \in Kept : modules' = [modules EXCEPT ![DoBlock] = row]
  /\ UNCHANGED <<imports, inStep>>

Next ==
  \/ \E oid \in Oids : Publish(oid) \/ Remove(oid) \/ FallBehind(oid)
  \/ DoBlockLeaves

Spec == Init /\ [][Next]_<<imports, modules, inStep>>
=============================================================================
