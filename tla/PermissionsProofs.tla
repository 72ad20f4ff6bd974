------------------------- MODULE PermissionsProofs -------------------------
(***************************************************************************)
(* Proofs about Permissions, for every set of fields, entries, resources   *)
(* and setting texts.                                                      *)
(*                                                                         *)
(* All of it comes down to three facts about one field: an admitted        *)
(* request is not changed by intersecting it with its cap, it denotes no   *)
(* more than the cap, and the Option<Vec<String>> the runtime gets means   *)
(* what the setting means - which needs that no allow list is ever empty.  *)
(***************************************************************************)
EXTENDS Permissions, TLAPS

\* What a text parses to: a setting, or an error.
LEMMA ParsesToSettings ==
  ASSUME NEW f \in Fields, NEW text \in RawSettings
  PROVE  /\ Requested(f, text) \in Settings \cup {Invalid}
         /\ Cap(f, text) \in Settings \cup {Invalid}
  <1>1. ASSUME NEW t \in RawSettings
        PROVE  ParseNonempty(f, t) \in Settings \cup {Invalid}
    <2>1. CASE t.form = "off"
      BY <2>1 DEF ParseNonempty, Settings
    <2>2. CASE t.form = "star"
      BY <2>2 DEF ParseNonempty, Settings
    <2>3. CASE t.form \notin {"off", "star"}
      <3>1. t.items \in SUBSET Items
        BY DEF RawSettings, Blank, Off, Star, List
      <3>2. ParseList(f, t.items) \in Settings \cup {Invalid}
        BY <3>1 DEF ParseList, Settings
      <3>3. ParseNonempty(f, t) = ParseList(f, t.items)
        BY <2>3 DEF ParseNonempty
      <3>4. QED
        BY <3>2, <3>3
    <2>4. QED
      BY <2>1, <2>2, <2>3
  <1>2. {Off, Star} \subseteq RawSettings
    BY DEF RawSettings
  <1>3. QED
    BY <1>1, <1>2 DEF Requested, Cap, ParseRaw, RequestBoot

\* The kinds of setting are told apart by their tag.
LEMMA SettingCases ==
  ASSUME NEW s \in Settings
  PROVE  /\ s # Invalid
         /\ \/ s = Deny /\ s.kind = "deny" /\ s.list = {}
            \/ s = AllowAll /\ s.kind = "all" /\ s.list = {}
            \/ /\ s.kind = "list"
               /\ s.list \in SUBSET Items
               /\ s.list # {}
               /\ s = AllowList(s.list)
  BY DEF Settings, Deny, AllowAll, AllowList, Invalid

\* A request its cap can fulfil passes the intersection unchanged.
LEMMA FulfillableIsUnchanged ==
  ASSUME NEW r \in Settings, NEW c \in Settings, ~Unfulfillable(r, c)
  PROVE  IntersectPermission(r, c) = r
  <1>1. CASE c.kind = "all"
    BY <1>1 DEF IntersectPermission
  <1>2. CASE c.kind = "deny"
    <2>1. r = Deny
      BY <1>2, SettingCases DEF Unfulfillable
    <2>2. QED
      BY <1>2, <2>1 DEF IntersectPermission
  <1>3. CASE c.kind = "list" /\ r.kind = "deny"
    BY <1>3, SettingCases DEF IntersectPermission
  <1>4. CASE c.kind = "list" /\ r.kind = "list"
    <2>1. r.list \cap c.list = r.list /\ r.list # {} /\ r = AllowList(r.list)
      BY <1>4, SettingCases DEF Unfulfillable
    <2>2. QED
      BY <1>4, <2>1 DEF IntersectPermission
  <1>5. QED
    BY <1>1, <1>2, <1>3, <1>4, SettingCases DEF Unfulfillable

\* The intersection is a setting again: no allow list comes out empty.
LEMMA IntersectionIsSetting ==
  ASSUME NEW r \in Settings, NEW c \in Settings
  PROVE  IntersectPermission(r, c) \in Settings
  <1>1. CASE c.kind = "list" /\ r.kind = "list"
    <2>1. r.list \cap c.list \in SUBSET Items
      BY <1>1, SettingCases
    <2>2. QED
      BY <1>1, <2>1 DEF IntersectPermission, Settings
  <1>2. CASE ~(c.kind = "list" /\ r.kind = "list")
    BY <1>2, SettingCases DEF IntersectPermission, Settings
  <1>3. QED
    BY <1>1, <1>2

\* The runtime's encoding means what the setting means.
LEMMA EncodingKeepsMeaning ==
  ASSUME NEW s \in Settings
  PROVE  /\ ToRuntime(s) \in RuntimeLists
         /\ Granted(ToRuntime(s)) = Denote(s)
  <1>1. CASE s.kind = "deny"
    BY <1>1 DEF ToRuntime, None, RuntimeLists, Granted, Denote
  <1>2. CASE s.kind = "all"
    BY <1>2 DEF ToRuntime, Some, RuntimeLists, Granted, Denote
  <1>3. CASE s.kind = "list"
    <2>1. s.list \in SUBSET Items /\ s.list # {}
      BY <1>3, SettingCases
    <2>2. ToRuntime(s) = Some(s.list) /\ Denote(s) = Covered(s.list)
      BY <1>3 DEF ToRuntime, Denote
    <2>3. ToRuntime(s) \in RuntimeLists
      BY <2>1, <2>2 DEF RuntimeLists
    <2>4. Some(s.list).some = TRUE /\ Some(s.list).list = s.list
      BY DEF Some
    <2>5. Granted(Some(s.list)) = Covered(s.list)
      BY <2>1, <2>4 DEF Granted
    <2>6. QED
      BY <2>2, <2>3, <2>5
  <1>4. QED
    BY <1>1, <1>2, <1>3, SettingCases

\* More entries cover more.
LEMMA CoveredIsMonotone ==
  ASSUME NEW s \in SUBSET Items, NEW t \in SUBSET Items, s \subseteq t
  PROVE  /\ Covered(s) \subseteq Covered(t)
         /\ Covered(t) \subseteq Resources
  BY PermissionsAssumption DEF Covered

\* Whatever is asked for under whatever cap, checked or not, what the
\* runtime is given exceeds neither.
THEOREM IntersectionIsBounded ==
  ASSUME NEW r \in Settings, NEW c \in Settings
  PROVE  Granted(ToRuntime(IntersectPermission(r, c))) \subseteq Denote(r) \cap Denote(c)
  <1> DEFINE x == IntersectPermission(r, c)
  <1>1. Granted(ToRuntime(x)) = Denote(x)
    BY IntersectionIsSetting, EncodingKeepsMeaning
  <1>2. \A s \in Settings : Denote(s) \subseteq Resources
    BY SettingCases, CoveredIsMonotone DEF Denote
  <1>3. CASE c.kind = "all"
    BY <1>1, <1>2, <1>3 DEF IntersectPermission, Denote
  <1>4. CASE c.kind = "deny" \/ (c.kind = "list" /\ r.kind = "deny")
    <2>1. x = Deny
      BY <1>4 DEF IntersectPermission
    <2>2. QED
      BY <1>1, <2>1 DEF Denote, Deny
  <1>5. CASE c.kind = "list" /\ r.kind = "all"
    <2>1. x = c /\ Denote(r) = Resources
      BY <1>5 DEF IntersectPermission, Denote
    <2>2. QED
      BY <1>1, <1>2, <2>1
  <1>6. CASE c.kind = "list" /\ r.kind = "list"
    <2> DEFINE both == r.list \cap c.list
    <2>1. r.list \in SUBSET Items /\ c.list \in SUBSET Items
      BY <1>6, SettingCases
    <2>2. Covered(both) \subseteq Covered(r.list) /\ Covered(both) \subseteq Covered(c.list)
      BY <2>1, CoveredIsMonotone
    <2>3. Denote(r) = Covered(r.list) /\ Denote(c) = Covered(c.list)
      BY <1>6 DEF Denote
    <2>4. Denote(x) = {} \/ Denote(x) = Covered(both)
      BY <1>6 DEF IntersectPermission, Denote, Deny, AllowList
    <2>5. QED
      BY <1>1, <2>2, <2>3, <2>4
  <1>7. QED
    BY <1>3, <1>4, <1>5, <1>6, SettingCases

-----------------------------------------------------------------------------
(***************************************************************************)
(* What an admitted invocation gets.                                       *)
(***************************************************************************)
LEMMA AdmittedGetsItsRequest ==
  ASSUME NEW req \in AllTexts, NEW map, caps \in AllTexts, Admitted(req, map),
         NEW f \in Fields
  PROVE  /\ Requested(f, req[f]) \in Settings
         /\ Effective(f, req, caps) = ToRuntime(Requested(f, req[f]))
         /\ Effective(f, req, caps) \in RuntimeLists
         /\ Granted(Effective(f, req, caps)) = Denote(Requested(f, req[f]))
         /\ Granted(Effective(f, req, caps)) \subseteq Denote(Cap(f, caps[f]))
  <1> DEFINE r == Requested(f, req[f])
             c == Cap(f, caps[f])
  <1>1. req[f] \in RawSettings /\ caps[f] \in RawSettings
    BY DEF AllTexts
  <1>2. r \in Settings /\ c \in Settings
    BY <1>1, ParsesToSettings DEF Admitted, Parses
  <1>3. ~Unfulfillable(r, c)
    BY DEF Admitted, EnforceAllCaps
  <1>4. IntersectPermission(r, c) = r
    BY <1>2, <1>3, FulfillableIsUnchanged
  <1>5. Effective(f, req, caps) = ToRuntime(r)
    BY <1>4 DEF Effective
  <1>6. Granted(Effective(f, req, caps)) \subseteq Denote(c)
    BY <1>2, IntersectionIsBounded DEF Effective
  <1>7. QED
    BY <1>2, <1>5, <1>6, EncodingKeepsMeaning

\* Every variable keeps its type: settings change freely, an invocation
\* runs with well-formed grants.
THEOREM TypeCorrect == Spec => []TypeOK
  <1>1. Init => TypeOK
    <2>1. ASSUME Init
          PROVE  TypeOK
      <3>1. [f \in Fields |-> Blank] \in AllTexts
        BY PermissionsAssumption DEF AllTexts, RawSettings
      <3>2. MapOf({}) \in ImportMaps
        BY DEF ImportMaps
      <3>3. QED
        BY <2>1, <3>1, <3>2, PermissionsAssumption DEF Init, TypeOK
    <2>2. QED
      BY <2>1
  <1>2. TypeOK /\ [Next]_vars => TypeOK'
    <2> SUFFICES ASSUME TypeOK, [Next]_vars
                 PROVE  TypeOK'
      OBVIOUS
    <2>1. ASSUME NEW r \in AllTexts, NEW f \in Fields, NEW t \in Texts[f]
          PROVE  [r EXCEPT ![f] = t] \in AllTexts
      BY <2>1, PermissionsAssumption DEF AllTexts
    <2>2. ASSUME NEW k \in Kinds, NEW f \in Fields, SetRequest(k, f)
          PROVE  TypeOK'
      <3>1. PICK t \in Texts[f] : request' = [request EXCEPT ![k][f] = t]
        BY <2>2 DEF SetRequest
      <3>2. request[k] \in AllTexts
        BY DEF TypeOK
      <3>3. request' = [request EXCEPT ![k] = [request[k] EXCEPT ![f] = t]]
        BY <3>1 DEF TypeOK
      <3>4. request' \in [Kinds -> AllTexts]
        BY <2>1, <3>2, <3>3 DEF TypeOK
      <3>5. QED
        BY <2>2, <3>4 DEF SetRequest, TypeOK
    <2>3. ASSUME NEW k \in Kinds, SetImportMap(k)
          PROVE  TypeOK'
      BY <2>3 DEF SetImportMap, TypeOK
    <2>4. ASSUME NEW f \in Fields, SetCap(f)
          PROVE  TypeOK'
      <3>1. PICK t \in Texts[f] : caps' = [caps EXCEPT ![f] = t]
        BY <2>4 DEF SetCap
      <3>2. caps' \in AllTexts
        BY <2>1, <3>1 DEF TypeOK
      <3>3. QED
        BY <2>4, <3>2 DEF SetCap, TypeOK
    <2>5. CASE SetMaxImports
      BY <2>5 DEF SetMaxImports, TypeOK
    <2>6. CASE CreateFunction
      BY <2>6 DEF CreateFunction, TypeOK
    <2>7. ASSUME NEW k \in Kinds, Begin(k)
          PROVE  TypeOK'
      <3>1. request[k] \in AllTexts /\ importMap[k] \in ImportMaps /\ caps \in AllTexts
        BY DEF TypeOK
      <3>2. \A f \in Fields : Effective(f, request[k], caps) \in RuntimeLists
        BY <2>7, <3>1, AdmittedGetsItsRequest DEF Begin
      <3>3. importMap[k].urls \in SUBSET Urls
        BY <3>1 DEF ImportMaps, BadMap, MapOf
      <3>4. running' \in Invocations
        BY <2>7, <3>2, <3>3 DEF Begin, Invocations
      <3>5. QED
        BY <2>7, <3>4 DEF Begin, TypeOK, settings
    <2>8. CASE End
      BY <2>8 DEF End, TypeOK, settings
    <2>9. CASE UNCHANGED vars
      BY <2>9 DEF vars, settings, TypeOK
    <2>10. QED
      BY <2>2, <2>3, <2>4, <2>5, <2>6, <2>7, <2>8, <2>9 DEF Next
  <1>3. QED
    BY <1>1, <1>2, PTL DEF Spec

\* The steps that do not start code leave the running code what it has.
LEMMA OnlyBeginStarts ==
  ASSUME [Next]_vars
  PROVE  \/ \E k \in Kinds : Begin(k)
         \/ UNCHANGED running
         \/ running # Idle /\ running' = Idle
  BY DEF Next, SetRequest, SetImportMap, SetCap, SetMaxImports, CreateFunction,
         End, vars

\* No code starts with an import outside the max_imports of that moment.
THEOREM ImportsCapped == Spec => ImportsWithinCap
  <1>1. TypeOK /\ [Next]_vars =>
          [Starts => \A url \in running'.imports :
             maxImports = Blank \/ maxImports = Star
             \/ \E i \in maxImports.items : url \in Under[i]]_vars
    <2> SUFFICES ASSUME TypeOK, [Next]_vars, Starts, NEW url \in running'.imports
                 PROVE  maxImports = Blank \/ maxImports = Star
                        \/ \E i \in maxImports.items : url \in Under[i]
      OBVIOUS
    <2>1. PICK k \in Kinds : Begin(k)
      BY OnlyBeginStarts DEF Starts
    <2>2. url \in importMap[k].urls
      BY <2>1 DEF Begin
    <2>3. ImportUrlAllowed(url, ParseImportCap(maxImports))
      BY <2>1, <2>2 DEF Begin, Admitted, EnforceImportMapCap
    <2>4. maxImports \in RawSettings
      BY PermissionsAssumption DEF TypeOK
    <2>5. CASE maxImports = Off
      BY <2>3, <2>5
         DEF ImportUrlAllowed, ParseImportCap, ParseRaw, ParseNonempty, Off, Blank, Deny
    <2>6. ASSUME NEW s \in SUBSET Items, maxImports = List(s)
          PROVE  \E i \in maxImports.items : url \in Under[i]
      <3>1. maxImports.form = "list" /\ maxImports.items = s /\ maxImports # Blank
        BY <2>6 DEF List, Blank
      <3>2. \/ ParseImportCap(maxImports) = Invalid
            \/ ParseImportCap(maxImports) = AllowList(s)
        BY <3>1 DEF ParseImportCap, ParseRaw, ParseNonempty, ParseList
      <3>3. QED
        BY <2>3, <3>1, <3>2 DEF ImportUrlAllowed, Invalid, AllowList
    <2>7. QED
      BY <2>4, <2>5, <2>6 DEF RawSettings
  <1>2. QED
    BY <1>1, TypeCorrect, PTL DEF Spec, ImportsWithinCap

\* A field other than the imports grants what its text lists, or everything
\* only if the text says so.
THEOREM AskedFor == Spec => NothingWithoutAsking
  <1>1. TypeOK /\ [Next]_vars =>
          [Starts =>
             LET k == running'.kind
             IN  \A f \in Fields \ {Import} :
                   Granted(running'.grant[f]) \subseteq
                     IF request[k][f] = Star THEN Resources
                     ELSE Covered(request[k][f].items)]_vars
    <2> SUFFICES ASSUME TypeOK, [Next]_vars, Starts, NEW f \in Fields \ {Import}
                 PROVE  Granted(running'.grant[f]) \subseteq
                          IF request[running'.kind][f] = Star THEN Resources
                          ELSE Covered(request[running'.kind][f].items)
      OBVIOUS
    <2>1. PICK k \in Kinds : Begin(k)
      BY OnlyBeginStarts DEF Starts
    <2> DEFINE text == request[k][f]
    <2>2. request[k] \in AllTexts /\ text \in RawSettings /\ caps \in AllTexts
      BY DEF TypeOK, AllTexts
    <2>3. running'.kind = k /\ running'.grant[f] = Effective(f, request[k], caps)
      BY <2>1 DEF Begin
    <2>4. Granted(running'.grant[f]) = Denote(Requested(f, text))
      BY <2>1, <2>2, <2>3, AdmittedGetsItsRequest DEF Begin
    <2>5. CASE text = Star
      <3>1. Requested(f, text) = AllowAll
        BY <2>5 DEF Requested, ParseRaw, ParseNonempty, Star, Blank
      <3>2. Denote(Requested(f, text)) = Resources
        BY <3>1 DEF Denote, AllowAll
      <3>3. QED
        BY <2>3, <2>4, <2>5, <3>2
    <2>6. CASE text = Blank \/ text = Off
      <3>1. Requested(f, text) = Deny
        BY <2>6 DEF Requested, ParseRaw, ParseNonempty, RequestBoot, Off, Blank
      <3>2. Denote(Requested(f, text)) = {}
        BY <3>1 DEF Denote, Deny
      <3>3. text # Star
        BY <2>6 DEF Blank, Off, Star
      <3>4. QED
        BY <2>3, <2>4, <3>2, <3>3
    <2>7. ASSUME NEW s \in SUBSET Items, text = List(s)
          PROVE  /\ text # Star
                 /\ Denote(Requested(f, text)) \subseteq Covered(text.items)
      <3>1. text.form = "list" /\ text.items = s /\ text # Blank /\ text # Star
        BY <2>7 DEF List, Blank, Star
      <3>2. Requested(f, text) = ParseList(f, s)
        BY <3>1 DEF Requested, ParseRaw, ParseNonempty
      <3>3. Denote(Invalid) = {} /\ Denote(AllowList(s)) = Covered(s)
        BY DEF Denote, Invalid, AllowList
      <3>4. QED
        BY <3>1, <3>2, <3>3 DEF ParseList
    <2>8. QED
      BY <2>2, <2>3, <2>4, <2>5, <2>6, <2>7 DEF RawSettings
  <1>2. QED
    BY <1>1, TypeCorrect, PTL DEF Spec, NothingWithoutAsking

-----------------------------------------------------------------------------
(***************************************************************************)
(* Permissions implements AdmissionContract.                               *)
(***************************************************************************)
LEMMA DenotesResources ==
  ASSUME NEW s \in Settings \cup {Invalid}
  PROVE  Denote(s) \in SUBSET Resources
  <1>1. Denote(Invalid) = {}
    BY DEF Denote, Invalid
  <1>2. ASSUME s \in Settings
        PROVE  Denote(s) \subseteq Resources
    BY <1>2, SettingCases, CoveredIsMonotone DEF Denote
  <1>3. QED
    BY <1>1, <1>2

\* The mapping takes well-typed settings to requests and caps.
LEMMA MappingIsTyped ==
  ASSUME NEW r \in [Kinds -> AllTexts], NEW c \in AllTexts
  PROVE  /\ [k \in Kinds |-> [f \in Fields |-> Denote(Requested(f, r[k][f]))]]
               \in [Kinds -> Contract!Demands]
         /\ [f \in Fields |-> Denote(Cap(f, c[f]))] \in Contract!Demands
  <1>1. /\ \A k \in Kinds, f \in Fields : r[k][f] \in RawSettings
        /\ \A f \in Fields : c[f] \in RawSettings
    <2>1. \A k \in Kinds : r[k] \in AllTexts
      OBVIOUS
    <2>2. QED
      BY <2>1 DEF AllTexts
  <1>2. \A f \in Fields, t \in RawSettings :
          /\ Denote(Requested(f, t)) \in SUBSET Resources
          /\ Denote(Cap(f, t)) \in SUBSET Resources
    BY ParsesToSettings, DenotesResources
  <1>3. [f \in Fields |-> Denote(Cap(f, c[f]))] \in Contract!Demands
    BY <1>1, <1>2 DEF Contract!Demands
  <1>4. ASSUME NEW k \in Kinds
        PROVE  [f \in Fields |-> Denote(Requested(f, r[k][f]))] \in Contract!Demands
    BY <1>1, <1>2 DEF Contract!Demands
  <1>5. QED
    BY <1>3, <1>4

\* Starting code is Start, for the code whose settings were read.
LEMMA BeginRefines ==
  ASSUME TypeOK, NEW k \in Kinds, Begin(k)
  PROVE  Contract!Start
  <1>1. request[k] \in AllTexts /\ caps \in AllTexts
    BY DEF TypeOK
  <1>2. \A f \in Fields :
          /\ Granted(Effective(f, request[k], caps)) = Want[k][f]
          /\ Want[k][f] \subseteq CapSet[f]
    BY <1>1, AdmittedGetsItsRequest DEF Begin, Want, CapSet
  <1>3. /\ running'.kind = k
        /\ \A f \in Fields : running'.grant[f] = Effective(f, request[k], caps)
        /\ running' \in Invocations
    <2>1. \A f \in Fields : Effective(f, request[k], caps) \in RuntimeLists
      BY <1>1, AdmittedGetsItsRequest DEF Begin
    <2>2. importMap[k].urls \in SUBSET Urls
      BY DEF TypeOK, ImportMaps, BadMap, MapOf
    <2>3. QED
      BY <2>1, <2>2 DEF Begin, Invocations
  <1>4. running' # Idle
    BY <1>3, PermissionsAssumption DEF Invocations
  <1>5. May' = [kind |-> k, reach |-> [f \in Fields |-> Granted(running'.grant[f])]]
    BY <1>3, <1>4 DEF May
  <1>6. [f \in Fields |-> Granted(running'.grant[f])] = Want[k]
    BY <1>2, <1>3 DEF Want
  <1>7. May = Idle
    BY DEF Begin, May
  <1>8. UNCHANGED <<Want, CapSet>>
    BY DEF Begin, settings, Want, CapSet
  <1>9. QED
    BY <1>2, <1>5, <1>6, <1>7, <1>8 DEF Contract!Start

\* Setting texts, allow lists and their encoding implement the contract on
\* sets of resources.
THEOREM Implements == Spec => ImplementsAdmission
  <1>1. Init /\ TypeOK => Contract!ContractInit
    <2> SUFFICES ASSUME Init, TypeOK
                 PROVE  Contract!ContractInit
      OBVIOUS
    <2>1. Want \in [Kinds -> Contract!Demands] /\ CapSet \in Contract!Demands
      BY MappingIsTyped DEF TypeOK, Want, CapSet
    <2>2. May = Idle
      BY DEF Init, May
    <2>3. QED
      BY <2>1, <2>2 DEF Contract!ContractInit
  <1>2. TypeOK /\ TypeOK' /\ [Next]_vars
          => [Contract!Change \/ Contract!Start \/ Contract!Stop]_(Contract!contractVars)
    <2> SUFFICES ASSUME TypeOK, TypeOK', [Next]_vars
                 PROVE  \/ Contract!Change \/ Contract!Start \/ Contract!Stop
                        \/ UNCHANGED Contract!contractVars
      OBVIOUS
    <2>1. ASSUME NEW k \in Kinds, Begin(k)
          PROVE  Contract!Start
      BY <2>1, BeginRefines
    <2>2. CASE End
      <3>1. UNCHANGED <<Want, CapSet>> /\ May' = Idle
        BY <2>2 DEF End, settings, Want, CapSet, May
      <3>2. May # Idle
        <4>1. running \in Invocations
          BY <2>2 DEF End, TypeOK
        <4>2. \A f \in Fields : Granted(running.grant[f]) \in SUBSET Resources
          BY <4>1, CoveredIsMonotone
             DEF Invocations, RuntimeLists, None, Some, Granted
        <4>3. running.kind \in Kinds
          BY <4>1 DEF Invocations
        <4>4. May = [kind |-> running.kind,
                     reach |-> [f \in Fields |-> Granted(running.grant[f])]]
          BY <2>2 DEF End, May
        <4>5. May \in [kind: Kinds, reach: [Fields -> SUBSET Resources]]
          BY <4>2, <4>3, <4>4
        <4>6. QED
          BY <4>5, PermissionsAssumption
      <3>3. QED
        BY <3>1, <3>2 DEF Contract!Stop
    <2>3. CASE UNCHANGED running
      <3>1. UNCHANGED May
        BY <2>3 DEF May
      <3>2. Want' \in [Kinds -> Contract!Demands] /\ CapSet' \in Contract!Demands
        BY MappingIsTyped DEF TypeOK, Want, CapSet
      <3>3. QED
        BY <3>1, <3>2 DEF Contract!Change
    <2>4. QED
      BY <2>1, <2>2, <2>3
         DEF Next, SetRequest, SetImportMap, SetCap, SetMaxImports,
             CreateFunction, vars
  <1>3. QED
    BY <1>1, <1>2, TypeCorrect, PTL DEF Spec, ImplementsAdmission, Contract!ContractSpec

=============================================================================
