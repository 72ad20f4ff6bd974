------------------------------- MODULE Values -------------------------------
(***************************************************************************)
(* What becomes of a value on its way through JavaScript and back.         *)
(*                                                                         *)
(* A value gets to JavaScript as an argument (convert.rs) or in a row of   *)
(* _pg.execute (pg.rs), and back as a return value or as a parameter of    *)
(* _pg.execute, whose type is inferred or given.  Each of the four ways    *)
(* has rules of its own, PostgreSQL's types are wider than JavaScript's,   *)
(* and JavaScript computes numbers that no SQL type has.                   *)
(*                                                                         *)
(* A finite number is the integer of its halves, so that odd ones have a   *)
(* fraction.  Integer types have Wn bits, floating-point types Pn          *)
(* significant bits and an exponent up to En.  Values are tagged tuples;   *)
(* an object whose only keys are type and value has a tag of its own.      *)
(***************************************************************************)
EXTENDS Integers, FiniteSets

CONSTANTS
  W2, W4, W8,   (* bits of int2, int4, int8                                 *)
  P4, P8,       (* significant bits of float4, float8 and number            *)
  E4, E8,       (* their largest exponents                                  *)
  Texts,        (* strings                                                  *)
  JsonText,     (* the document that a string is the text of, or Nothing    *)
  Nothing       (* no value                                                 *)

ASSUME ValuesAssumption ==
  /\ {W2, W4, W8, P4, P8, E4, E8} \subseteq Nat \ {0}
  /\ W2 < W4 /\ W4 <= P8 /\ P8 < W8 - 1 /\ P4 < P8 /\ E4 < E8 /\ W8 < E8

Pow2[n \in Nat] == IF n = 0 THEN 1 ELSE 2 * Pow2[n - 1]

Whole(n) == n % 2 = 0
Signed(n, bits)   == Whole(n) /\ -Pow2[bits] <= n /\ n < Pow2[bits]
Unsigned(n, bits) == Whole(n) /\ 0 <= n /\ n < Pow2[bits + 1]
Exact(n) == Signed(n, W8) \/ Unsigned(n, W8)   (* fits i64 or u64 *)

Grid(p, e) == {s * m * Pow2[k] : s \in {-1, 1}, m \in 0..(Pow2[p] - 1), k \in 0..e}
Floats  == Grid(P4, E4)
Doubles == Grid(P8, E8)

Null == <<"null">>
Undefined == <<"undefined">>
Fail == <<"error">>
NotFinite == {<<"nan">>, <<"inf", 1>>, <<"inf", -1>>}

Num(n) == <<"num", n>>
NumsOf(S) == {Num(n) : n \in S}

\* `as f32`, `as f64`: the nearest, and infinity beyond the largest.
Distance(x, y) == IF x < y THEN y - x ELSE x - y
Rounded(n, grid) ==
  IF \A x \in grid : x < n THEN <<"inf", 1>>
  ELSE IF \A x \in grid : n < x THEN <<"inf", -1>>
  ELSE Num(CHOOSE x \in grid : \A y \in grid : Distance(x, n) <= Distance(y, n))

\* `as i64` of a whole number.
Clamped(n) ==
  IF n > Pow2[W8] - 2 THEN Pow2[W8] - 2 ELSE IF n < -Pow2[W8] THEN -Pow2[W8] ELSE n

(***************************************************************************)
(* Types and their values.  A row has one field.                           *)
(***************************************************************************)
Width(kind) == CASE kind = "int2" -> W2 [] kind = "int4" -> W4 [] kind = "int8" -> W8

IntKinds   == {"int2", "int4", "int8"}
FloatKinds == {"float4", "float8"}
Kinds      == IntKinds \cup FloatKinds \cup {"bool", "text", "json", "other"}
Types      == {<<k>> : k \in Kinds} \cup {<<"row", k>> : k \in {"int8", "float8"}}

Ints(kind) == {n \in -Pow2[W8]..Pow2[W8] : Signed(n, Width(kind))}
TextValues == {<<"text", t>> : t \in Texts}
Bools      == {<<"bool", b>> : b \in BOOLEAN}

\* What the string under "type" names, or Nothing if it is no type or no
\* string.  json stands for jsonb and for domains over it as well.
TypeNames == {<<k>> : k \in Kinds} \cup {Nothing}

\* Objects and arrays of one leaf, and objects {type, value}.
Tags == {"obj", "arr", "param"}
Structures(leaves) ==
  leaves \cup {<<k, x>> : k \in {"obj", "arr"}, x \in leaves}
         \cup {<<"param", x, t>> : x \in leaves, t \in TypeNames}

With(struct, leaf) == [struct EXCEPT ![2] = leaf]

\* jsonb has more numbers than float8.
JsonNumbers == NumsOf(Doubles \cup -(Pow2[W8 + 1] + 2)..(Pow2[W8 + 1] + 2))
JsonLeaves  == {Null} \cup JsonNumbers \cup Bools \cup TextValues
JsonDocs    == Structures(JsonLeaves)

ASSUME JsonTextAssumption == JsonText \in [Texts -> JsonDocs \cup {Nothing}]

ScalarValues(kind) ==
  {Null} \cup
  CASE kind \in IntKinds   -> NumsOf(Ints(kind))
    [] kind \in FloatKinds -> NotFinite \cup NumsOf(IF kind = "float4" THEN Floats ELSE Doubles)
    [] kind = "bool"  -> Bools
    [] kind = "text"  -> TextValues
    [] kind = "json"  -> {<<"json", d>> : d \in JsonDocs}
    [] kind = "other" -> {<<"other", t>> : t \in Texts}

ValuesOf(type) ==
  IF type[1] = "row" THEN {Null} \cup {<<"row", x>> : x \in ScalarValues(type[2])}
  ELSE ScalarValues(type[1])

\* Values that JavaScript code makes itself.
Bigs      == {<<"big", 2 * i>> : i \in -Pow2[W8]..Pow2[W8]}
JsNumbers == NotFinite \cup NumsOf(Doubles) \cup Bigs
JsLeaves  == {Null, Undefined} \cup JsNumbers \cup Bools \cup TextValues
JsValues  == Structures(JsLeaves)

(***************************************************************************)
(* To JavaScript.  serde_v8 makes a bigint of an i64 or u64 that is not a  *)
(* safe integer.                                                           *)
(***************************************************************************)
\* Mutant: every int8 is a number.
NumberOfInt(n) == Rounded(n, Doubles)

IntToJs(n) == IF n \in -(Pow2[P8 + 1] - 1)..(Pow2[P8 + 1] - 1) THEN Num(n) ELSE <<"big", n>>

JsonLeafToJs(doc) ==
  IF doc[1] # "num" THEN doc
  ELSE IF Exact(doc[2]) THEN IntToJs(doc[2]) ELSE Rounded(doc[2], Doubles)

JsonToJs(doc) ==
  IF doc[1] \in Tags THEN With(doc, JsonLeafToJs(doc[2])) ELSE JsonLeafToJs(doc)

\* <<"out", v>> is what v's output function makes of it, a string.
ScalarToJs(kind, v) ==
  IF v = Null THEN Null
  ELSE CASE kind = "json"  -> JsonToJs(v[2])
         [] kind = "other" -> <<"out", v>>
         [] kind = "int8"  -> IntToJs(v[2])
         [] OTHER          -> v

\* PgDatum::serialize
ArgumentToJs(type, v) ==
  IF type[1] = "row" /\ v # Null THEN <<"obj", ScalarToJs(type[2], v[2])>>
  ELSE ScalarToJs(type[1], v)

\* OwnedPgValue::from_datum: a row is not taken apart.
ColumnToJs(type, v) ==
  IF type[1] = "row" /\ v # Null THEN <<"out", v>> ELSE ScalarToJs(type[1], v)

(***************************************************************************)
(* Return values.  An operator gives the set of possible results, where    *)
(* that is up to PostgreSQL's input functions or to serde_v8, and Fail     *)
(* among them or alone if the statement fails.                             *)
(***************************************************************************)
\* Some value of another type, if its input function takes the text.
Parsed == {Fail} \cup {<<"other", t>> : t \in Texts}

\* Mutants: no check; `as i16` and so on.
IntegerUnchecked(kind, n) == IF Whole(n) THEN Num(n) ELSE Fail

IntegerWrapped(kind, n) ==
  IF Whole(n) THEN Num(((n + Pow2[Width(kind)]) % Pow2[Width(kind) + 1]) - Pow2[Width(kind)]) ELSE Fail

\* i16::try_from and so on
Integer(kind, n) == IF Signed(n, Width(kind)) THEN Num(n) ELSE Fail

\* visit_i64, visit_u64, visit_f64
VisitNumber(kind, n) ==
  CASE kind \in IntKinds -> {Integer(kind, n)}
    [] kind = "float4"   -> {Rounded(n, Floats)}
    [] kind = "float8"   -> {Rounded(n, Doubles)}
    [] kind = "json"     -> {<<"json", Num(n)>>}
    [] kind = "other"    -> Parsed
    [] OTHER             -> {Fail}

VisitNotFinite(kind, x) ==
  CASE kind \in FloatKinds -> {x}
    [] kind = "json"       -> {<<"json", Null>>}
    [] kind = "other"      -> Parsed
    [] OTHER               -> {Fail}

\* serde_json::Value::deserialize, for what is inside an object or array.
ToValue(js) ==
  CASE js \in NotFinite \cup {Undefined} -> {Null}
    [] js[1] = "big" -> {Fail} \cup {Num(n) : n \in {m \in {js[2]} : Exact(m)}}
    [] OTHER         -> {js}

JsonOf(js, leaves) == {IF x = Fail THEN Fail ELSE <<"json", With(js, x)>> : x \in leaves}

Visit(kind, js) ==
  CASE js \in {Null, Undefined} -> {Null}
    [] js \in NotFinite  -> VisitNotFinite(kind, js)
    [] js[1] = "num"     -> VisitNumber(kind, js[2])
    [] js[1] = "big"     -> {Fail} \cup IF Exact(js[2]) THEN VisitNumber(kind, js[2]) ELSE {}
    [] js[1] = "out"     -> IF kind = "other" THEN {js[2]} ELSE {Fail}
    [] js[1] \in Tags /\ kind = "json" -> JsonOf(js, ToValue(js[2]))
    [] js[1] \in {"bool", "text"} /\ kind = "json" -> {<<"json", js>>}
    [] js[1] = kind      -> {js}
    [] OTHER             -> IF kind = "other" THEN Parsed ELSE {Fail}

\* build_heap_tuple: a missing field reads as undefined, and is NULL.
BuildRow(kind, field) ==
  UNION {IF x = Fail THEN {Fail}
         ELSE {IF v = Fail THEN Fail ELSE <<"row", v>> : v \in Visit(kind, x)} :
           x \in ToValue(field)}

\* A string goes through the input function, but for RETURNS RECORD.
Returned(type, js) ==
  IF type[1] # "row" THEN Visit(type[1], js)
  ELSE CASE js \in {Null, Undefined} -> {Null}
         [] js[1] = "obj"  -> BuildRow(type[2], js[2])
         [] js[1] = "param" -> BuildRow(type[2], js[2]) \cup BuildRow(type[2], Undefined)
         [] js[1] = "out"  -> {Fail, js[2]}
         [] js[1] = "text" -> {Fail} \cup (ValuesOf(type) \ {Null})
         [] OTHER          -> {Fail}

(***************************************************************************)
(* Parameters of _pg.execute.                                              *)
(***************************************************************************)
\* Mutant: no bounds.
ToJsonInteger(js) ==
  CASE js \in NotFinite \cup {Undefined} -> Fail
    [] js[1] = "big" -> Fail
    [] js[1] = "num" -> IF Whole(js[2]) THEN Num(Clamped(js[2])) ELSE js
    [] OTHER         -> js

\* InputValue::to_json_value, after encodeValue of pg_hook.js.  The bound
\* i64::MAX as f64 is one more than i64::MAX.
ToJsonValue(js) ==
  CASE js \in NotFinite \cup {Undefined} -> Fail
    [] js[1] = "big" -> Fail
    [] js[1] = "num" -> IF Whole(js[2]) /\ js[2] \in -Pow2[W8]..Pow2[W8]
                        THEN Num(Clamped(js[2])) ELSE js
    [] OTHER         -> js

\* Mutant: `as i32` for every whole number.
InferredInt4(n) ==
  IF ~Whole(n) THEN <<"float8", Num(n)>>
  ELSE <<"int4", Num(IF n >= Pow2[W4] THEN Pow2[W4] - 2 ELSE IF n < -Pow2[W4] THEN -(Pow2[W4]) ELSE n)>>

\* inferred_number_into_spi_param
InferredNumber(n) ==
  CASE Signed(n, W4) -> <<"int4", Num(n)>>
    [] Whole(n) /\ ~Signed(n, W4) -> <<"int8", Num(Clamped(n))>>
    [] OTHER -> <<"float8", Num(n)>>

\* into_inferred_spi_param: the type and the value.
Inferred(js) ==
  CASE js = Null         -> <<"unknown", Null>>
    [] js \in NotFinite -> <<"float8", js>>
    [] js[1] = "num"     -> InferredNumber(js[2])
    [] js[1] = "big" /\ Signed(js[2], W8) -> <<"int8", Num(js[2])>>
    [] js[1] = "bool"    -> <<"bool", js>>
    [] js[1] \in {"text", "out"} -> <<"text", js>>
    [] js[1] \in {"obj", "arr"} /\ ToJsonValue(js[2]) # Fail ->
         <<"json", <<"json", With(js, ToJsonValue(js[2]))>>>>
    [] OTHER             -> <<"error", Fail>>

\* PostgreSQL, assigning a parameter to a column: float overflow is an error.
FloatOrFail(n, grid) == LET x == Rounded(n, grid) IN IF x \in NotFinite THEN Fail ELSE x

IntOf(kind, v) == IF Signed(v[2], Width(kind)) THEN v ELSE Fail

FloatOf(kind, v) ==
  IF v \in NotFinite THEN v ELSE FloatOrFail(v[2], IF kind = "float4" THEN Floats ELSE Doubles)

\* The integers next to a number.
Neighbours(kind, v) ==
  IF v \in NotFinite THEN {} ELSE NumsOf({n \in Ints(kind) : Distance(n, v[2]) <= 1})

Castable(from, kind) ==
  \/ from = kind \/ {from, kind} \subseteq IntKinds \cup FloatKinds
  \/ from = "other" /\ kind \notin {"json", "bool", "row"}
  \/ from = "unknown" \/ kind \in {"text", "other"}

Cast(from, type, v) ==
  LET kind == type[1] IN
  CASE "other" \in {from, kind} -> {Fail} \cup (ValuesOf(type) \ {Null})
    [] from = kind /\ kind \in {"json", "bool", "text"} -> {v}
    [] kind = "text" /\ from \notin {"text", "other"} -> TextValues
    [] {from, kind} \subseteq IntKinds -> {IntOf(kind, v)}
    [] from # "other" /\ kind \in FloatKinds -> {FloatOf(kind, v)}
    [] from \in FloatKinds /\ kind \in IntKinds -> {Fail} \cup Neighbours(kind, v)
    [] OTHER -> {Fail}

Assigned(from, type, v) ==
  IF v = Fail \/ ~Castable(from, type[1]) THEN {Fail}
  ELSE CASE v = Null -> IF "other" \in {from, type[1]} THEN {Fail, Null} ELSE {Null}
         [] v[1] = "out" -> {Fail, v[2]}
         [] OTHER -> Cast(from, type, v)

\* jsonb_in
Document(text) == IF JsonText[text] = Nothing THEN Fail ELSE <<"json", JsonText[text]>>

\* input_fn_call, on the text of a number, a boolean or a string.
InputText(type, js) ==
  LET kind  == type[1]
      number == js[1] \in {"num", "big"}
      Guess == {Fail} \cup (ValuesOf(type) \ {Null})
  IN
  CASE kind = "row"   -> IF js[1] = "text" THEN Guess ELSE {Fail}
    [] kind = "other" -> Parsed
    [] kind = "text"  -> IF js[1] = "text" THEN {js} ELSE TextValues
    [] kind = "bool"  -> IF js[1] = "bool" THEN {js} ELSE {Fail} \cup Bools
    [] kind = "json"  ->
         IF number THEN {<<"json", Num(js[2])>>}
         ELSE IF js[1] = "bool" THEN {<<"json", js>>}
         ELSE IF js[1] = "text" THEN {Document(js[2])} ELSE {Fail}
    [] kind \in IntKinds ->
         IF number THEN {IF Signed(js[2], Width(kind)) THEN Num(js[2]) ELSE Fail}
         ELSE IF js[1] = "text" THEN Guess ELSE {Fail}
    [] kind \in FloatKinds ->
         IF number THEN {FloatOrFail(js[2], IF kind = "float4" THEN Floats ELSE Doubles)}
         ELSE IF js[1] = "text" THEN Guess
         ELSE IF js \in NotFinite THEN {js} ELSE {Fail}

\* into_typed_spi_param
Typed(type, js) ==
  CASE js = Undefined -> {Fail}
    [] js = Null      -> {Null}
    [] js[1] \in Tags ->
         IF type[1] = "json" THEN JsonOf(js, {ToJsonValue(js[2])}) ELSE {Fail}
    [] js[1] = "out"  -> {js[2]}
    [] OTHER          -> InputText(type, js)

\* encodeParam: the type and the value of a parameter as it comes.
EncodeParam(js) ==
  IF js[1] # "param" THEN {Inferred(js)}
  ELSE IF js[3] = Nothing THEN {<<"error", Fail>>}
  ELSE {<<js[3][1], v>> : v \in Typed(js[3], js[2])}

Bound(type, js) == UNION {Assigned(p[1], type, p[2]) : p \in EncodeParam(js)}

(***************************************************************************)
(* A column of some type, and the JavaScript code that reads and writes it *)
(* over and over.                                                          *)
(***************************************************************************)
VARIABLES
  column,    (* its type                                                    *)
  original,  (* what was stored there first                                 *)
  stored,    (* what is stored there                                        *)
  held       (* what JavaScript holds, or Nothing                           *)

vars == <<column, original, stored, held>>

Init ==
  /\ column \in Types
  /\ original \in ValuesOf(column)
  /\ stored = original
  /\ held = Nothing

PassArgument ==
  /\ held = Nothing
  /\ held' = ArgumentToJs(column, stored)
  /\ UNCHANGED <<column, original, stored>>

FetchRow ==
  /\ held = Nothing
  /\ held' = ColumnToJs(column, stored)
  /\ UNCHANGED <<column, original, stored>>

\* JavaScript makes a value of its own, for a column that is still NULL.
Compute ==
  /\ held = Nothing /\ stored = Null
  /\ original' = Nothing
  /\ held' \in JsValues
  /\ UNCHANGED <<column, stored>>

\* The code writes back what it holds; a failed statement stores nothing.
Store(results) ==
  /\ held # Nothing
  /\ \E v \in results : stored' = IF v = Fail THEN stored ELSE v
  /\ held' = Nothing
  /\ UNCHANGED <<column, original>>

ReturnIt     == Store(Returned(column, held))
BindInferred == Store(Bound(column, held))
BindTyped    == Store(Typed(column, held))

Next == PassArgument \/ FetchRow \/ Compute \/ ReturnIt \/ BindInferred \/ BindTyped

Spec == Init /\ [][Next]_vars

-----------------------------------------------------------------------------
\* Types of the variables: a column has values of its type.
TypeOK ==
  /\ column \in Types
  /\ original \in {Nothing} \cup ValuesOf(column)
  /\ stored \in ValuesOf(column)
  /\ held = Nothing \/ held \in JsValues \/ held[1] = "out"

\* A whole number beyond int8 in a float column: inferred as int8.
Saturated(type, v, w) ==
  /\ type[1] \in FloatKinds /\ v[1] = "num" /\ Whole(v[2]) /\ ~Signed(v[2], W8)
  /\ w = Rounded(Clamped(v[2]), IF type[1] = "float4" THEN Floats ELSE Doubles)

\* jsonb: a number that is no i64, u64 or float8, or becomes 2^63 inside an
\* object or array; null.
RoundedLeaves(doc) ==
  IF doc[1] # "num" \/ Exact(doc[2]) THEN {doc}
  ELSE LET x == Rounded(doc[2], Doubles) IN {x, ToJsonValue(x)}

RoundedDocs(doc) ==
  IF doc[1] \in Tags THEN {With(doc, x) : x \in RoundedLeaves(doc[2])} ELSE RoundedLeaves(doc)

Kept(doc, w) ==
  \/ \E x \in {doc} \cup RoundedDocs(doc) : w = <<"json", x>>
  \/ doc = Null /\ w = Null

\* A document {type, value} that names jsonb, and is taken for its value.
IsParam(doc) == doc[1] = "param" /\ doc[3] = <<"json">>
Unpacked(doc, w) == IsParam(doc) /\ Kept(doc[2], w)

\* A string that is given the type jsonb, by the caller or by a document, and
\* read as the text of another document, which may be a string again.
StringsIn(doc) ==
  {t \in Texts : doc = <<"text", t>> \/ (IsParam(doc) /\ doc[2] = <<"text", t>>)}

Closed(S) == \A t \in S : JsonText[t] # Nothing => StringsIn(JsonText[t]) \subseteq S
Reach(t)  == {u \in Texts : \A S \in SUBSET Texts : t \in S /\ Closed(S) => u \in S}

ParsedTo(doc, w) ==
  \E t \in StringsIn(doc) : \E u \in Reach(t) :
    JsonText[u] # Nothing /\ (Kept(JsonText[u], w) \/ Unpacked(JsonText[u], w))

JsonLost(type, v, w) ==
  /\ type = <<"json">> /\ v # Null
  /\ Kept(v[2], w) \/ Unpacked(v[2], w) \/ ParsedTo(v[2], w)

\* NaN and infinity in a row that was an argument.
FieldLost(type, v, w) ==
  /\ type = <<"row", "float8">> /\ v # Null
  /\ v[2] \in NotFinite /\ w = <<"row", Null>>

Loses(type, v, w) == Saturated(type, v, w) \/ JsonLost(type, v, w) \/ FieldLost(type, v, w)

\* What is written back is what was read, however often and whichever way,
\* but for the losses named here.
OnlyKnownLosses == original \in {Nothing, stored} \/ Loses(column, original, stored)

Same(v, js) == v[1] = "num" /\ v[2] = js[2]

\* A number is returned as an integer or as jsonb exactly, or not at all.
ReturnsAreExact ==
  [][ReturnIt /\ stored' # stored /\ held[1] \in {"num", "big"} =>
       CASE column[1] \in IntKinds -> Same(stored', held)
         [] column[1] = "json"     -> Same(stored'[2], held)
         [] OTHER                -> TRUE]_vars

\* A number is a parameter of an integer column exactly, or not at all, but
\* for int8, where a whole number too large is the largest there is, and a
\* fraction, which PostgreSQL rounds to a neighbour.
ParametersAreExact ==
  [][(BindInferred \/ BindTyped) /\ stored' # stored
     /\ held[1] \in {"num", "big"} /\ column[1] \in IntKinds =>
         \/ Same(stored', held)
         \/ ~Whole(held[2]) /\ Distance(stored'[2], held[2]) = 1
         \/ column = <<"int8">> /\ held[1] = "num" /\ stored' = Num(Clamped(held[2]))]_vars

\* Nor is one inside an object or array, but for 2^63, which becomes the
\* largest int8.
JsonParametersAreExact ==
  [][(BindInferred \/ BindTyped) /\ stored' # stored
     /\ column = <<"json">> /\ held[1] \in {"obj", "arr"} /\ held[2][1] \in {"num", "big"} =>
         \/ Same(stored'[2][2], held[2])
         \/ held[2] = Num(Pow2[W8])]_vars

=============================================================================
