---------------------------- MODULE ValuesProofs ----------------------------
(***************************************************************************)
(* Proofs about Values, for all widths and texts.                          *)
(*                                                                         *)
(* What JavaScript holds is what it has just read from the column, or what *)
(* it has made itself for a column that is NULL.  Hence the losses are     *)
(* those of one round trip, to JavaScript and back, and of the same round  *)
(* trip again: what a round trip has changed once it does not change       *)
(* further.                                                                *)
(***************************************************************************)
EXTENDS NumbersProofs

\* What JavaScript reads where w is stored, and what it may write.
Reads(type, w) == {ArgumentToJs(type, w), ColumnToJs(type, w)}

Writes(type, js) == Returned(type, js) \cup Bound(type, js) \cup Typed(type, js)

\* The same, were no object {type, value} taken for a typed parameter.
PlainWrites(type, js) ==
  Returned(type, js) \cup Assigned(Inferred(js)[1], type, Inferred(js)[2]) \cup Typed(type, js)

-----------------------------------------------------------------------------
\* The values of the types.
LEMMA WidthType ==
  ASSUME NEW kind \in IntKinds
  PROVE  /\ Pow2[Width(kind)] \in Nat /\ Pow2[Width(kind)] <= Pow2[W8]
         /\ Pow2[Width(kind)] <= Pow2[P8] \/ kind = "int8"
  BY Widths DEF Width, IntKinds

\* The members of an integer type are the numbers it has the bits for.
LEMMA IntsType ==
  ASSUME NEW kind \in IntKinds, NEW n \in Int
  PROVE  Signed(n, Width(kind)) <=> n \in Ints(kind)
  BY WidthType, Widths DEF Ints, Signed

\* Numbers are integers of halves, and rounding them gives floats.
LEMMA NumbersType ==
  /\ Floats \in SUBSET Int /\ Doubles \in SUBSET Int
  /\ \A n \in Int : /\ Rounded(n, Floats) \in NotFinite \cup NumsOf(Floats)
                    /\ Rounded(n, Doubles) \in NotFinite \cup NumsOf(Doubles)
  /\ NumsOf(Floats) \subseteq NumsOf(Doubles) /\ NumsOf(Doubles) \subseteq JsonNumbers
  <1>1. Floats \in SUBSET Int /\ Doubles \in SUBSET Int
    BY GridTypes
  <1>2. \A n \in Int :
          /\ Rounded(n, Floats) \in {<<"inf", 1>>, <<"inf", -1>>} \cup NumsOf(Floats)
          /\ Rounded(n, Doubles) \in {<<"inf", 1>>, <<"inf", -1>>} \cup NumsOf(Doubles)
    BY <1>1, RoundedType
  <1>3. QED
    BY <1>1, <1>2, FloatsAreDoubles DEF NotFinite, NumsOf, JsonNumbers

\* The scalar values, kind by kind.
LEMMA ScalarCases ==
  ASSUME NEW kind \in Kinds
  PROVE  /\ Null \in ScalarValues(kind)
         /\ kind \in IntKinds => ScalarValues(kind) = {Null} \cup NumsOf(Ints(kind))
         /\ kind = "float4" => ScalarValues(kind) = {Null} \cup NotFinite \cup NumsOf(Floats)
         /\ kind = "float8" => ScalarValues(kind) = {Null} \cup NotFinite \cup NumsOf(Doubles)
         /\ kind = "bool"  => ScalarValues(kind) = {Null} \cup Bools
         /\ kind = "text"  => ScalarValues(kind) = {Null} \cup TextValues
         /\ kind = "json"  => ScalarValues(kind) = {Null} \cup {<<"json", d>> : d \in JsonDocs}
         /\ kind = "other" => ScalarValues(kind) = {Null} \cup {<<"other", t>> : t \in Texts}
  <1>1. Null \in ScalarValues(kind)
    BY DEF ScalarValues
  <1>2. CASE kind \in IntKinds
    BY <1>1, <1>2 DEF ScalarValues, IntKinds, FloatKinds
  <1>3. CASE kind = "float4"
    BY <1>1, <1>3 DEF ScalarValues, IntKinds, FloatKinds
  <1>4. CASE kind = "float8"
    BY <1>1, <1>4 DEF ScalarValues, IntKinds, FloatKinds
  <1>5. CASE kind \in {"bool", "text", "json", "other"}
    BY <1>1, <1>5 DEF ScalarValues, IntKinds, FloatKinds
  <1>6. QED
    BY <1>2, <1>3, <1>4, <1>5 DEF Kinds, IntKinds, FloatKinds

\* The types: a kind, or a row of a kind.
LEMMA TypeCases ==
  ASSUME NEW type \in Types
  PROVE  \/ \E kind \in Kinds : /\ type = <<kind>> /\ type[1] = kind /\ kind # "row"
                                /\ ValuesOf(type) = ScalarValues(kind)
         \/ \E kind \in {"int8", "float8"} :
              /\ type = <<"row", kind>> /\ type[1] = "row" /\ type[2] = kind /\ kind \in Kinds
              /\ ValuesOf(type) = {Null} \cup {<<"row", x>> : x \in ScalarValues(kind)}
  <1>1. CASE \E kind \in Kinds : type = <<kind>>
    BY <1>1 DEF ValuesOf, Kinds, IntKinds, FloatKinds
  <1>2. CASE \E kind \in {"int8", "float8"} : type = <<"row", kind>>
    BY <1>2 DEF ValuesOf, Kinds, IntKinds, FloatKinds
  <1>3. QED
    BY <1>1, <1>2 DEF Types

\* What JavaScript may hold.
LEMMA LeafCases ==
  ASSUME NEW js \in JsLeaves
  PROVE  \/ js \in {Null, Undefined} \cup NotFinite
         \/ \E n \in Doubles : js = Num(n)
         \/ \E i \in -Pow2[W8]..Pow2[W8] : js = <<"big", 2 * i>>
         \/ js \in Bools \cup TextValues
  BY DEF JsLeaves, JsNumbers, NumsOf, Bigs

\* The tags of leaves are none of an object's or array's.
LEMMA LeafTags ==
  ASSUME NEW x \in JsLeaves \cup JsonLeaves \cup {Fail}
  PROVE  x[1] \notin Tags
  BY DEF JsLeaves, JsonLeaves, JsNumbers, JsonNumbers, NumsOf, Bigs, Num, Null, Undefined, Fail,
         NotFinite, Bools, TextValues, Tags

\* Objects and arrays: a leaf, and what stays when it is replaced.
LEMMA StructureCases ==
  ASSUME NEW leaves, NEW js \in Structures(leaves)
  PROVE  \/ js \in leaves
         \/ /\ js[1] \in Tags /\ js[2] \in leaves
            /\ js \notin NotFinite \cup {Null, Undefined, Fail} \cup Bools \cup TextValues
            /\ js[1] = "param" => js[3] \in TypeNames
            /\ With(js, js[2]) = js
            /\ \A y : /\ With(js, y)[1] = js[1] /\ With(js, y)[2] = y
                      /\ js[1] = "param" => With(js, y)[3] = js[3]
                      /\ \A z : With(With(js, y), z) = With(js, z)
            /\ \A M : \A y \in M : With(js, y) \in Structures(M)
  <1> USE DEF NotFinite, Null, Undefined, Fail, Bools, TextValues
  <1>1. CASE js \in leaves
    BY <1>1
  <1>2. ASSUME NEW k \in {"obj", "arr"}, NEW x \in leaves, js = <<k, x>>
        PROVE  /\ js[1] \in Tags /\ js[2] \in leaves /\ js[1] # "param"
               /\ js \notin NotFinite \cup {Null, Undefined, Fail} \cup Bools \cup TextValues
               /\ \A y : With(js, y) = <<k, y>>
    BY <1>2 DEF Tags, With
  <1>3. ASSUME NEW t \in TypeNames, NEW x \in leaves, js = <<"param", x, t>>
        PROVE  /\ js[1] \in Tags /\ js[2] \in leaves /\ js[3] = t
               /\ js \notin NotFinite \cup {Null, Undefined, Fail} \cup Bools \cup TextValues
               /\ \A y : With(js, y) = <<"param", y, t>>
    BY <1>3 DEF Tags, With
  <1>4. ASSUME NEW k \in {"obj", "arr"}, NEW x \in leaves, js = <<k, x>>
        PROVE  /\ With(js, js[2]) = js
               /\ \A y : /\ With(js, y)[1] = js[1] /\ With(js, y)[2] = y
                         /\ \A z : With(With(js, y), z) = With(js, z)
               /\ \A M : \A y \in M : With(js, y) \in Structures(M)
    <2>1. \A y, z : With(<<k, y>>, z) = <<k, z>>
      BY DEF With
    <2>2. QED
      BY <1>2, <1>4, <2>1 DEF Structures
  <1>5. ASSUME NEW t \in TypeNames, NEW x \in leaves, js = <<"param", x, t>>
        PROVE  /\ With(js, js[2]) = js
               /\ \A y : /\ With(js, y)[1] = js[1] /\ With(js, y)[2] = y /\ With(js, y)[3] = js[3]
                         /\ \A z : With(With(js, y), z) = With(js, z)
               /\ \A M : \A y \in M : With(js, y) \in Structures(M)
    <2>1. \A y, z : With(<<"param", y, t>>, z) = <<"param", z, t>>
      BY DEF With
    <2>2. QED
      BY <1>3, <1>5, <2>1 DEF Structures
  <1>6. QED
    BY <1>1, <1>2, <1>3, <1>4, <1>5 DEF Structures

\* A bigint of JavaScript that is an i64 or u64 is a number of jsonb.
LEMMA BigsType ==
  ASSUME NEW i \in -Pow2[W8]..Pow2[W8]
  PROVE  2 * i \in Int /\ Num(2 * i) \in JsonNumbers
  <1>1. Pow2[W8] \in Nat /\ Pow2[W8 + 1] = 2 * Pow2[W8]
    BY Widths
  <1>2. 2 * i \in -(Pow2[W8 + 1] + 2)..(Pow2[W8 + 1] + 2)
    BY <1>1
  <1>3. QED
    BY <1>1, <1>2 DEF JsonNumbers, NumsOf

-----------------------------------------------------------------------------
(***************************************************************************)
(* What each sort of JavaScript value may be written as: one lemma per     *)
(* sort, which says it of the three ways back at once.                     *)
(***************************************************************************)
GridOf(kind) == IF kind = "float4" THEN Floats ELSE Doubles

\* What a parameter of some type becomes in a column of another: PostgreSQL's
\* casts on assignment.
LEMMA AssignedCases ==
  ASSUME NEW type \in Types, NEW from, NEW v, NEW r \in Assigned(from, type, v), r # Fail
  PROVE  /\ v # Fail /\ Castable(from, type[1])
         /\ \/ v = Null /\ r = Null
            \/ v # Null /\ v[1] = "out" /\ r = v[2]
            \/ /\ v # Null /\ v[1] # "out"
               /\ \/ from = type[1] /\ type[1] \in {"json", "bool", "text"} /\ r = v
                  \/ "other" \in {from, type[1]} /\ r \in ValuesOf(type) \ {Null}
                  \/ type[1] = "text" /\ from # "text" /\ r \in TextValues
                  \/ /\ from \in IntKinds /\ type[1] \in IntKinds
                     /\ Signed(v[2], Width(type[1])) /\ r = v
                  \/ from # "other" /\ type[1] \in FloatKinds /\ v \in NotFinite /\ r = v
                  \/ /\ from # "other" /\ type[1] \in FloatKinds /\ v \notin NotFinite
                     /\ r = Rounded(v[2], GridOf(type[1])) /\ r \notin NotFinite
                  \/ /\ from \in FloatKinds /\ type[1] \in IntKinds /\ v \notin NotFinite
                     /\ \E n \in Ints(type[1]) : r = Num(n) /\ Distance(n, v[2]) <= 1
  <1>1. v # Fail /\ Castable(from, type[1])
    BY DEF Assigned, Castable
  <1>2. v = Null => r = Null
    BY <1>1 DEF Assigned, Castable, Null
  <1>3. v # Null /\ v[1] = "out" => r = v[2]
    BY <1>1 DEF Assigned, Castable
  <1>4. CASE v # Null /\ v[1] # "out"
    <2> DEFINE kind == type[1]
    <2>1. r \in Cast(from, type, v)
      BY <1>1, <1>4 DEF Assigned, Castable
    <2>2. ASSUME "other" \in {from, kind} PROVE r \in ValuesOf(type) \ {Null}
      BY <2>1, <2>2 DEF Cast, IntKinds, FloatKinds
    <2>3. ASSUME from = kind, kind \in {"json", "bool", "text"} PROVE r = v
      BY <2>1, <2>3 DEF Cast, IntKinds, FloatKinds
    <2>4. ASSUME kind = "text", from \notin {"text", "other"} PROVE r \in TextValues
      BY <2>1, <2>4 DEF Cast, IntKinds, FloatKinds
    <2>5. ASSUME from \in IntKinds, kind \in IntKinds
          PROVE  Signed(v[2], Width(kind)) /\ r = v
      BY <2>1, <2>5 DEF Cast, IntOf, Signed, IntKinds, FloatKinds
    <2>6. ASSUME from # "other", kind \in FloatKinds
          PROVE  \/ v \in NotFinite /\ r = v
                 \/ v \notin NotFinite /\ r = Rounded(v[2], GridOf(kind)) /\ r \notin NotFinite
      <3>1. r = FloatOf(kind, v)
        BY <2>1, <2>6 DEF Cast, IntKinds, FloatKinds
      <3>2. v \notin NotFinite => r = FloatOrFail(v[2], GridOf(kind))
        BY <3>1 DEF FloatOf, GridOf
      <3>3. v \in NotFinite => r = v
        BY <3>1 DEF FloatOf
      <3>4. QED
        BY <3>2, <3>3 DEF FloatOrFail
    <2>7. ASSUME from \in FloatKinds, kind \in IntKinds
          PROVE  v \notin NotFinite /\ \E n \in Ints(kind) : r = Num(n) /\ Distance(n, v[2]) <= 1
      <3>1. r \in Neighbours(kind, v)
        BY <2>1, <2>7 DEF Cast, IntKinds, FloatKinds
      <3>2. QED
        BY <3>1 DEF Neighbours, NumsOf
    <2>8. \/ "other" \in {from, kind}
          \/ from = kind /\ kind \in {"json", "bool", "text"}
          \/ kind = "text" /\ from \notin {"text", "other"}
          \/ from \in IntKinds /\ kind \in IntKinds
          \/ from # "other" /\ kind \in FloatKinds
          \/ from \in FloatKinds /\ kind \in IntKinds
      BY <2>1 DEF Cast
    <2> HIDE DEF kind
    <2>9. QED
      BY <1>1, <1>4, <2>2, <2>3, <2>4, <2>5, <2>6, <2>7, <2>8 DEF kind
  <1>5. QED
    BY <1>1, <1>2, <1>3, <1>4

\* null, and undefined.
LEMMA NothingWritten ==
  ASSUME NEW type \in Types, NEW js \in {Null, Undefined}, NEW v \in PlainWrites(type, js)
  PROVE  v \in {Null, Fail}
  <1> USE TypeCases DEF Null, Undefined, NotFinite, Fail
  <1>1. Returned(type, js) = {Null}
    BY DEF Returned, Visit, Tags, Kinds, IntKinds, FloatKinds
  <1>2. Assigned(Inferred(js)[1], type, Inferred(js)[2]) \subseteq {Null, Fail}
    <2>1. Inferred(js) \in {<<"unknown", Null>>, <<"error", Fail>>}
      BY DEF Inferred
    <2>2. QED
      BY <2>1, AssignedCases
  <1>3. Typed(type, js) \subseteq {Null, Fail}
    BY DEF Typed, Tags
  <1>4. QED
    BY <1>1, <1>2, <1>3 DEF PlainWrites

\* A value that is only known by its text goes back as what it was.
LEMMA OutWritten ==
  ASSUME NEW type \in Types, type[1] \in {"other", "row"}, NEW w,
         NEW v \in PlainWrites(type, <<"out", w>>)
  PROVE  v \in {w, Fail}
  <1> DEFINE js == <<"out", w>>
  <1>1. js[1] = "out" /\ js[2] = w /\ js \notin NotFinite /\ js # Null /\ js # Undefined
    BY DEF NotFinite, Null, Undefined
  <1> HIDE DEF js
  <1>2. Returned(type, js) \subseteq {w, Fail}
    BY <1>1 DEF Returned, Visit
  <1>3. Assigned(Inferred(js)[1], type, Inferred(js)[2]) \subseteq {w, Fail}
    <2>1. Inferred(js) = <<"text", js>>
      BY <1>1 DEF Inferred
    <2>2. QED
      BY <1>1, <2>1, AssignedCases
  <1>4. Typed(type, js) = {w}
    BY <1>1 DEF Typed
  <1>5. QED
    BY <1>2, <1>3, <1>4 DEF PlainWrites, js

\* NaN and infinity.
LEMMA NotFiniteWritten ==
  ASSUME NEW type \in Types, NEW js \in NotFinite, NEW v \in PlainWrites(type, js)
  PROVE  \/ v = Fail
         \/ type[1] \in FloatKinds /\ v = js
         \/ type[1] \notin FloatKinds /\ type[1] # "row" /\ v \in ValuesOf(type)
  <1>1. /\ js # Null /\ js # Undefined /\ js # Fail /\ js[1] \in {"nan", "inf"}
        /\ type[1] \in Kinds \cup {"row"}
    BY TypeCases DEF NotFinite, Null, Undefined, Fail
  <1>2. CASE v \in Returned(type, js)
    <2>1. CASE type[1] = "row"
      BY <1>1, <1>2, <2>1 DEF Returned
    <2>2. CASE type[1] # "row"
      <3>1. v \in VisitNotFinite(type[1], js)
        BY <1>1, <1>2, <2>2 DEF Returned, Visit, Tags, Kinds, IntKinds, FloatKinds
      <3>2. CASE type[1] = "json"
        BY <3>1, <3>2, TypeCases, ScalarCases
           DEF VisitNotFinite, FloatKinds, Kinds, JsonDocs, JsonLeaves, Structures
      <3>3. CASE type[1] = "other"
        BY <3>1, <3>3, TypeCases, ScalarCases DEF VisitNotFinite, FloatKinds, Kinds, Parsed
      <3>4. CASE type[1] \notin {"json", "other"}
        BY <3>1, <3>4 DEF VisitNotFinite
      <3>5. QED
        BY <3>2, <3>3, <3>4
    <2>3. QED
      BY <2>1, <2>2
  <1>3. CASE v \in Assigned(Inferred(js)[1], type, Inferred(js)[2])
    <2>1. Inferred(js) = <<"float8", js>>
      BY <1>1 DEF Inferred
    <2>2. type[1] = "text" => TextValues \subseteq ValuesOf(type)
      BY TypeCases, ScalarCases DEF Kinds
    <2>3. QED
      BY <1>1, <1>3, <2>1, <2>2, AssignedCases DEF IntKinds, FloatKinds, Castable
  <1>4. CASE v \in Typed(type, js)
    <2>1. v \in InputText(type, js)
      BY <1>1, <1>4 DEF Typed, Tags
    <2>2. CASE type[1] \in FloatKinds
      BY <1>1, <2>1, <2>2 DEF InputText, IntKinds, FloatKinds
    <2>3. CASE type[1] \notin FloatKinds
      <3>1. type[1] = "text" => TextValues \subseteq ValuesOf(type)
        BY TypeCases, ScalarCases DEF Kinds
      <3>2. type[1] = "other" => Parsed \subseteq {Fail} \cup ValuesOf(type)
        BY TypeCases, ScalarCases DEF Parsed, Kinds
      <3>3. type[1] = "bool" => Bools \subseteq ValuesOf(type)
        BY TypeCases, ScalarCases DEF Kinds
      <3>4. CASE type[1] = "json"
        BY <1>1, <2>1, <3>4 DEF InputText, IntKinds, FloatKinds
      <3>5. CASE type[1] # "json"
        BY <1>1, <2>1, <2>3, <3>1, <3>2, <3>3, <3>5 DEF InputText, Kinds, IntKinds
      <3>6. QED
        BY <3>4, <3>5
    <2>4. QED
      BY <2>2, <2>3
  <1>5. QED
    BY <1>2, <1>3, <1>4 DEF PlainWrites

\* Booleans.
LEMMA BoolWritten ==
  ASSUME NEW type \in Types, NEW js \in Bools, NEW v \in PlainWrites(type, js)
  PROVE  \/ v = Fail
         \/ type[1] = "bool" /\ v = js
         \/ type[1] = "json" /\ v = <<"json", js>>
         \/ type[1] \in {"text", "other"} /\ v \in ValuesOf(type)
  <1>1. /\ js # Null /\ js # Undefined /\ js # Fail /\ js[1] = "bool" /\ js \notin NotFinite
        /\ type[1] \in Kinds \cup {"row"}
    BY TypeCases DEF NotFinite, Null, Undefined, Fail, Bools
  <1>2. type[1] = "other" => Parsed \subseteq {Fail} \cup ValuesOf(type)
    BY TypeCases, ScalarCases DEF Parsed, Kinds
  <1>3. type[1] = "text" => TextValues \subseteq ValuesOf(type)
    BY TypeCases, ScalarCases DEF Kinds
  <1>4. CASE v \in Returned(type, js)
    BY <1>1, <1>2, <1>4 DEF Returned, Visit, Kinds, IntKinds, FloatKinds
  <1>5. CASE v \in Assigned(Inferred(js)[1], type, Inferred(js)[2])
    <2>1. Inferred(js) = <<"bool", js>>
      BY <1>1 DEF Inferred
    <2>2. QED
      BY <1>1, <1>3, <1>5, <2>1, AssignedCases DEF Castable, IntKinds, FloatKinds
  <1>6. CASE v \in Typed(type, js)
    <2>1. v \in InputText(type, js)
      BY <1>1, <1>6 DEF Typed, Tags
    <2>2. QED
      BY <1>1, <1>2, <1>3, <2>1 DEF InputText, Kinds, IntKinds, FloatKinds
  <1>7. QED
    BY <1>4, <1>5, <1>6 DEF PlainWrites

\* Strings, written to jsonb: as they are, or the documents they are texts of.
LEMMA TextToJson ==
  ASSUME NEW type \in Types, type[1] = "json", NEW js \in TextValues,
         NEW v \in PlainWrites(type, js)
  PROVE  js[2] \in Texts /\ v \in {Fail, <<"json", js>>, Document(js[2])}
  <1>1. /\ js # Null /\ js # Undefined /\ js # Fail /\ js[1] = "text" /\ js \notin NotFinite
        /\ js[2] \in Texts
    BY DEF NotFinite, Null, Undefined, Fail, TextValues
  <1>2. CASE v \in Returned(type, js)
    BY <1>1, <1>2 DEF Returned, Visit, Tags
  <1>3. CASE v \in Assigned(Inferred(js)[1], type, Inferred(js)[2])
    <2>1. Inferred(js) = <<"text", js>>
      BY <1>1 DEF Inferred
    <2>2. QED
      BY <1>1, <1>3, <2>1, AssignedCases DEF Castable, IntKinds, FloatKinds
  <1>4. CASE v \in Typed(type, js)
    BY <1>1, <1>4 DEF Typed, InputText, Tags, IntKinds, FloatKinds
  <1>5. QED
    BY <1>1, <1>2, <1>3, <1>4 DEF PlainWrites

\* Strings.
LEMMA TextWritten ==
  ASSUME NEW type \in Types, NEW js \in TextValues, NEW v \in PlainWrites(type, js)
  PROVE  \/ v = Fail
         \/ type[1] = "text" /\ v = js
         \/ type[1] # "text" /\ v \in ValuesOf(type)
  <1>1. /\ js # Null /\ js # Undefined /\ js # Fail /\ js[1] = "text" /\ js \notin NotFinite
        /\ type[1] \in Kinds \cup {"row"}
    BY TypeCases DEF NotFinite, Null, Undefined, Fail, TextValues
  <1>2. type[1] = "other" => Parsed \subseteq {Fail} \cup ValuesOf(type)
    BY TypeCases, ScalarCases DEF Parsed, Kinds
  <1>3. type[1] = "json" => <<"json", js>> \in ValuesOf(type)
    BY TypeCases, ScalarCases DEF Kinds, JsonDocs, JsonLeaves, Structures
  <1>4. type[1] = "bool" => Bools \subseteq ValuesOf(type)
    BY TypeCases, ScalarCases DEF Kinds
  <1>5. CASE v \in Returned(type, js)
    BY <1>1, <1>2, <1>3, <1>5 DEF Returned, Visit, Kinds, IntKinds, FloatKinds
  <1>6. CASE v \in Assigned(Inferred(js)[1], type, Inferred(js)[2])
    <2>1. Inferred(js) = <<"text", js>>
      BY <1>1 DEF Inferred
    <2>2. QED
      BY <1>1, <1>6, <2>1, AssignedCases DEF Castable, IntKinds, FloatKinds
  <1>7. CASE v \in Typed(type, js)
    <2>1. v \in InputText(type, js)
      BY <1>1, <1>7 DEF Typed, Tags
    <2>2. CASE type[1] = "json"
      <3>1. js[2] \in Texts /\ (v = Document(js[2]) \/ v = Fail \/ v = <<"json", js>>)
        BY <1>7, <2>2, TextToJson DEF PlainWrites
      <3>2. v = Fail \/ \E d \in JsonDocs : v = <<"json", d>>
        BY <3>1, JsonTextAssumption DEF Document, JsonDocs, JsonLeaves, Structures
      <3>3. QED
        BY <2>2, <3>2, TypeCases, ScalarCases DEF Kinds
    <2>3. CASE type[1] # "json"
      BY <1>1, <1>2, <1>4, <2>1, <2>3 DEF InputText, Kinds, IntKinds, FloatKinds
    <2>4. QED
      BY <2>2, <2>3
  <1>8. QED
    BY <1>5, <1>6, <1>7 DEF PlainWrites

\* A number or a bigint of JavaScript, equal to n.
NumberOf(js, n) == js \in {Num(n), <<"big", n>>}

\* The two can be told from everything else.
LEMMA NumberTag ==
  ASSUME NEW n \in Int, NEW js, NumberOf(js, n)
  PROVE  /\ js[1] \in {"num", "big"} /\ js[2] = n
         /\ js # Null /\ js # Undefined /\ js # Fail /\ js \notin NotFinite
         /\ Num(n) # Null /\ Num(n) # Fail /\ Num(n) \notin NotFinite /\ Num(n)[2] = n
         /\ js[1] = "num" => js = Num(n)
  BY DEF NumberOf, Num, Null, Undefined, Fail, NotFinite

\* Numbers and bigints, returned: a bigint beyond i64 and u64 fails.
LEMMA NumberReturned ==
  ASSUME NEW type \in Types, NEW n \in Int, NEW js, NumberOf(js, n),
         NEW v \in Returned(type, js)
  PROVE  v = Fail \/ (type[1] # "row" /\ v \in VisitNumber(type[1], n))
  <1>1. type[1] \in Kinds \cup {"row"}
    BY TypeCases
  <1>2. CASE type[1] = "row"
    BY <1>2, NumberTag DEF Returned
  <1>3. CASE type[1] # "row"
    <2>1. v \in Visit(type[1], js)
      BY <1>3 DEF Returned
    <2>2. QED
      BY <1>1, <1>3, <2>1, NumberTag DEF Visit, Tags, Kinds, IntKinds, FloatKinds
  <1>4. QED
    BY <1>2, <1>3

\* Numbers and bigints, as parameters whose type is inferred: the type is that
\* of an integer or float8.
LEMMA NumberInferred ==
  ASSUME NEW n \in Int, NEW js, NumberOf(js, n)
  PROVE  \/ Inferred(js) = <<"error", Fail>>
         \/ Inferred(js)[1] \in {"int4", "int8"} /\ Inferred(js)[2] = Num(n) /\ Signed(n, W8)
         \/ /\ Inferred(js) = <<"int8", Num(Clamped(n))>> /\ js[1] = "num"
            /\ Whole(n) /\ ~Signed(n, W8)
         \/ Inferred(js) = <<"float8", Num(n)>> /\ ~Whole(n)
  <1>1. Signed(n, W4) => Signed(n, W8)
    BY Widths DEF Signed
  <1>2. CASE js[1] = "num"
    <2>1. Inferred(js) = InferredNumber(n)
      BY <1>2, NumberTag DEF Inferred
    <2>2. CASE Signed(n, W4)
      BY <1>1, <2>1, <2>2 DEF InferredNumber, Signed
    <2>3. CASE Whole(n) /\ ~Signed(n, W4)
      <3>1. Inferred(js) = <<"int8", Num(Clamped(n))>>
        BY <2>1, <2>3 DEF InferredNumber
      <3>2. QED
        BY <1>2, <2>3, <3>1, ClampedType
    <2>4. CASE ~Whole(n)
      BY <2>1, <2>4 DEF InferredNumber, Signed
    <2>5. QED
      BY <2>2, <2>3, <2>4
  <1>3. CASE js[1] = "big"
    BY <1>3, NumberTag DEF Inferred
  <1>4. QED
    BY <1>2, <1>3, NumberTag

\* A parameter that is an integer, assigned.
LEMMA IntegerAssigned ==
  ASSUME NEW type \in Types, NEW from \in IntKinds, NEW m \in Int,
         NEW v \in Assigned(from, type, Num(m))
  PROVE  \/ v = Fail
         \/ type[1] \in IntKinds /\ Signed(m, Width(type[1])) /\ v = Num(m)
         \/ type[1] \in FloatKinds /\ v = Rounded(m, GridOf(type[1]))
         \/ type[1] \in {"text", "other"} /\ v \in ValuesOf(type)
  <1>1. /\ Num(m) \notin NotFinite /\ Num(m) # Fail /\ Num(m) # Null
        /\ Num(m)[1] = "num" /\ Num(m)[2] = m
    BY DEF Num, NotFinite, Fail, Null
  <1>2. type[1] = "text" => TextValues \subseteq ValuesOf(type)
    BY TypeCases, ScalarCases DEF Kinds
  <1>3. QED
    BY <1>1, <1>2, AssignedCases DEF IntKinds, FloatKinds

\* A parameter that is a float8, assigned.
LEMMA FractionAssigned ==
  ASSUME NEW type \in Types, NEW m \in Int, NEW v \in Assigned("float8", type, Num(m))
  PROVE  \/ v = Fail
         \/ type[1] \in IntKinds /\ \E i \in Ints(type[1]) : v = Num(i) /\ Distance(i, m) <= 1
         \/ type[1] \in FloatKinds /\ v = Rounded(m, GridOf(type[1]))
         \/ type[1] \in {"text", "other"} /\ v \in ValuesOf(type)
  <1>1. /\ Num(m) \notin NotFinite /\ Num(m) # Fail /\ Num(m) # Null
        /\ Num(m)[1] = "num" /\ Num(m)[2] = m
    BY DEF Num, NotFinite, Fail, Null
  <1>2. type[1] = "text" => TextValues \subseteq ValuesOf(type)
    BY TypeCases, ScalarCases DEF Kinds
  <1>3. QED
    BY <1>1, <1>2, AssignedCases DEF IntKinds, FloatKinds

\* Numbers and bigints, as parameters whose type is given.
LEMMA NumberTyped ==
  ASSUME NEW type \in Types, NEW n \in Int, NEW js, NumberOf(js, n), NEW v \in Typed(type, js)
  PROVE  \/ v = Fail
         \/ type[1] \in IntKinds /\ Signed(n, Width(type[1])) /\ v = Num(n)
         \/ type[1] \in FloatKinds /\ v = Rounded(n, GridOf(type[1]))
         \/ type[1] = "json" /\ v = <<"json", Num(n)>>
         \/ type[1] \in {"bool", "text", "other"} /\ v \in ValuesOf(type)
  <1>1. type[1] \in Kinds \cup {"row"} /\ v \in InputText(type, js)
    BY TypeCases, NumberTag DEF Typed, Tags
  <1>2. type[1] = "other" => Parsed \subseteq {Fail} \cup ValuesOf(type)
    BY TypeCases, ScalarCases DEF Parsed, Kinds
  <1>3. type[1] = "text" => TextValues \subseteq ValuesOf(type)
    BY TypeCases, ScalarCases DEF Kinds
  <1>4. type[1] = "bool" => Bools \subseteq ValuesOf(type)
    BY TypeCases, ScalarCases DEF Kinds
  <1>5. CASE type[1] \in IntKinds
    BY <1>1, <1>5, NumberTag DEF InputText, IntKinds, FloatKinds
  <1>6. CASE type[1] \in FloatKinds
    <2>1. v = FloatOrFail(n, GridOf(type[1]))
      BY <1>1, <1>6, NumberTag DEF InputText, IntKinds, FloatKinds, GridOf
    <2>2. QED
      BY <1>6, <2>1 DEF FloatOrFail
  <1>7. CASE type[1] \notin IntKinds \cup FloatKinds
    BY <1>1, <1>2, <1>3, <1>4, <1>7, NumberTag DEF InputText, Kinds, IntKinds, FloatKinds
  <1>8. QED
    BY <1>5, <1>6, <1>7

\* `as i64` of a number beyond int8 is beyond the smaller integers too.
LEMMA ClampedIsWide ==
  ASSUME NEW kind \in IntKinds, NEW n \in Int, Whole(n), ~Signed(n, W8),
         Signed(Clamped(n), Width(kind))
  PROVE  kind = "int8"
  <1>1. n >= Pow2[W8] \/ n < -Pow2[W8]
    BY Widths DEF Signed
  <1>2. Clamped(n) \in {Pow2[W8] - 2, -Pow2[W8]}
    BY <1>1, ClampedType
  <1>3. Pow2[Width(kind)] <= Pow2[P8] => ~Signed(Clamped(n), Width(kind))
    BY <1>2, Widths, WidthType DEF Signed
  <1>4. QED
    BY <1>3, WidthType

\* Numbers and bigints, whichever way: what an integer column gets of them.
LEMMA IntegerWritten ==
  ASSUME NEW type \in Types, type[1] \in IntKinds,
         NEW n \in Int, NEW js, NumberOf(js, n), NEW v \in PlainWrites(type, js)
  PROVE  \/ v = Fail
         \/ /\ v \in NumsOf(Ints(type[1]))
            /\ \/ v = Num(n)
               \/ ~Whole(n) /\ \E i \in Int : v = Num(i) /\ Distance(i, n) = 1
               \/ type[1] = "int8" /\ js[1] = "num" /\ v = Num(Clamped(n))
  <1>1. Signed(n, Width(type[1])) => Num(n) \in NumsOf(Ints(type[1]))
    BY IntsType DEF NumsOf
  <1>2. CASE v \in Returned(type, js)
    BY <1>1, <1>2, NumberReturned DEF VisitNumber, Integer, IntKinds
  <1>3. CASE v \in Typed(type, js)
    BY <1>1, <1>3, NumberTyped DEF IntKinds, FloatKinds
  <1>4. CASE v \in Assigned(Inferred(js)[1], type, Inferred(js)[2])
    <2>1. CASE Inferred(js) = <<"error", Fail>>
      BY <1>4, <2>1, AssignedCases
    <2>2. CASE Inferred(js)[1] \in {"int4", "int8"} /\ Inferred(js)[2] = Num(n)
      BY <1>1, <1>4, <2>2, IntegerAssigned DEF IntKinds, FloatKinds
    <2>3. CASE /\ Inferred(js) = <<"int8", Num(Clamped(n))>> /\ js[1] = "num"
               /\ Whole(n) /\ ~Signed(n, W8)
      <3> DEFINE c == Clamped(n)
      <3>1. c \in Int
        BY <2>3, ClampedType
      <3> HIDE DEF c
      <3>2. v = Fail \/ (Signed(c, Width(type[1])) /\ v = Num(c))
        <4>1. v \in Assigned("int8", type, Num(c))
          BY <1>4, <2>3 DEF c
        <4>2. QED
          BY <3>1, <4>1, IntegerAssigned DEF IntKinds, FloatKinds
      <3>3. CASE v # Fail
        <4>1. type[1] = "int8"
          BY <2>3, <3>2, <3>3, ClampedIsWide DEF c
        <4>2. v \in NumsOf(Ints(type[1]))
          BY <3>1, <3>2, <3>3, IntsType DEF NumsOf
        <4>3. QED
          BY <2>3, <3>2, <3>3, <4>1, <4>2 DEF c
      <3>4. QED
        BY <3>3
    <2>4. CASE Inferred(js) = <<"float8", Num(n)>> /\ ~Whole(n)
      <3>1. v = Fail \/ \E i \in Ints(type[1]) : v = Num(i) /\ Distance(i, n) <= 1
        BY <1>4, <2>4, FractionAssigned DEF IntKinds, FloatKinds
      <3>2. ASSUME NEW i \in Ints(type[1]), Distance(i, n) <= 1
            PROVE  i \in Int /\ Distance(i, n) = 1
        <4>1. i \in Int /\ Whole(i)
          BY Widths DEF Ints, Signed
        <4>2. i # n
          BY <2>4, <4>1
        <4>3. QED
          BY <3>2, <4>1, <4>2 DEF Distance
      <3>3. QED
        BY <2>4, <3>1, <3>2 DEF NumsOf
    <2>5. QED
      BY <2>1, <2>2, <2>3, <2>4, NumberInferred
  <1>5. QED
    BY <1>2, <1>3, <1>4 DEF PlainWrites

\* What a float column gets of them: the nearest float, or that of the limit.
LEMMA FloatWritten ==
  ASSUME NEW type \in Types, type[1] \in FloatKinds,
         NEW n \in Int, NEW js, NumberOf(js, n), NEW v \in PlainWrites(type, js)
  PROVE  \/ v = Fail
         \/ v = Rounded(n, GridOf(type[1]))
         \/ Whole(n) /\ ~Signed(n, W8) /\ v = Rounded(Clamped(n), GridOf(type[1]))
  <1>1. type[1] \notin IntKinds /\ type[1] \notin {"json", "bool", "text", "other", "row"}
    BY DEF IntKinds, FloatKinds
  <1>2. CASE v \in Returned(type, js)
    BY <1>1, <1>2, NumberReturned DEF VisitNumber, FloatKinds, GridOf
  <1>3. CASE v \in Typed(type, js)
    BY <1>1, <1>3, NumberTyped
  <1>4. CASE v \in Assigned(Inferred(js)[1], type, Inferred(js)[2])
    <2>1. CASE Inferred(js) = <<"error", Fail>>
      BY <1>4, <2>1, AssignedCases
    <2>2. CASE Inferred(js)[1] \in {"int4", "int8"} /\ Inferred(js)[2] = Num(n)
      BY <1>1, <1>4, <2>2, IntegerAssigned DEF IntKinds
    <2>3. CASE /\ Inferred(js) = <<"int8", Num(Clamped(n))>> /\ Whole(n) /\ ~Signed(n, W8)
      <3> DEFINE c == Clamped(n)
      <3>1. c \in Int
        BY <2>3, ClampedType
      <3> HIDE DEF c
      <3>2. v \in Assigned("int8", type, Num(c))
        BY <1>4, <2>3 DEF c
      <3>3. v = Fail \/ v = Rounded(c, GridOf(type[1]))
        BY <1>1, <3>1, <3>2, IntegerAssigned DEF IntKinds
      <3>4. QED
        BY <2>3, <3>3 DEF c
    <2>4. CASE Inferred(js) = <<"float8", Num(n)>>
      BY <1>1, <1>4, <2>4, FractionAssigned
    <2>5. QED
      BY <2>1, <2>2, <2>3, <2>4, NumberInferred
  <1>5. QED
    BY <1>2, <1>3, <1>4 DEF PlainWrites

\* What any other column gets of them.
LEMMA NumberWritten ==
  ASSUME NEW type \in Types, type[1] \notin IntKinds \cup FloatKinds,
         NEW n \in Int, NEW js, NumberOf(js, n), NEW v \in PlainWrites(type, js)
  PROVE  \/ v = Fail
         \/ type[1] = "json" /\ v = <<"json", Num(n)>>
         \/ type[1] \in {"bool", "text", "other"} /\ v \in ValuesOf(type)
  <1>1. type[1] = "other" => Parsed \subseteq {Fail} \cup ValuesOf(type)
    BY TypeCases, ScalarCases DEF Parsed, Kinds
  <1>2. CASE v \in Returned(type, js)
    BY <1>1, <1>2, NumberReturned DEF VisitNumber, IntKinds, FloatKinds
  <1>3. CASE v \in Typed(type, js)
    BY <1>3, NumberTyped
  <1>4. CASE v \in Assigned(Inferred(js)[1], type, Inferred(js)[2])
    <2>1. CASE Inferred(js) = <<"error", Fail>>
      BY <1>4, <2>1, AssignedCases
    <2>2. CASE Inferred(js)[1] \in {"int4", "int8"} /\ Inferred(js)[2] = Num(n)
      BY <1>4, <2>2, IntegerAssigned DEF IntKinds
    <2>3. CASE Inferred(js) = <<"int8", Num(Clamped(n))>> /\ Whole(n)
      <3> DEFINE c == Clamped(n)
      <3>1. c \in Int
        BY <2>3, ClampedType
      <3> HIDE DEF c
      <3>2. v \in Assigned("int8", type, Num(c))
        BY <1>4, <2>3 DEF c
      <3>3. QED
        BY <3>1, <3>2, IntegerAssigned DEF IntKinds
    <2>4. CASE Inferred(js) = <<"float8", Num(n)>>
      BY <1>4, <2>4, FractionAssigned
    <2>5. QED
      BY <2>1, <2>2, <2>3, <2>4, NumberInferred
  <1>5. QED
    BY <1>2, <1>3, <1>4 DEF PlainWrites

\* A number inside an object or array whose type is inferred goes through
\* `as i64` if it is a whole number up to 2^63, and 2^63 alone does not come
\* through.
LEMMA ClampedInside ==
  ASSUME NEW n \in -Pow2[W8]..Pow2[W8], Whole(n)
  PROVE  /\ Clamped(n) \in -Pow2[W8]..Pow2[W8] /\ Signed(Clamped(n), W8)
         /\ n # Pow2[W8] => Clamped(n) = n
  <1>1. Pow2[W8] \in Nat /\ 2 <= Pow2[W8]
    BY Widths
  <1>2. n < Pow2[W8] => Signed(n, W8)
    BY <1>1 DEF Signed
  <1>3. Signed(Clamped(n), W8) /\ Clamped(n) \in Int
    BY <1>1, ClampedType
  <1>4. QED
    BY <1>1, <1>2, <1>3, ClampedType DEF Signed

\* The leaves of JavaScript's values, as leaves of jsonb's.
LEMMA LeafToValue ==
  ASSUME NEW x \in JsLeaves, NEW y \in ToValue(x)
  PROVE  \/ y = Fail
         \/ /\ y \in JsonLeaves
            /\ x \in NotFinite \cup {Undefined} => y = Null
            /\ x \in {Null} \cup Bools \cup TextValues => y = x
            /\ \A n \in Int : NumberOf(x, n) => y = Num(n)
  <1>1. CASE x \in {Undefined} \cup NotFinite
    BY <1>1 DEF ToValue, JsonLeaves, NumberOf, Num, Null, Undefined, NotFinite, Bools, TextValues
  <1>2. CASE x = Null
    BY <1>2 DEF ToValue, JsonLeaves, NumberOf, Num, Null, Undefined, NotFinite
  <1>3. CASE x \in Bools \cup TextValues
    BY <1>3 DEF ToValue, JsonLeaves, NumberOf, Num, Undefined, NotFinite, Bools, TextValues
  <1>4. ASSUME NEW n \in Doubles, x = Num(n) PROVE y = x /\ y \in JsonLeaves
    <2>1. y = x
      BY <1>4 DEF ToValue, Num, Undefined, NotFinite
    <2>2. x \in JsonNumbers
      BY <1>4, NumbersType DEF NumsOf
    <2>3. QED
      BY <2>1, <2>2 DEF JsonLeaves
  <1>5. ASSUME NEW i \in -Pow2[W8]..Pow2[W8], x = <<"big", 2 * i>>, y # Fail
        PROVE  y = Num(2 * i) /\ y \in JsonLeaves
    <2>1. y = Num(2 * i)
      <3>1. x[1] = "big" /\ x[2] = 2 * i /\ x \notin NotFinite /\ x # Undefined
        BY <1>5 DEF Undefined, NotFinite
      <3>2. QED
        BY <1>5, <3>1 DEF ToValue
    <2>2. QED
      BY <2>1, BigsType DEF JsonLeaves
  <1>6. QED
    BY <1>1, <1>2, <1>3, <1>4, <1>5, LeafCases
       DEF NumberOf, Num, Null, Undefined, NotFinite, Bools, TextValues

\* And in to_json_value.
LEMMA LeafToJsonValue ==
  ASSUME NEW x \in JsLeaves
  PROVE  \/ ToJsonValue(x) = Fail
         \/ x \in {Null} \cup Bools \cup TextValues /\ ToJsonValue(x) = x /\ x \in JsonLeaves
         \/ \E n \in Int : /\ x = Num(n) /\ ToJsonValue(x) \in JsonLeaves
                           /\ \/ ToJsonValue(x) = x
                              \/ n = Pow2[W8] /\ ToJsonValue(x) = Num(Clamped(n))
  <1>1. CASE x \in {Undefined} \cup NotFinite
    BY <1>1 DEF ToJsonValue, Null, Undefined, NotFinite
  <1>2. CASE x \in {Null} \cup Bools \cup TextValues
    BY <1>2 DEF ToJsonValue, JsonLeaves, Null, Undefined, NotFinite, Bools, TextValues
  <1>3. ASSUME NEW n \in Doubles, x = Num(n)
        PROVE  /\ n \in Int /\ ToJsonValue(x) \in JsonLeaves
               /\ \/ ToJsonValue(x) = x
                  \/ n = Pow2[W8] /\ ToJsonValue(x) = Num(Clamped(n))
    <2>1. /\ n \in Int /\ x \in JsonLeaves
          /\ x[1] = "num" /\ x[2] = n /\ x # Undefined /\ x \notin NotFinite
      BY <1>3, NumbersType DEF NumsOf, JsonLeaves, Num, Undefined, NotFinite
    <2>2. CASE Whole(n) /\ n \in -Pow2[W8]..Pow2[W8]
      <3>1. ToJsonValue(x) = Num(Clamped(n))
        BY <2>1, <2>2 DEF ToJsonValue
      <3>2. Clamped(n) \in -(Pow2[W8 + 1] + 2)..(Pow2[W8 + 1] + 2)
        BY <2>2, ClampedInside, Widths
      <3>3. Num(Clamped(n)) \in JsonLeaves
        BY <3>2 DEF JsonLeaves, JsonNumbers, NumsOf
      <3>4. QED
        BY <1>3, <2>1, <2>2, <3>1, <3>3, ClampedInside
    <2>3. CASE ~(Whole(n) /\ n \in -Pow2[W8]..Pow2[W8])
      BY <2>1, <2>3 DEF ToJsonValue
    <2>4. QED
      BY <2>1, <2>2, <2>3
  <1>4. ASSUME NEW i \in Int, x = <<"big", i>> PROVE ToJsonValue(x) = Fail
    BY <1>4 DEF ToJsonValue, Undefined, NotFinite
  <1>5. ASSUME NEW i \in -Pow2[W8]..Pow2[W8] PROVE 2 * i \in Int
    BY BigsType
  <1>6. QED
    BY <1>1, <1>2, <1>3, <1>4, <1>5, LeafCases

\* Objects and arrays.
LEMMA StructWritten ==
  ASSUME NEW type \in Types, NEW js \in JsValues, js \notin JsLeaves,
         NEW v \in PlainWrites(type, js)
  PROVE  \/ v = Fail
         \/ /\ type[1] = "json"
            /\ \E y \in JsonLeaves : /\ v = <<"json", With(js, y)>>
                                     /\ y \in ToValue(js[2]) \/ y = ToJsonValue(js[2])
         \/ type[1] \in {"text", "other"} /\ v \in ValuesOf(type)
         \/ /\ type[1] = "row"
            /\ \/ v \in BuildRow(type[2], js[2])
               \/ js[1] = "param" /\ v \in BuildRow(type[2], Undefined)
  <1> DEFINE x == js[2]
  <1>1. /\ js[1] \in Tags /\ x \in JsLeaves
        /\ js \notin NotFinite /\ js # Null /\ js # Undefined /\ js # Fail
    BY StructureCases DEF JsValues
  <1>2. /\ \A y \in ToValue(x) : y = Fail \/ y \in JsonLeaves
        /\ ToJsonValue(x) = Fail \/ ToJsonValue(x) \in JsonLeaves
    BY <1>1, LeafToValue, LeafToJsonValue
  <1>3. type[1] = "other" => Parsed \subseteq {Fail} \cup ValuesOf(type)
    BY TypeCases, ScalarCases DEF Parsed, Kinds
  <1>4. CASE v \in Returned(type, js)
    <2>1. CASE type[1] = "row"
      BY <1>1, <1>4, <2>1 DEF Returned, Tags
    <2>2. CASE type[1] # "row"
      <3>1. v \in Visit(type[1], js) /\ type[1] \in Kinds
        BY <1>4, <2>2, TypeCases DEF Returned
      <3>2. CASE type[1] = "json"
        <4>1. v \in JsonOf(js, ToValue(x))
          BY <1>1, <3>1, <3>2 DEF Visit, Tags
        <4>2. QED
          BY <1>1, <1>2, <3>2, <4>1 DEF JsonOf
      <3>3. CASE type[1] # "json"
        <4>1. (v \in Parsed /\ type[1] = "other") \/ v = Fail
          BY <1>1, <3>1, <3>3 DEF Visit, Tags, Kinds, IntKinds, FloatKinds
        <4>2. QED
          BY <1>3, <4>1
      <3>4. QED
        BY <3>2, <3>3
    <2>3. QED
      BY <2>1, <2>2
  <1>5. CASE v \in Assigned(Inferred(js)[1], type, Inferred(js)[2])
    <2>1. \/ Inferred(js) = <<"error", Fail>>
          \/ /\ Inferred(js) = <<"json", <<"json", With(js, ToJsonValue(x))>>>>
             /\ ToJsonValue(x) # Fail
      BY <1>1 DEF Inferred, Tags
    <2>2. CASE Inferred(js) = <<"error", Fail>>
      BY <1>5, <2>2, AssignedCases
    <2>3. CASE /\ Inferred(js) = <<"json", <<"json", With(js, ToJsonValue(x))>>>>
               /\ ToJsonValue(x) # Fail
      <3> DEFINE doc == <<"json", With(js, ToJsonValue(x))>>
      <3>1. doc # Null /\ doc[1] = "json"
        BY DEF Null
      <3>2. type[1] = "text" => TextValues \subseteq ValuesOf(type)
        BY TypeCases, ScalarCases DEF Kinds
      <3>3. v \in Assigned("json", type, doc)
        BY <1>5, <2>3
      <3> HIDE DEF doc
      <3>4. v = Fail \/ (type[1] = "json" /\ v = doc)
            \/ (type[1] \in {"text", "other"} /\ v \in ValuesOf(type))
        BY <3>1, <3>2, <3>3, AssignedCases DEF Castable, IntKinds, FloatKinds
      <3>5. QED
        BY <1>2, <2>3, <3>4 DEF doc
    <2>4. QED
      BY <2>1, <2>2, <2>3
  <1>6. CASE v \in Typed(type, js)
    <2>1. v = Fail \/ (type[1] = "json" /\ v \in JsonOf(js, {ToJsonValue(x)}))
      BY <1>1, <1>6 DEF Typed, Tags
    <2>2. QED
      BY <1>1, <1>2, <2>1 DEF JsonOf
  <1>7. QED
    BY <1>4, <1>5, <1>6 DEF PlainWrites

\* A number of jsonb is an integer.
LEMMA JsonLeafCases ==
  ASSUME NEW y \in JsonLeaves
  PROVE  y \in {Null} \cup Bools \cup TextValues \/ \E n \in Int : y = Num(n) /\ y \in JsonNumbers
  <1>1. CASE y \in JsonNumbers
    <2>1. PICK n : y = Num(n)
      BY <1>1 DEF JsonNumbers, NumsOf
    <2>2. QED
      BY <1>1, <2>1, JsonNumberRounds
  <1>2. QED
    BY <1>1 DEF JsonLeaves

\* The field of a row, of a row type.
LEMMA FieldWritten ==
  ASSUME NEW kind \in {"int8", "float8"}, NEW y \in JsonLeaves, NEW u \in Visit(kind, y)
  PROVE  \/ u = Fail
         \/ y = Null /\ u = Null
         \/ \E n \in Int : y = Num(n) /\ u = (IF kind = "int8" THEN Num(n) ELSE Rounded(n, Doubles))
                           /\ (kind = "int8" => u \in NumsOf(Ints("int8")))
  <1>1. CASE y = Null
    BY <1>1 DEF Visit, Null, NotFinite
  <1>2. CASE y \in Bools \cup TextValues
    BY <1>2 DEF Visit, Null, Undefined, NotFinite, Bools, TextValues
  <1>3. ASSUME NEW n \in Int, y = Num(n)
        PROVE  u = Fail \/ (/\ u = (IF kind = "int8" THEN Num(n) ELSE Rounded(n, Doubles))
                            /\ kind = "int8" => u \in NumsOf(Ints("int8")))
    <2>1. u \in VisitNumber(kind, n)
      BY <1>3 DEF Visit, Num, Null, Undefined, NotFinite
    <2>2. CASE kind = "int8"
      <3>1. u = Integer("int8", n)
        BY <2>1, <2>2 DEF VisitNumber, IntKinds
      <3>2. QED
        BY <2>2, <3>1, IntsType DEF Integer, NumsOf, IntKinds
    <2>3. CASE kind = "float8"
      BY <2>1, <2>3 DEF VisitNumber, IntKinds
    <2>4. QED
      BY <2>2, <2>3
  <1>4. QED
    BY <1>1, <1>2, <1>3, JsonLeafCases

\* A row that is built from an object has a value of its type in its field.
LEMMA RowBuilt ==
  ASSUME NEW kind \in {"int8", "float8"}, NEW x \in JsLeaves, NEW v \in BuildRow(kind, x)
  PROVE  \/ v = Fail
         \/ \E u \in ScalarValues(kind) :
              /\ v = <<"row", u>>
              /\ x \in {Null, Undefined} \cup NotFinite => u = Null
              /\ \A n \in Int : NumberOf(x, n) =>
                                  u = (IF kind = "int8" THEN Num(n) ELSE Rounded(n, Doubles))
  <1>1. PICK y \in ToValue(x) :
          v \in IF y = Fail THEN {Fail}
                ELSE {IF u = Fail THEN Fail ELSE <<"row", u>> : u \in Visit(kind, y)}
    BY DEF BuildRow
  <1>2. CASE y = Fail
    BY <1>1, <1>2
  <1>3. CASE y # Fail
    <2>1. /\ y \in JsonLeaves
          /\ x \in {Null, Undefined} \cup NotFinite => y = Null
          /\ \A n \in Int : NumberOf(x, n) => y = Num(n)
      BY <1>3, LeafToValue
    <2>2. PICK u \in Visit(kind, y) : v = (IF u = Fail THEN Fail ELSE <<"row", u>>)
      BY <1>1, <1>3
    <2>3. CASE u = Fail
      BY <2>2, <2>3
    <2>4. CASE y = Null /\ u = Null /\ u # Fail
      <3>1. \A n \in Int : ~NumberOf(x, n)
        BY <2>1, <2>4 DEF Num, Null
      <3>2. Null \in ScalarValues(kind)
        BY ScalarCases DEF Kinds, IntKinds, FloatKinds
      <3>3. QED
        BY <2>2, <2>4, <3>1, <3>2
    <2>5. ASSUME NEW n \in Int, y = Num(n), u # Fail,
                 u = (IF kind = "int8" THEN Num(n) ELSE Rounded(n, Doubles)),
                 kind = "int8" => u \in NumsOf(Ints("int8"))
          PROVE  /\ u \in ScalarValues(kind) /\ v = <<"row", u>>
                 /\ x \notin {Null, Undefined} \cup NotFinite
                 /\ \A m \in Int : NumberOf(x, m) => m = n
      <3>1. u \in ScalarValues(kind)
        BY <2>5, ScalarCases, NumbersType DEF Kinds, IntKinds, FloatKinds
      <3>2. QED
        BY <2>1, <2>2, <2>5, <3>1 DEF Num, Null
    <2>6. CASE /\ u # Fail
               /\ \E n \in Int : /\ y = Num(n)
                                 /\ u = (IF kind = "int8" THEN Num(n) ELSE Rounded(n, Doubles))
                                 /\ kind = "int8" => u \in NumsOf(Ints("int8"))
      BY <2>5, <2>6
    <2>7. QED
      BY <2>1, <2>3, <2>4, <2>6, FieldWritten
  <1>4. QED
    BY <1>2, <1>3

\* Whatever JavaScript writes, the column's type gets a value of its own.
LEMMA PlainWriteType ==
  ASSUME NEW type \in Types, NEW js \in JsValues, NEW v \in PlainWrites(type, js), v # Fail
  PROVE  v \in ValuesOf(type)
  <1>1. Null \in ValuesOf(type)
    BY TypeCases, ScalarCases
  <1>2. CASE js \in {Null, Undefined}
    BY <1>1, <1>2, NothingWritten
  <1>3. type[1] \in FloatKinds =>
          NotFinite \cup NumsOf(GridOf(type[1])) \subseteq ValuesOf(type)
    BY TypeCases, ScalarCases DEF FloatKinds, GridOf
  <1>4. CASE js \in NotFinite
    BY <1>3, <1>4, NotFiniteWritten
  <1>5. CASE js \in Bools
    <2>1. type[1] = "json" => <<"json", js>> \in ValuesOf(type)
      BY <1>5, TypeCases, ScalarCases DEF Kinds, JsonDocs, JsonLeaves, Structures
    <2>2. type[1] = "bool" => js \in ValuesOf(type)
      BY <1>5, TypeCases, ScalarCases DEF Kinds
    <2>3. QED
      BY <1>5, <2>1, <2>2, BoolWritten
  <1>6. CASE js \in TextValues
    <2>1. type[1] = "text" => js \in ValuesOf(type)
      BY <1>6, TypeCases, ScalarCases DEF Kinds
    <2>2. QED
      BY <1>6, <2>1, TextWritten
  <1>7. ASSUME NEW n \in Int, Num(n) \in JsonNumbers, NumberOf(js, n) PROVE v \in ValuesOf(type)
    <2>1. CASE type[1] \in IntKinds
      <3>1. NumsOf(Ints(type[1])) \subseteq ValuesOf(type)
        BY <2>1, TypeCases, ScalarCases DEF IntKinds
      <3>2. QED
        BY <1>7, <2>1, <3>1, IntegerWritten
    <2>2. CASE type[1] \in FloatKinds
      <3>1. \A m \in Int : Rounded(m, GridOf(type[1])) \in NotFinite \cup NumsOf(GridOf(type[1]))
        BY NumbersType DEF GridOf
      <3>2. QED
        BY <1>3, <1>7, <2>2, <3>1, FloatWritten, ClampedType
    <2>3. CASE type[1] \notin IntKinds \cup FloatKinds
      <3>1. type[1] = "json" => <<"json", Num(n)>> \in ValuesOf(type)
        BY <1>7, TypeCases, ScalarCases DEF Kinds, JsonDocs, JsonLeaves, Structures
      <3>2. QED
        BY <1>7, <2>3, <3>1, NumberWritten
    <2>4. QED
      BY <2>1, <2>2, <2>3
  <1>8. CASE js \notin JsLeaves
    <2>1. js[2] \in JsLeaves /\ \A y \in JsonLeaves : With(js, y) \in JsonDocs
      BY <1>8, StructureCases DEF JsValues, JsonDocs
    <2>2. ASSUME NEW y \in JsonLeaves, type[1] = "json"
          PROVE  <<"json", With(js, y)>> \in ValuesOf(type)
      BY <2>1, <2>2, TypeCases, ScalarCases DEF Kinds
    <2>3. ASSUME NEW x \in JsLeaves, type[1] = "row", v \in BuildRow(type[2], x)
          PROVE  v \in ValuesOf(type)
      BY <2>3, TypeCases, RowBuilt
    <2>4. Undefined \in JsLeaves
      BY DEF JsLeaves
    <2>5. QED
      BY <1>8, <2>1, <2>2, <2>3, <2>4, StructWritten
  <1>9. ASSUME NEW n \in Doubles PROVE n \in Int /\ Num(n) \in JsonNumbers
    BY NumbersType DEF NumsOf
  <1>10. CASE js \in JsLeaves
    BY <1>2, <1>4, <1>5, <1>6, <1>7, <1>9, <1>10, LeafCases, BigsType DEF NumberOf
  <1>11. QED
    BY <1>8, <1>10

\* A parameter of a type, cast to the column's: a value of the column's type.
LEMMA AssignedType ==
  ASSUME NEW type \in Types, NEW kind \in Kinds, NEW u \in ScalarValues(kind),
         NEW v \in Assigned(kind, type, u), v # Fail
  PROVE  v \in ValuesOf(type)
  <1>1. Null \in ValuesOf(type) /\ (type[1] \in Kinds => ValuesOf(type) = ScalarValues(type[1]))
    BY TypeCases, ScalarCases DEF Kinds, IntKinds, FloatKinds
  <1>2. u[1] # "out"
    BY ScalarCases DEF Kinds, IntKinds, FloatKinds, Null, NotFinite, NumsOf, Num, Bools, TextValues
  <1>3. ASSUME kind \in IntKinds \cup FloatKinds, u # Null, u \notin NotFinite
        PROVE  u[2] \in Int /\ u = Num(u[2])
    <2>1. PICK n \in Ints(kind) \cup Floats \cup Doubles : u = Num(n)
      BY <1>3, ScalarCases DEF NumsOf, FloatKinds
    <2>2. n \in Ints(kind) => n \in Int
      BY Widths DEF Ints
    <2>3. n \in Int
      BY <2>2, NumbersType
    <2>4. QED
      BY <2>1, <2>3 DEF Num
  <1>4. ASSUME type[1] \in IntKinds, NEW n \in Ints(type[1]) PROVE Num(n) \in ValuesOf(type)
    BY <1>1, <1>4, ScalarCases DEF NumsOf, Kinds
  <1>5. ASSUME type[1] \in IntKinds, kind \in IntKinds, u # Null,
               Signed(u[2], Width(type[1])), v = u
        PROVE  v \in ValuesOf(type)
    <2>1. u \notin NotFinite
      BY <1>5, ScalarCases DEF Kinds, NotFinite, NumsOf, Num
    <2>2. u[2] \in Ints(type[1]) /\ u = Num(u[2])
      BY <1>3, <1>5, <2>1, IntsType
    <2>3. QED
      BY <1>4, <1>5, <2>2
  <1>6. type[1] \in FloatKinds =>
          NotFinite \cup NumsOf(GridOf(type[1])) \subseteq ValuesOf(type)
    BY TypeCases, ScalarCases DEF FloatKinds, GridOf
  <1>7. \A n \in Int : Rounded(n, GridOf(type[1])) \in NotFinite \cup NumsOf(GridOf(type[1]))
    BY NumbersType DEF GridOf
  <1>8. type[1] \in FloatKinds /\ kind # "other" => kind \in IntKinds \cup FloatKinds
    BY AssignedCases DEF Castable, FloatKinds, Kinds
  <1>9. type[1] = "text" => TextValues \subseteq ValuesOf(type)
    BY TypeCases, ScalarCases DEF Kinds
  <1>10. CASE type[1] \in FloatKinds /\ kind # "other"
    BY <1>1, <1>2, <1>3, <1>6, <1>7, <1>8, <1>10, AssignedCases DEF FloatKinds, IntKinds
  <1>11. CASE ~(type[1] \in FloatKinds /\ kind # "other")
    <2>1. kind = type[1] => u \in ValuesOf(type)
      BY <1>1
    <2>2. type[1] \in FloatKinds => "other" \in {kind, type[1]}
      BY <1>11
    <2>3. "other" \in {kind, type[1]} => v \in ValuesOf(type)
      BY <1>1, <1>2, <1>9, AssignedCases DEF FloatKinds, IntKinds
    <2>4. QED
      BY <1>1, <1>2, <1>4, <1>5, <1>9, <2>1, <2>2, <2>3, AssignedCases
  <1>12. QED
    BY <1>10, <1>11

\* What encodeParam makes of a value that is bound without a type.
LEMMA BoundCases ==
  ASSUME NEW type \in Types, NEW js, NEW v \in Bound(type, js), v # Fail
  PROVE  \/ js[1] # "param" /\ v \in PlainWrites(type, js)
         \/ /\ js[1] = "param" /\ js[3] # Nothing
            /\ \E u \in Typed(js[3], js[2]) : u # Fail /\ v \in Assigned(js[3][1], type, u)
  <1>1. PICK p \in EncodeParam(js) : v \in Assigned(p[1], type, p[2])
    BY DEF Bound
  <1>2. CASE js[1] # "param"
    BY <1>1, <1>2 DEF EncodeParam, PlainWrites
  <1>3. CASE js[1] = "param" /\ js[3] = Nothing
    BY <1>1, <1>3, AssignedCases DEF EncodeParam
  <1>4. CASE js[1] = "param" /\ js[3] # Nothing
    <2>1. PICK u \in Typed(js[3], js[2]) : p = <<js[3][1], u>>
      BY <1>1, <1>4 DEF EncodeParam
    <2>2. QED
      BY <1>1, <1>4, <2>1, AssignedCases
  <1>5. QED
    BY <1>2, <1>3, <1>4

\* Whatever JavaScript writes, and whichever way, the column's type gets a
\* value of its own.
LEMMA WriteType ==
  ASSUME NEW type \in Types, NEW js \in JsValues, NEW v \in Writes(type, js), v # Fail
  PROVE  v \in ValuesOf(type)
  <1>1. CASE v \in PlainWrites(type, js)
    BY <1>1, PlainWriteType
  <1>2. ASSUME js[1] = "param", js[3] # Nothing,
               NEW u \in Typed(js[3], js[2]), u # Fail, v \in Assigned(js[3][1], type, u)
        PROVE  v \in ValuesOf(type)
    <2>1. js[2] \in JsLeaves /\ js[3] \in TypeNames
      <3>1. js \notin JsLeaves
        BY <1>2, LeafTags DEF Tags
      <3>2. QED
        BY <1>2, <3>1, StructureCases DEF JsValues
    <2>2. js[3] \in Types /\ js[3][1] \in Kinds /\ ValuesOf(js[3]) = ScalarValues(js[3][1])
      BY <1>2, <2>1 DEF TypeNames, Types, ValuesOf, Kinds, IntKinds, FloatKinds
    <2>3. js[2] \in JsValues
      BY <2>1 DEF JsValues, Structures
    <2>4. u \in ScalarValues(js[3][1])
      BY <1>2, <2>2, <2>3, PlainWriteType DEF PlainWrites
    <2>5. QED
      BY <1>2, <2>2, <2>4, AssignedType
  <1>3. QED
    BY <1>1, <1>2, BoundCases DEF Writes, PlainWrites

-----------------------------------------------------------------------------
(***************************************************************************)
(* The losses.  A value that has been lost once is not lost further: Loses *)
(* is transitive.                                                          *)
(***************************************************************************)
LEMMA LeavesRoundOnce ==
  ASSUME NEW d \in JsonLeaves, NEW e \in RoundedLeaves(d)
  PROVE  /\ RoundedLeaves(e) \subseteq RoundedLeaves(d)
         /\ e \in {Null} \cup Bools \cup TextValues => e = d
         /\ e[1] \notin Tags
  <1>1. CASE d \in {Null} \cup Bools \cup TextValues
    BY <1>1 DEF RoundedLeaves, Null, Bools, TextValues, Tags
  <1>2. ASSUME NEW n \in Int, d = Num(n), d \in JsonNumbers
        PROVE  /\ RoundedLeaves(e) \subseteq RoundedLeaves(d)
               /\ e[1] = "num"
    <2>1. CASE Exact(n)
      BY <1>2, <2>1 DEF RoundedLeaves, Num
    <2>2. CASE ~Exact(n)
      <3>1. PICK y \in Doubles : Rounded(n, Doubles) = Num(y)
        BY <1>2, JsonNumberRounds DEF NumsOf
      <3>2. RoundedLeaves(d) = {Num(y), ToJsonValue(Num(y))}
        BY <1>2, <2>2, <3>1 DEF RoundedLeaves, Num
      <3>3. y \in Int /\ Rounded(y, Doubles) = Num(y)
        BY NumbersType, RoundedExact
      <3>4. RoundedLeaves(Num(y)) \subseteq {Num(y), ToJsonValue(Num(y))}
        BY <3>3 DEF RoundedLeaves, Num
      <3>5. CASE Whole(y) /\ y \in -Pow2[W8]..Pow2[W8]
        <4>1. ToJsonValue(Num(y)) = Num(Clamped(y))
          BY <3>5 DEF ToJsonValue, Num, NotFinite, Undefined
        <4>2. Exact(Clamped(y))
          BY <3>5, ClampedInside DEF Exact
        <4>3. RoundedLeaves(Num(Clamped(y))) = {Num(Clamped(y))}
          BY <4>2 DEF RoundedLeaves, Num
        <4>4. QED
          BY <3>2, <3>4, <4>1, <4>3 DEF Num
      <3>6. CASE ~(Whole(y) /\ y \in -Pow2[W8]..Pow2[W8])
        <4>1. ToJsonValue(Num(y)) = Num(y)
          BY <3>6 DEF ToJsonValue, Num, NotFinite, Undefined
        <4>2. QED
          BY <3>2, <3>4, <4>1 DEF Num
      <3>7. QED
        BY <3>5, <3>6
    <2>3. QED
      BY <2>1, <2>2
  <1>3. QED
    BY <1>1, <1>2, JsonLeafCases DEF Null, Bools, TextValues, Tags

\* The same of objects and arrays.
LEMMA DocsRoundOnce ==
  ASSUME NEW d \in JsonDocs, NEW e \in RoundedDocs(d)
  PROVE  /\ RoundedDocs(e) \subseteq RoundedDocs(d)
         /\ e \in {Null} \cup TextValues => e = d
         /\ e[1] = "param" => /\ d[1] = "param" /\ e[3] = d[3]
                             /\ d[2] \in JsonLeaves /\ e[2] \in RoundedDocs(d[2])
         /\ d \in JsonLeaves => e[1] # "param"
  <1>1. CASE d \in JsonLeaves
    <2>1. d[1] \notin Tags
      BY <1>1, LeafTags
    <2>2. e \in RoundedLeaves(d)
      BY <2>1 DEF RoundedDocs
    <2>3. QED
      BY <1>1, <2>1, <2>2, LeavesRoundOnce DEF RoundedDocs, Tags
  <1>2. CASE d \notin JsonLeaves
    <2>1. /\ d[1] \in Tags /\ d[2] \in JsonLeaves
          /\ \A y : /\ With(d, y)[1] = d[1] /\ With(d, y)[2] = y
                    /\ d[1] = "param" => With(d, y)[3] = d[3]
                    /\ \A z : With(With(d, y), z) = With(d, z)
      BY <1>2, StructureCases DEF JsonDocs
    <2>2. PICK y \in RoundedLeaves(d[2]) : e = With(d, y)
      BY <2>1 DEF RoundedDocs
    <2>3. RoundedDocs(e) = {With(d, z) : z \in RoundedLeaves(y)}
      BY <2>1, <2>2 DEF RoundedDocs
    <2>4. RoundedLeaves(y) \subseteq RoundedLeaves(d[2])
      BY <2>1, LeavesRoundOnce
    <2>5. RoundedDocs(e) \subseteq RoundedDocs(d)
      BY <2>1, <2>3, <2>4 DEF RoundedDocs
    <2>6. e \notin {Null} \cup TextValues
      BY <2>1, <2>2 DEF Null, TextValues, Tags
    <2>7. RoundedDocs(d[2]) = RoundedLeaves(d[2])
      BY <2>1, LeafTags DEF RoundedDocs
    <2>8. QED
      BY <1>2, <2>1, <2>2, <2>5, <2>6, <2>7
  <1>3. QED
    BY <1>1, <1>2

\* A document that is kept: what it loses further, it might have lost at once.
LEMMA KeptOnce ==
  ASSUME NEW d \in JsonDocs, NEW e \in JsonDocs, Kept(d, <<"json", e>>)
  PROVE  /\ \A w : Kept(e, w) => Kept(d, w)
         /\ \A w : Unpacked(e, w) => Unpacked(d, w)
         /\ StringsIn(e) \subseteq StringsIn(d)
         /\ d \in JsonLeaves => ~IsParam(e)
  <1>1. e = d \/ e \in RoundedDocs(d)
    BY DEF Kept, Null
  <1>2. \A x \in JsonDocs : \A y \in RoundedDocs(x) : \A w : Kept(y, w) => Kept(x, w)
    BY DocsRoundOnce DEF Kept
  <1>3. CASE e = d
    BY <1>3, LeafTags DEF IsParam, Tags
  <1>4. CASE e \in RoundedDocs(d)
    <2>1. ASSUME IsParam(e)
          PROVE  /\ IsParam(d) /\ d[2] \in JsonDocs /\ e[2] \in RoundedDocs(d[2])
                 /\ d \notin JsonLeaves
      BY <1>4, <2>1, DocsRoundOnce DEF IsParam, JsonDocs, Structures
    <2>2. \A w : Unpacked(e, w) => Unpacked(d, w)
      BY <1>2, <2>1 DEF Unpacked
    <2>3. ASSUME NEW t \in StringsIn(e) PROVE t \in StringsIn(d)
      <3>1. t \in Texts /\ <<"text", t>> \in TextValues
        BY DEF StringsIn, TextValues
      <3>2. CASE e = <<"text", t>>
        BY <1>4, <3>1, <3>2, DocsRoundOnce DEF StringsIn
      <3>3. CASE IsParam(e) /\ e[2] = <<"text", t>>
        <4>1. d[2] = <<"text", t>>
          BY <2>1, <3>1, <3>3, DocsRoundOnce
        <4>2. QED
          BY <2>1, <3>1, <3>3, <4>1 DEF StringsIn
      <3>4. QED
        BY <3>2, <3>3 DEF StringsIn
    <2>4. QED
      BY <1>2, <1>4, <2>1, <2>2, <2>3
  <1>5. QED
    BY <1>1, <1>3, <1>4

\* Strings that are texts of documents with strings in them.
LEMMA ReachStarts ==
  ASSUME NEW t \in Texts PROVE t \in Reach(t)
  BY DEF Reach

LEMMA ReachGoesOn ==
  ASSUME NEW t \in Texts, NEW u \in Reach(t), JsonText[u] # Nothing,
         NEW s \in StringsIn(JsonText[u])
  PROVE  Reach(s) \subseteq Reach(t)
  <1>1. ASSUME NEW S \in SUBSET Texts, t \in S, Closed(S) PROVE s \in S
    <2>1. u \in S
      BY <1>1 DEF Reach
    <2>2. QED
      BY <1>1, <2>1 DEF Closed
  <1>2. QED
    BY <1>1 DEF Reach

\* A document, and what a column has instead of it.
Lost(d, w) == Kept(d, w) \/ Unpacked(d, w) \/ ParsedTo(d, w)

\* Two losses in a row are one, of documents.
LEMMA DocsAreLostOnce ==
  ASSUME NEW d \in JsonDocs, NEW e \in JsonDocs, Lost(d, <<"json", e>>), NEW w, Lost(e, w)
  PROVE  Lost(d, w)
  <1> DEFINE v == <<"json", e>>
  <1>1. ASSUME NEW D \in JsonDocs, Kept(D, v)
        PROVE  /\ Kept(D, w) \/ Unpacked(D, w) \/ ParsedTo(e, w)
               /\ StringsIn(e) \subseteq StringsIn(D)
    BY <1>1, KeptOnce DEF Lost
  <1>2. ASSUME NEW D \in JsonDocs, Unpacked(D, v)
        PROVE  /\ Unpacked(D, w) \/ ParsedTo(e, w)
               /\ StringsIn(e) \subseteq StringsIn(D)
    <2>1. IsParam(D) /\ Kept(D[2], v)
      BY <1>2 DEF Unpacked
    <2>2. D[2] \in JsonLeaves
      <3>1. D \notin JsonLeaves
        BY <2>1, LeafTags DEF IsParam, Tags
      <3>2. QED
        BY <3>1, StructureCases DEF JsonDocs
    <2>3. D[2] \in JsonDocs /\ ~IsParam(D[2])
      BY <2>2, LeafTags DEF JsonDocs, Structures, IsParam, Tags
    <2>4. Kept(D[2], w) \/ ParsedTo(e, w)
      BY <2>1, <2>2, <2>3, KeptOnce DEF Lost, Unpacked
    <2>5. StringsIn(e) \subseteq StringsIn(D[2])
      BY <2>1, <2>3, KeptOnce
    <2>6. QED
      BY <2>1, <2>3, <2>4, <2>5 DEF Unpacked, StringsIn
  <1>3. CASE Kept(d, v) \/ Unpacked(d, v)
    BY <1>1, <1>2, <1>3 DEF Lost, ParsedTo
  <1>4. CASE ParsedTo(d, v)
    <2>1. PICK t, u :
            /\ t \in StringsIn(d) /\ u \in Reach(t)
            /\ JsonText[u] # Nothing /\ (Kept(JsonText[u], v) \/ Unpacked(JsonText[u], v))
      BY <1>4 DEF ParsedTo
    <2>2. t \in Texts /\ u \in Texts /\ JsonText[u] \in JsonDocs
      BY <2>1, JsonTextAssumption DEF StringsIn, Reach
    <2>3. CASE Kept(JsonText[u], w) \/ Unpacked(JsonText[u], w)
      BY <2>1, <2>3 DEF Lost, ParsedTo
    <2>4. CASE ParsedTo(e, w)
      <3>1. PICK s, r :
              /\ s \in StringsIn(e) /\ r \in Reach(s)
              /\ JsonText[r] # Nothing /\ (Kept(JsonText[r], w) \/ Unpacked(JsonText[r], w))
        BY <2>4 DEF ParsedTo
      <3>2. s \in StringsIn(JsonText[u])
        BY <1>1, <1>2, <2>1, <2>2, <3>1
      <3>3. r \in Reach(t)
        BY <2>1, <2>2, <3>1, <3>2, ReachGoesOn
      <3>4. QED
        BY <2>1, <3>1, <3>3 DEF Lost, ParsedTo
    <2>5. QED
      BY <1>1, <1>2, <2>1, <2>2, <2>3, <2>4
  <1>5. QED
    BY <1>3, <1>4 DEF Lost

\* A value of a float column that is a number is a number of its grid.
LEMMA FloatValues ==
  ASSUME NEW type \in Types, type[1] \in FloatKinds, NEW v \in ValuesOf(type), v[1] = "num"
  PROVE  v[2] \in GridOf(type[1]) /\ v[2] \in Int /\ v = Num(v[2])
  <1>1. v \in NumsOf(GridOf(type[1]))
    BY TypeCases, ScalarCases DEF FloatKinds, GridOf, Null, NotFinite
  <1>2. GridOf(type[1]) \in SUBSET Int
    BY NumbersType DEF GridOf
  <1>3. QED
    BY <1>1, <1>2 DEF NumsOf, Num

\* A value of a jsonb column is a document.
LEMMA JsonValues ==
  ASSUME NEW v \in ValuesOf(<<"json">>)
  PROVE  v = Null \/ \E d \in JsonDocs : v = <<"json", d>>
  <1>1. <<"json">> \in Types /\ "json" \in Kinds
    BY DEF Types, Kinds
  <1>2. ValuesOf(<<"json">>) = ScalarValues("json")
    BY DEF ValuesOf
  <1>3. QED
    BY <1>1, <1>2, ScalarCases

\* What is lost is lost at once: two losses in a row are one.
THEOREM LossesAreStable ==
  ASSUME NEW type \in Types, NEW a \in ValuesOf(type), NEW b \in ValuesOf(type), NEW c,
         a = b \/ Loses(type, a, b), b = c \/ Loses(type, b, c)
  PROVE  a = c \/ Loses(type, a, c)
  <1>1. CASE a = b \/ b = c
    BY <1>1
  <1>2. CASE Saturated(type, a, b) /\ Loses(type, b, c)
    <2> DEFINE grid == GridOf(type[1])
               n == a[2]
               x == b[2]
    <2>1. /\ type[1] \in FloatKinds /\ a[1] = "num" /\ Whole(n) /\ ~Signed(n, W8)
          /\ b = Rounded(Clamped(n), grid)
      BY <1>2 DEF Saturated, GridOf
    <2>2. Saturated(type, b, c)
      BY <1>2, <2>1 DEF Loses, JsonLost, FieldLost, FloatKinds
    <2>3. b[1] = "num" /\ Whole(x) /\ ~Signed(x, W8) /\ c = Rounded(Clamped(x), grid)
      BY <2>2 DEF Saturated, GridOf
    <2>4. n \in Int /\ x \in Int /\ b = Num(x)
      BY <2>1, <2>3, FloatValues
    <2>5. grid \in {Floats, Doubles}
      BY DEF GridOf
    <2> HIDE DEF grid, n, x
    <2>6. Clamped(x) = Clamped(n)
      BY <2>1, <2>3, <2>4, <2>5, SaturationIsStable
    <2>7. c = b
      BY <2>1, <2>3, <2>6
    <2>8. QED
      BY <1>2, <2>7 DEF Loses
  <1>3. CASE JsonLost(type, a, b) /\ Loses(type, b, c)
    <2>1. type = <<"json">> /\ a # Null
      BY <1>3 DEF JsonLost
    <2>2. JsonLost(type, b, c)
      BY <1>3, <2>1 DEF Loses, Saturated, FieldLost, FloatKinds
    <2>3. PICK d \in JsonDocs, e \in JsonDocs : a = <<"json", d>> /\ b = <<"json", e>>
      BY <2>1, <2>2, JsonValues DEF JsonLost
    <2>4. Lost(d, <<"json", e>>) /\ Lost(e, c)
      BY <1>3, <2>2, <2>3 DEF JsonLost, Lost
    <2>5. QED
      BY <2>1, <2>3, <2>4, DocsAreLostOnce DEF Loses, JsonLost, Lost
  <1>4. CASE FieldLost(type, a, b) /\ Loses(type, b, c)
    BY <1>4 DEF FieldLost, Loses, Saturated, JsonLost, FloatKinds, NotFinite, Null
  <1>5. QED
    BY <1>1, <1>2, <1>3, <1>4 DEF Loses

-----------------------------------------------------------------------------
(***************************************************************************)
(* Round trips: what is written, after it has been read.                   *)
(***************************************************************************)
\* An i64 or u64 is read as a number if it is a safe integer, and as a bigint
\* else.
LEMMA IntRead ==
  ASSUME NEW n \in Int, Exact(n)
  PROVE  /\ IntToJs(n) \in JsLeaves /\ NumberOf(IntToJs(n), n)
         /\ IntToJs(n)[1] = "num" => Signed(n, W8)
  <1>1. /\ Pow2[W8] \in Nat /\ Pow2[P8] \in Nat /\ 4 * Pow2[P8] <= Pow2[W8]
        /\ Pow2[P8 + 1] = 2 * Pow2[P8] /\ Pow2[W8 + 1] = 2 * Pow2[W8]
    BY Widths
  <1>2. Whole(n) /\ -Pow2[W8] <= n /\ n < 2 * Pow2[W8]
    BY <1>1 DEF Exact, Signed, Unsigned
  <1>3. CASE n \in -(Pow2[P8 + 1] - 1)..(Pow2[P8 + 1] - 1)
    <2>1. n \in Doubles
      BY <1>1, <1>2, <1>3, SafeIsDouble
    <2>2. Num(n) \in JsLeaves
      BY <2>1 DEF JsLeaves, JsNumbers, NumsOf
    <2>3. Signed(n, W8)
      BY <1>1, <1>2, <1>3 DEF Signed
    <2>4. QED
      BY <1>3, <2>2, <2>3 DEF IntToJs, NumberOf
  <1>4. CASE n \notin -(Pow2[P8 + 1] - 1)..(Pow2[P8 + 1] - 1)
    <2>1. PICK i \in Int : n = 2 * i
      BY <1>2 DEF Whole
    <2>2. i \in -Pow2[W8]..Pow2[W8]
      BY <1>1, <1>2, <2>1
    <2>3. <<"big", n>> \in JsLeaves
      BY <2>1, <2>2 DEF JsLeaves, JsNumbers, Bigs
    <2>4. QED
      BY <1>4, <2>3 DEF IntToJs, NumberOf
  <1>5. QED
    BY <1>3, <1>4

\* A value of an integer column is an i64.
LEMMA IntColumnRead ==
  ASSUME NEW kind \in IntKinds, NEW n \in Ints(kind)
  PROVE  n \in Int /\ Exact(n) /\ Signed(n, Width(kind))
  BY WidthType, Widths DEF Ints, Signed, Exact

\* A leaf of jsonb.
LEMMA JsonLeafRead ==
  ASSUME NEW d \in JsonLeaves
  PROVE  /\ JsonLeafToJs(d) \in JsLeaves
         /\ d \in {Null} \cup Bools \cup TextValues => JsonLeafToJs(d) = d
         /\ \A n \in Int : d = Num(n) =>
              \/ /\ Exact(n) /\ NumberOf(JsonLeafToJs(d), n)
                 /\ JsonLeafToJs(d)[1] = "num" => Signed(n, W8)
              \/ /\ ~Exact(n) /\ JsonLeafToJs(d) = Rounded(n, Doubles)
                 /\ JsonLeafToJs(d) \in NumsOf(Doubles)
  <1>1. CASE d \in {Null} \cup Bools \cup TextValues
    BY <1>1 DEF JsonLeafToJs, JsLeaves, Null, Bools, TextValues, Num
  <1>2. ASSUME NEW n \in Int, d = Num(n), d \in JsonNumbers
        PROVE  /\ d \notin {Null} \cup Bools \cup TextValues
               /\ JsonLeafToJs(d) \in JsLeaves
               /\ \/ /\ Exact(n) /\ NumberOf(JsonLeafToJs(d), n)
                     /\ JsonLeafToJs(d)[1] = "num" => Signed(n, W8)
                  \/ /\ ~Exact(n) /\ JsonLeafToJs(d) = Rounded(n, Doubles)
                     /\ JsonLeafToJs(d) \in NumsOf(Doubles)
               /\ \A m \in Int : d = Num(m) => m = n
    <2>1. d[1] = "num" /\ d[2] = n /\ d \notin {Null} \cup Bools \cup TextValues
      BY <1>2 DEF Num, Null, Bools, TextValues
    <2>2. \A m \in Int : d = Num(m) => m = n
      BY <1>2 DEF Num
    <2>3. CASE Exact(n)
      <3>1. JsonLeafToJs(d) = IntToJs(n)
        BY <2>1, <2>3 DEF JsonLeafToJs
      <3>2. QED
        BY <2>1, <2>2, <2>3, <3>1, IntRead
    <2>4. CASE ~Exact(n)
      <3>1. JsonLeafToJs(d) = Rounded(n, Doubles)
        BY <2>1, <2>4 DEF JsonLeafToJs
      <3>2. JsonLeafToJs(d) \in NumsOf(Doubles)
        BY <1>2, <3>1, JsonNumberRounds
      <3>3. QED
        BY <2>1, <2>2, <2>4, <3>1, <3>2 DEF JsLeaves, JsNumbers
    <2>5. QED
      BY <2>3, <2>4
  <1>3. CASE \E n \in Int : d = Num(n) /\ d \in JsonNumbers
    BY <1>2, <1>3
  <1>4. CASE d \in {Null} \cup Bools \cup TextValues
    <2>1. \A n \in Int : d # Num(n)
      BY <1>4 DEF Num, Null, Bools, TextValues
    <2>2. QED
      BY <1>1, <1>4, <2>1
  <1>5. QED
    BY <1>3, <1>4, JsonLeafCases

\* jsonb, as it is read.
LEMMA JsonRead ==
  ASSUME NEW d \in JsonDocs
  PROVE  /\ d \in JsonLeaves => JsonToJs(d) = JsonLeafToJs(d) /\ JsonToJs(d) \in JsLeaves
         /\ d \notin JsonLeaves => /\ d[1] \in Tags /\ d[2] \in JsonLeaves
                                  /\ JsonToJs(d) = With(d, JsonLeafToJs(d[2]))
                                  /\ JsonLeafToJs(d[2]) \in JsLeaves
         /\ JsonToJs(d) \in JsValues
  <1>1. CASE d \in JsonLeaves
    <2>1. JsonToJs(d) = JsonLeafToJs(d)
      BY <1>1, LeafTags DEF JsonToJs
    <2>2. QED
      BY <1>1, <2>1, JsonLeafRead DEF JsValues, Structures
  <1>2. CASE d \notin JsonLeaves
    <2>1. /\ d[1] \in Tags /\ d[2] \in JsonLeaves
          /\ \A y \in JsLeaves : With(d, y) \in JsValues
      BY <1>2, StructureCases DEF JsonDocs, JsValues
    <2>2. JsonToJs(d) = With(d, JsonLeafToJs(d[2]))
      BY <2>1 DEF JsonToJs
    <2>3. QED
      BY <1>2, <2>1, <2>2, JsonLeafRead
  <1>3. QED
    BY <1>1, <1>2

\* The scalar values, as they are read.
LEMMA ScalarRead ==
  ASSUME NEW kind \in Kinds, NEW w \in ScalarValues(kind), w # Null
  PROVE  /\ kind \in IntKinds =>
              \E n \in Ints(kind) : /\ w = Num(n) /\ NumberOf(ScalarToJs(kind, w), n)
                                    /\ ScalarToJs(kind, w) \in JsLeaves
         /\ kind \in FloatKinds \cup {"bool", "text"} =>
              ScalarToJs(kind, w) = w /\ w \in JsLeaves
         /\ kind = "json" =>
              \E d \in JsonDocs : w = <<"json", d>> /\ ScalarToJs(kind, w) = JsonToJs(d)
         /\ kind = "other" => ScalarToJs(kind, w) = <<"out", w>>
  <1>1. CASE kind = "int8"
    <2>1. PICK n \in Ints(kind) : w = Num(n)
      BY <1>1, ScalarCases DEF IntKinds, NumsOf
    <2>2. ScalarToJs(kind, w) = IntToJs(n)
      BY <1>1, <2>1 DEF ScalarToJs, Num
    <2>3. QED
      BY <1>1, <2>1, <2>2, IntColumnRead, IntRead DEF IntKinds, FloatKinds
  <1>2. CASE kind \in {"int2", "int4"}
    <2>1. PICK n \in Ints(kind) : w = Num(n)
      BY <1>2, ScalarCases DEF IntKinds, NumsOf
    <2>2. ScalarToJs(kind, w) = w
      BY <1>2 DEF ScalarToJs
    <2>3. n \in Doubles
      <3>1. n \in Int /\ Signed(n, Width(kind)) /\ Pow2[Width(kind)] <= Pow2[P8] /\ Pow2[P8] \in Nat
        BY <1>2, IntColumnRead, WidthType, Widths DEF IntKinds
      <3>2. Whole(n) /\ -(2 * Pow2[P8]) < n /\ n < 2 * Pow2[P8]
        BY <1>2, <3>1, WidthType, Widths DEF Signed, IntKinds
      <3>3. QED
        BY <3>1, <3>2, SafeIsDouble
    <2>4. w \in JsLeaves
      BY <2>1, <2>3 DEF JsLeaves, JsNumbers, NumsOf
    <2>5. QED
      BY <1>2, <2>1, <2>2, <2>4 DEF NumberOf, FloatKinds
  <1>3. CASE kind \in FloatKinds \cup {"bool", "text"}
    <2>1. ScalarToJs(kind, w) = w
      BY <1>3 DEF ScalarToJs, FloatKinds
    <2>2. w \in JsLeaves
      BY <1>3, ScalarCases, NumbersType DEF FloatKinds, JsLeaves, JsNumbers, NumsOf
    <2>3. QED
      BY <1>3, <2>1, <2>2 DEF FloatKinds, IntKinds
  <1>4. CASE kind = "json"
    <2>1. PICK d \in JsonDocs : w = <<"json", d>>
      BY <1>4, ScalarCases
    <2>2. QED
      BY <1>4, <2>1 DEF ScalarToJs, IntKinds, FloatKinds
  <1>5. CASE kind = "other"
    BY <1>5 DEF ScalarToJs, IntKinds, FloatKinds
  <1>6. QED
    BY <1>1, <1>2, <1>3, <1>4, <1>5 DEF Kinds, IntKinds, FloatKinds

\* A value of a column, as it is read: as what its kind is read as, or a row
\* as an object of one field, or as its text.
LEMMA ReadCases ==
  ASSUME NEW type \in Types, NEW w \in ValuesOf(type), NEW js \in Reads(type, w)
  PROVE  \/ w = Null /\ js = Null
         \/ /\ w # Null /\ type[1] \in Kinds /\ type[1] # "row" /\ w \in ScalarValues(type[1])
            /\ js = ScalarToJs(type[1], w)
         \/ /\ w # Null /\ type[1] = "row" /\ type[2] \in {"int8", "float8"}
            /\ type = <<"row", type[2]>>
            /\ \E x \in ScalarValues(type[2]) :
                 w = <<"row", x>> /\ js \in {<<"out", w>>, <<"obj", ScalarToJs(type[2], x)>>}
  <1>1. CASE w = Null
    BY <1>1 DEF Reads, ArgumentToJs, ColumnToJs, ScalarToJs
  <1>2. CASE w # Null /\ type[1] # "row"
    BY <1>2, TypeCases DEF Reads, ArgumentToJs, ColumnToJs
  <1>3. CASE w # Null /\ type[1] = "row"
    BY <1>3, TypeCases DEF Reads, ArgumentToJs, ColumnToJs, Kinds, IntKinds, FloatKinds
  <1>4. QED
    BY <1>1, <1>2, <1>3

\* What is read is a value of JavaScript, or the text of what is stored.
LEMMA ReadType ==
  ASSUME NEW type \in Types, NEW w \in ValuesOf(type), NEW js \in Reads(type, w)
  PROVE  js \in JsValues \/ (js = <<"out", w>> /\ type[1] \in {"other", "row"})
  <1>1. CASE w = Null /\ js = Null
    BY <1>1 DEF JsValues, JsLeaves, Structures
  <1>2. CASE /\ w # Null /\ type[1] \in Kinds /\ w \in ScalarValues(type[1])
             /\ js = ScalarToJs(type[1], w)
    <2>1. CASE type[1] \in IntKinds \cup FloatKinds \cup {"bool", "text"}
      <3>1. js \in JsLeaves
        BY <1>2, <2>1, ScalarRead
      <3>2. QED
        BY <3>1 DEF JsValues, Structures
    <2>2. CASE type[1] = "json"
      BY <1>2, <2>2, ScalarRead, JsonRead
    <2>3. CASE type[1] = "other"
      BY <1>2, <2>3, ScalarRead
    <2>4. QED
      BY <1>2, <2>1, <2>2, <2>3 DEF Kinds
  <1>3. ASSUME type[1] = "row", type[2] \in {"int8", "float8"},
               NEW x \in ScalarValues(type[2]), js = <<"obj", ScalarToJs(type[2], x)>>
        PROVE  js \in JsValues
    <2>1. ScalarToJs(type[2], x) \in JsLeaves
      <3>1. CASE x = Null
        BY <3>1 DEF ScalarToJs, JsLeaves
      <3>2. CASE x # Null
        BY <1>3, <3>2, ScalarRead DEF Kinds, IntKinds, FloatKinds
      <3>3. QED
        BY <3>1, <3>2
    <2>2. QED
      BY <1>3, <2>1 DEF JsValues, Structures
  <1>4. QED
    BY <1>1, <1>2, <1>3, ReadCases

-----------------------------------------------------------------------------
\* A round trip of a jsonb number, boolean or string, on its own.
LEMMA JsonLeafTrip ==
  ASSUME NEW d \in JsonLeaves, NEW v \in PlainWrites(<<"json">>, JsonLeafToJs(d)), v # Fail
  PROVE  \/ d = Null /\ v = Null
         \/ d \in TextValues /\ v \in {<<"json", d>>, Document(d[2])}
         \/ \E x \in RoundedLeaves(d) : v = <<"json", x>>
  <1> DEFINE js == JsonLeafToJs(d)
  <1>1. <<"json">> \in Types /\ <<"json">>[1] = "json"
    BY DEF Types, Kinds
  <1>2. CASE d = Null
    <2>1. js = Null
      BY <1>2, JsonLeafRead
    <2>2. QED
      BY <1>1, <1>2, <2>1, NothingWritten
  <1>3. CASE d \in Bools
    <2>1. js = d /\ d \in RoundedLeaves(d)
      BY <1>3, JsonLeafRead DEF RoundedLeaves, Bools
    <2>2. QED
      BY <1>1, <1>3, <2>1, BoolWritten
  <1>4. ASSUME NEW n \in Int, d = Num(n)
        PROVE  \E x \in RoundedLeaves(d) : v = <<"json", x>>
    <2>1. "json" \notin IntKinds \cup FloatKinds
      BY DEF IntKinds, FloatKinds
    <2>2. CASE Exact(n) /\ NumberOf(js, n)
      <3>1. v = <<"json", Num(n)>>
        BY <1>1, <2>1, <2>2, NumberWritten
      <3>2. d \in RoundedLeaves(d)
        BY <1>4, <2>2 DEF RoundedLeaves, Num
      <3>3. QED
        BY <1>4, <3>1, <3>2
    <2>3. CASE ~Exact(n) /\ js = Rounded(n, Doubles) /\ js \in NumsOf(Doubles)
      <3>1. PICK y \in Doubles : js = Num(y)
        BY <2>3 DEF NumsOf
      <3>2. y \in Int /\ NumberOf(js, y)
        BY <3>1, NumbersType DEF NumberOf
      <3>3. v = <<"json", js>>
        BY <1>1, <2>1, <3>1, <3>2, NumberWritten
      <3>4. js \in RoundedLeaves(d)
        BY <1>4, <2>3 DEF RoundedLeaves, Num
      <3>5. QED
        BY <3>3, <3>4
    <2>4. QED
      BY <1>4, <2>2, <2>3, JsonLeafRead
  <1>5. CASE d \in TextValues
    BY <1>1, <1>5, JsonLeafRead, TextToJson
  <1>6. QED
    BY <1>2, <1>3, <1>4, <1>5, JsonLeafCases

\* On its own or in an object {type, value}, a leaf is kept or parsed.
LEMMA LeafKept ==
  ASSUME NEW d \in JsonLeaves, NEW v \in PlainWrites(<<"json">>, JsonLeafToJs(d)), v # Fail
  PROVE  \/ Kept(d, v)
         \/ \E t \in Texts : /\ d = <<"text", t>> /\ t \in Reach(t)
                            /\ JsonText[t] # Nothing /\ Kept(JsonText[t], v)
  <1>1. RoundedDocs(d) = RoundedLeaves(d)
    BY LeafTags DEF RoundedDocs
  <1>2. CASE d \in TextValues /\ v = Document(d[2])
    <2>1. PICK t \in Texts : d = <<"text", t>>
      BY <1>2 DEF TextValues
    <2>2. JsonText[t] # Nothing /\ v = <<"json", JsonText[t]>>
      BY <1>2, <2>1 DEF Document
    <2>3. QED
      BY <2>1, <2>2, ReachStarts DEF Kept
  <1>3. QED
    BY <1>1, <1>2, JsonLeafTrip DEF Kept

\* And inside an object or array.
LEMMA JsonInnerTrip ==
  ASSUME NEW d \in JsonLeaves,
         NEW y \in ToValue(JsonLeafToJs(d)) \cup {ToJsonValue(JsonLeafToJs(d))},
         y \in JsonLeaves
  PROVE  y \in RoundedLeaves(d)
  <1> DEFINE js == JsonLeafToJs(d)
  <1>1. js \in JsLeaves /\ y # Fail
    BY JsonLeafRead, JsonLeafCases DEF Fail, Null, Num, Bools, TextValues
  <1>2. CASE d \in {Null} \cup Bools \cup TextValues
    <2>1. js = d /\ d \in RoundedLeaves(d)
      BY <1>2, JsonLeafRead DEF RoundedLeaves, Null, Bools, TextValues
    <2>2. \A n \in Int : d # Num(n)
      BY <1>2 DEF Num, Null, Bools, TextValues
    <2>3. y = d
      BY <1>1, <1>2, <2>1, <2>2, LeafToValue, LeafToJsonValue
    <2>4. QED
      BY <2>1, <2>3
  <1>3. ASSUME NEW n \in Int, d = Num(n) PROVE y \in RoundedLeaves(d)
    <2>1. CASE Exact(n) /\ NumberOf(js, n) /\ (js[1] = "num" => Signed(n, W8))
      <3>1. d \in RoundedLeaves(d)
        BY <1>3, <2>1 DEF RoundedLeaves, Num
      <3>2. CASE y \in ToValue(js)
        BY <1>1, <1>3, <2>1, <3>1, <3>2, LeafToValue
      <3>3. CASE y = ToJsonValue(js)
        <4>1. PICK m \in Int : /\ js = Num(m)
                               /\ \/ ToJsonValue(js) = js
                                  \/ m = Pow2[W8] /\ ToJsonValue(js) = Num(Clamped(m))
          <5>1. js \notin {Null} \cup Bools \cup TextValues
            BY <2>1 DEF NumberOf, Num, Null, Bools, TextValues
          <5>2. QED
            BY <1>1, <3>3, <5>1, LeafToJsonValue
        <4>2. m = n /\ js[1] = "num"
          BY <2>1, <4>1 DEF NumberOf, Num
        <4>3. n # Pow2[W8]
          BY <2>1, <4>2, Widths DEF Signed
        <4>4. QED
          BY <1>3, <3>1, <3>3, <4>1, <4>2, <4>3
      <3>4. QED
        BY <3>2, <3>3
    <2>2. CASE ~Exact(n) /\ js = Rounded(n, Doubles) /\ js \in NumsOf(Doubles)
      <3>1. RoundedLeaves(d) = {js, ToJsonValue(js)}
        BY <1>3, <2>2 DEF RoundedLeaves, Num
      <3>2. PICK m \in Doubles : js = Num(m)
        BY <2>2 DEF NumsOf
      <3>3. m \in Int /\ NumberOf(js, m)
        BY <3>2, NumbersType DEF NumberOf
      <3>4. y \in ToValue(js) => y = js
        BY <1>1, <3>2, <3>3, LeafToValue
      <3>5. QED
        BY <3>1, <3>4
    <2>3. QED
      BY <1>3, <2>1, <2>2, JsonLeafRead
  <1>4. QED
    BY <1>2, <1>3, JsonLeafCases

\* A jsonb value, read and written.
LEMMA JsonTrip ==
  ASSUME NEW d \in JsonDocs, NEW v \in Writes(<<"json">>, JsonToJs(d)), v # Fail
  PROVE  JsonLost(<<"json">>, <<"json", d>>, v)
  <1> DEFINE js == JsonToJs(d)
  <1>1. <<"json">> \in Types /\ <<"json">>[1] = "json"
    BY DEF Types, Kinds
  <1>2. CASE d \in JsonLeaves
    <2>1. js = JsonLeafToJs(d) /\ js[1] # "param"
      BY <1>2, JsonRead, LeafTags DEF Tags
    <2>2. v \in PlainWrites(<<"json">>, JsonLeafToJs(d))
      BY <1>1, <2>1, BoundCases DEF Writes, PlainWrites
    <2>3. Lost(d, v)
      BY <1>2, <2>2, LeafKept DEF Lost, ParsedTo, StringsIn
    <2>4. QED
      BY <2>3 DEF Lost, JsonLost, Null
  <1>3. CASE d \notin JsonLeaves
    <2> DEFINE x == JsonLeafToJs(d[2])
    <2>1. d[1] \in Tags /\ d[2] \in JsonLeaves /\ js = With(d, x) /\ x \in JsLeaves
      BY <1>3, JsonRead
    <2>2. /\ js[1] = d[1] /\ js[2] = x /\ (d[1] = "param" => js[3] = d[3] /\ d[3] \in TypeNames)
          /\ \A y : With(js, y) = With(d, y)
      BY <1>3, <2>1, StructureCases DEF JsonDocs
    <2>3. js \in JsValues /\ js \notin JsLeaves
      BY <2>1, <2>2, JsonRead, LeafTags
    <2> HIDE DEF js, x
    <2>4. CASE v \in PlainWrites(<<"json">>, js)
      <3>1. PICK y \in JsonLeaves : v = <<"json", With(d, y)>> /\ y \in ToValue(x) \cup {ToJsonValue(x)}
        BY <1>1, <2>2, <2>3, <2>4, StructWritten
      <3>2. y \in RoundedLeaves(d[2])
        BY <2>1, <3>1, JsonInnerTrip DEF x
      <3>3. Kept(d, v)
        BY <2>1, <3>1, <3>2 DEF Kept, RoundedDocs
      <3>4. QED
        BY <3>3 DEF JsonLost, Null
    <2>5. ASSUME js[1] = "param", js[3] # Nothing,
                 NEW u \in Typed(js[3], js[2]), u # Fail, v \in Assigned(js[3][1], <<"json">>, u)
          PROVE  JsonLost(<<"json">>, <<"json", d>>, v)
      <3>1. PICK kind \in Kinds : d[3] = <<kind>>
        BY <2>2, <2>5 DEF TypeNames
      <3>2. kind = "json"
        <4>1. Castable(kind, "json")
          BY <1>1, <2>2, <2>5, <3>1, AssignedCases
        <4>2. QED
          BY <4>1, <3>1 DEF Castable, Kinds, IntKinds, FloatKinds
      <3>3. IsParam(d)
        BY <2>2, <2>5, <3>1, <3>2 DEF IsParam
      <3>4. u \in PlainWrites(<<"json">>, x)
        BY <2>2, <2>5, <3>1, <3>2 DEF PlainWrites
      <3>5. u = v
        <4>1. u \in ValuesOf(<<"json">>)
          BY <1>1, <2>1, <2>5, <3>4, PlainWriteType DEF JsValues, Structures
        <4>2. u[1] # "out"
          BY <4>1, JsonValues DEF Null
        <4>3. v \in Assigned("json", <<"json">>, u)
          BY <2>2, <2>5, <3>1, <3>2
        <4>4. QED
          BY <1>1, <4>2, <4>3, AssignedCases DEF IntKinds, FloatKinds
      <3>6. Kept(d[2], v) \/ ParsedTo(d, v)
        BY <2>1, <2>5, <3>3, <3>4, <3>5, LeafKept DEF ParsedTo, StringsIn, x
      <3>7. QED
        BY <3>3, <3>6 DEF JsonLost, Unpacked, Null
    <2>6. QED
      BY <1>1, <2>4, <2>5, BoundCases DEF Writes, PlainWrites, js
  <1>4. QED
    BY <1>2, <1>3

\* A row, read as an object and returned: a field that is a number or NULL is
\* what it was, and NaN and infinity are NULL.
LEMMA RowTrip ==
  ASSUME NEW kind \in {"int8", "float8"}, NEW x \in ScalarValues(kind),
         NEW v \in PlainWrites(<<"row", kind>>, <<"obj", ScalarToJs(kind, x)>>), v # Fail
  PROVE  v = <<"row", x>> \/ FieldLost(<<"row", kind>>, <<"row", x>>, v)
  <1> DEFINE type == <<"row", kind>>
             field == ScalarToJs(kind, x)
  <1>1. type \in Types /\ type[1] = "row" /\ type[2] = kind /\ kind \in Kinds
    BY DEF Types, Kinds, IntKinds, FloatKinds
  <1>2. x = Null => field = Null
    BY DEF ScalarToJs
  <1>3. field \in JsLeaves
    BY <1>1, <1>2, ScalarRead DEF JsLeaves, IntKinds, FloatKinds
  <1>4. v \in BuildRow(kind, field)
    <2> DEFINE js == <<"obj", field>>
    <2>1. js \in JsValues /\ js[1] = "obj" /\ js[2] = field
      BY <1>3 DEF JsValues, Structures
    <2>2. js \notin JsLeaves
      BY <2>1, LeafTags DEF Tags
    <2> HIDE DEF js
    <2>3. v \in PlainWrites(type, js)
      BY DEF js
    <2> HIDE DEF type, field
    <2>4. QED
      BY <1>1, <2>1, <2>2, <2>3, StructWritten
  <1> HIDE DEF type, field
  <1>5. PICK u \in ScalarValues(kind) :
          /\ v = <<"row", u>>
          /\ field \in {Null, Undefined} \cup NotFinite => u = Null
          /\ \A n \in Int : NumberOf(field, n) =>
                              u = (IF kind = "int8" THEN Num(n) ELSE Rounded(n, Doubles))
    BY <1>3, <1>4, RowBuilt
  <1>6. CASE x = Null
    BY <1>2, <1>5, <1>6
  <1>7. CASE x # Null /\ kind = "int8"
    <2>1. PICK n \in Ints(kind) : x = Num(n) /\ NumberOf(field, n)
      BY <1>1, <1>7, ScalarRead DEF field, IntKinds
    <2>2. n \in Int
      BY <1>7, IntColumnRead DEF IntKinds
    <2>3. QED
      BY <1>5, <1>7, <2>1, <2>2
  <1>8. CASE kind = "float8" /\ x \in NotFinite
    <2>1. field = x
      BY <1>1, <1>8, ScalarRead DEF field, FloatKinds, NotFinite, Null
    <2>2. v = <<"row", Null>>
      BY <1>5, <1>8, <2>1
    <2>3. QED
      BY <1>8, <2>2 DEF FieldLost, Null
  <1>9. ASSUME kind = "float8", NEW n \in Doubles, x = Num(n) PROVE v = <<"row", x>>
    <2>1. field = x
      BY <1>1, <1>9, ScalarRead DEF field, FloatKinds, Num, Null
    <2>2. n \in Int /\ NumberOf(field, n) /\ Rounded(n, Doubles) = Num(n)
      BY <1>9, <2>1, NumbersType, RoundedExact DEF NumberOf
    <2>3. QED
      BY <1>5, <1>9, <2>2
  <1>10. QED
    <2>1. kind = "float8" => x \in {Null} \cup NotFinite \cup NumsOf(Doubles)
      BY <1>1, ScalarCases
    <2>2. QED
      BY <1>6, <1>7, <1>8, <1>9, <2>1 DEF NumsOf

\* A float, read and written.
LEMMA FloatTrip ==
  ASSUME NEW type \in Types, type[1] \in FloatKinds, NEW w \in ValuesOf(type), w # Null,
         NEW v \in PlainWrites(type, w), v # Fail
  PROVE  v = w \/ Saturated(type, w, v)
  <1>1. w \in NotFinite \/ \E n \in GridOf(type[1]) : w = Num(n)
    BY TypeCases, ScalarCases DEF FloatKinds, GridOf, NumsOf
  <1>2. CASE w \in NotFinite
    BY <1>2, NotFiniteWritten
  <1>3. ASSUME NEW n \in GridOf(type[1]), w = Num(n) PROVE v = w \/ Saturated(type, w, v)
    <2>1. n \in Int /\ Rounded(n, GridOf(type[1])) = w
      BY <1>3, NumbersType, RoundedExact DEF GridOf
    <2>2. \/ v = Rounded(n, GridOf(type[1]))
          \/ Whole(n) /\ ~Signed(n, W8) /\ v = Rounded(Clamped(n), GridOf(type[1]))
      BY <1>3, <2>1, FloatWritten DEF NumberOf
    <2>3. QED
      BY <1>3, <2>1, <2>2 DEF Saturated, GridOf, Num
  <1>4. QED
    BY <1>1, <1>2, <1>3

\* Only jsonb is ever read as an object {type, value}.
LEMMA ReadPlainly ==
  ASSUME NEW type \in Types, NEW w \in ValuesOf(type), NEW js \in Reads(type, w),
         type[1] # "json" \/ w = Null
  PROVE  js[1] # "param"
  <1>1. CASE w = Null /\ js = Null
    BY <1>1 DEF Null
  <1>2. CASE /\ w # Null /\ type[1] \in Kinds /\ w \in ScalarValues(type[1])
             /\ js = ScalarToJs(type[1], w)
    <2>1. js \in JsLeaves \/ js[1] = "out"
      BY <1>2, ScalarRead DEF Kinds
    <2>2. QED
      BY <2>1, LeafTags DEF Tags
  <1>3. CASE js[1] \in {"out", "obj"}
    BY <1>3
  <1>4. QED
    BY <1>1, <1>2, <1>3, ReadCases

\* Whatever is read and whichever way it is written back, the column holds
\* what it held, or one of the losses that Loses names: a statement of PgDatum,
\* OwnedPgValue and the three ways back, for every width.
THEOREM RoundTrips ==
  ASSUME NEW type \in Types, NEW w \in ValuesOf(type), NEW js \in Reads(type, w),
         NEW v \in Writes(type, js), v # Fail
  PROVE  v = w \/ Loses(type, w, v)
  <1>1. (type[1] = "json" /\ w # Null) \/ v \in PlainWrites(type, js)
    BY ReadPlainly, BoundCases DEF Writes, PlainWrites
  <1>2. CASE w = Null /\ js = Null
    BY <1>1, <1>2, NothingWritten
  <1>3. CASE /\ w # Null /\ type[1] \in Kinds /\ type[1] # "row" /\ w \in ScalarValues(type[1])
             /\ js = ScalarToJs(type[1], w)
    <2>1. CASE type[1] \in IntKinds
      <3>1. PICK n \in Ints(type[1]) : w = Num(n) /\ NumberOf(js, n)
        BY <1>3, <2>1, ScalarRead
      <3>2. n \in Int /\ Exact(n) /\ Signed(n, Width(type[1]))
        BY <2>1, IntColumnRead
      <3>3. Whole(n)
        BY <3>2 DEF Signed
      <3>4. type[1] = "int8" => Clamped(n) = n
        BY <3>2, <3>3, ClampedType DEF Width
      <3>5. QED
        BY <1>1, <2>1, <3>1, <3>2, <3>3, <3>4, IntegerWritten DEF IntKinds
    <2>2. CASE type[1] \in FloatKinds
      <3>1. js = w
        BY <1>3, <2>2, ScalarRead
      <3>2. QED
        BY <1>1, <1>3, <2>2, <3>1, FloatTrip DEF Loses, FloatKinds
    <2>3. CASE type[1] = "bool"
      BY <1>1, <1>3, <2>3, ScalarRead, ScalarCases, BoolWritten
    <2>4. CASE type[1] = "text"
      BY <1>1, <1>3, <2>4, ScalarRead, ScalarCases, TextWritten
    <2>5. CASE type[1] = "json"
      <3>1. type = <<"json">>
        BY <1>3, <2>5, TypeCases
      <3>2. PICK d \in JsonDocs : w = <<"json", d>> /\ js = JsonToJs(d)
        BY <1>3, <2>5, ScalarRead
      <3>3. QED
        BY <3>1, <3>2, JsonTrip DEF Loses
    <2>6. CASE type[1] = "other"
      BY <1>1, <1>3, <2>6, ScalarRead, OutWritten
    <2>7. QED
      BY <1>3, <2>1, <2>2, <2>3, <2>4, <2>5, <2>6 DEF Kinds
  <1>4. CASE w # Null /\ type[1] = "row" /\ js = <<"out", w>>
    BY <1>1, <1>4, OutWritten
  <1>5. ASSUME type[2] \in {"int8", "float8"}, type = <<"row", type[2]>>,
               NEW x \in ScalarValues(type[2]), w = <<"row", x>>,
               js = <<"obj", ScalarToJs(type[2], x)>>
        PROVE  v = w \/ Loses(type, w, v)
    <2>1. v = w \/ FieldLost(<<"row", type[2]>>, w, v)
      BY <1>1, <1>5, RowTrip
    <2>2. QED
      BY <1>5, <2>1 DEF Loses
  <1>6. QED
    BY <1>2, <1>3, <1>4, <1>5, ReadCases

-----------------------------------------------------------------------------
(***************************************************************************)
(* The inductive invariant.  OnlyKnownLosses says nothing of what          *)
(* JavaScript holds; Fresh does: it is a reading of what is stored, or     *)
(* something of JavaScript's own for a column that is NULL.                *)
(***************************************************************************)
Fresh ==
  \/ held = Nothing
  \/ held \in Reads(column, stored)
  \/ original = Nothing /\ stored = Null /\ held \in JsValues

IInv == TypeOK /\ Fresh /\ OnlyKnownLosses

\* The three ways back store something that Writes has, or nothing.
LEMMA StoreStep ==
  ASSUME ReturnIt \/ BindInferred \/ BindTyped
  PROVE  /\ held' = Nothing /\ UNCHANGED <<column, original>>
         /\ stored' = stored \/ (stored' \in Writes(column, held) /\ stored' # Fail)
  BY DEF ReturnIt, BindInferred, BindTyped, Store, Writes

\* Nothing has been read or written.
LEMMA InitialState == Init => IInv
  BY DEF Init, IInv, TypeOK, Fresh, OnlyKnownLosses

\* A value is read.
LEMMA ReadStep ==
  ASSUME IInv, PassArgument \/ FetchRow
  PROVE  IInv'
  <1>1. held' \in Reads(column, stored) /\ UNCHANGED <<column, original, stored>>
    BY DEF PassArgument, FetchRow, Reads
  <1>2. held' \in JsValues \/ held'[1] = "out"
    BY <1>1, ReadType DEF IInv, TypeOK
  <1>3. TypeOK'
    BY <1>1, <1>2 DEF IInv, TypeOK
  <1>4. Fresh'
    BY <1>1 DEF Fresh, Reads
  <1>5. OnlyKnownLosses'
    BY <1>1 DEF IInv, OnlyKnownLosses
  <1>6. QED
    BY <1>3, <1>4, <1>5 DEF IInv

\* A value is written: read before, it is what was stored or one more of the
\* losses, and losses are stable.
LEMMA WriteStep ==
  ASSUME IInv, ReturnIt \/ BindInferred \/ BindTyped
  PROVE  IInv'
  <1>1. /\ held' = Nothing /\ UNCHANGED <<column, original>>
        /\ stored' = stored \/ (stored' \in Writes(column, held) /\ stored' # Fail)
    BY StoreStep
  <1>2. /\ column \in Types /\ stored \in ValuesOf(column)
        /\ original \in {Nothing} \cup ValuesOf(column)
    BY DEF IInv, TypeOK
  <1>3. Fresh'
    BY <1>1 DEF Fresh
  <1>4. CASE stored' = stored
    <2>1. TypeOK' /\ OnlyKnownLosses'
      BY <1>1, <1>4 DEF IInv, TypeOK, OnlyKnownLosses
    <2>2. QED
      BY <1>3, <2>1 DEF IInv
  <1>5. CASE /\ stored' \in Writes(column, held) /\ stored' # Fail
             /\ held \in Reads(column, stored)
    <2>1. stored' \in ValuesOf(column)
      <3>1. CASE held \in JsValues
        BY <1>2, <1>5, <3>1, WriteType
      <3>2. CASE held = <<"out", stored>> /\ column[1] \in {"other", "row"}
        <4>1. stored' \in PlainWrites(column, held)
          BY <1>2, <1>5, <3>2, BoundCases DEF Writes, PlainWrites
        <4>2. QED
          BY <1>2, <1>5, <3>2, <4>1, OutWritten
      <3>3. QED
        BY <1>2, <1>5, <3>1, <3>2, ReadType
    <2>2. stored' = stored \/ Loses(column, stored, stored')
      BY <1>2, <1>5, RoundTrips
    <2>3. original = Nothing \/ original = stored' \/ Loses(column, original, stored')
      <3>1. CASE original = Nothing
        BY <3>1
      <3>2. CASE original \in ValuesOf(column) /\ original # Nothing
        <4>1. original = stored \/ Loses(column, original, stored)
          BY <3>2 DEF IInv, OnlyKnownLosses
        <4>2. QED
          BY <1>2, <2>2, <3>2, <4>1, LossesAreStable
      <3>3. QED
        BY <1>2, <3>1, <3>2
    <2>4. TypeOK'
      BY <1>1, <1>2, <2>1 DEF TypeOK
    <2>5. OnlyKnownLosses'
      BY <1>1, <2>3 DEF OnlyKnownLosses
    <2>6. QED
      BY <1>3, <2>4, <2>5 DEF IInv
  <1>6. CASE /\ stored' \in Writes(column, held) /\ stored' # Fail
             /\ original = Nothing /\ held \in JsValues
    <2>1. stored' \in ValuesOf(column)
      BY <1>2, <1>6, WriteType
    <2>2. TypeOK' /\ OnlyKnownLosses'
      BY <1>1, <1>2, <1>6, <2>1 DEF TypeOK, OnlyKnownLosses
    <2>3. QED
      BY <1>3, <2>2 DEF IInv
  <1>7. held # Nothing
    BY DEF ReturnIt, BindInferred, BindTyped, Store
  <1>8. QED
    BY <1>1, <1>4, <1>5, <1>6, <1>7 DEF IInv, Fresh

\* Every step keeps the invariant.
LEMMA NextStep ==
  ASSUME IInv, [Next]_vars
  PROVE  IInv'
  <1>1. CASE PassArgument \/ FetchRow
    BY <1>1, ReadStep
  <1>2. CASE Compute
    <2>1. /\ original' = Nothing /\ held' \in JsValues /\ stored = Null
          /\ UNCHANGED <<column, stored>>
      BY <1>2 DEF Compute
    <2>2. QED
      BY <2>1 DEF IInv, TypeOK, Fresh, OnlyKnownLosses
  <1>3. CASE ReturnIt \/ BindInferred \/ BindTyped
    BY <1>3, WriteStep
  <1>4. CASE UNCHANGED vars
    <2>1. UNCHANGED <<column, original, stored, held>>
      BY <1>4 DEF vars
    <2>2. QED
      BY <2>1 DEF IInv, TypeOK, Fresh, OnlyKnownLosses, Reads
  <1>5. QED
    BY <1>1, <1>2, <1>3, <1>4 DEF Next

\* JavaScript holds a reading of what is stored, or a value of its own, and
\* what is stored is what was read but for the losses.
THEOREM Inductive == Spec => []IInv
  BY InitialState, NextStep, PTL DEF Spec

\* A column holds a value of its type, whatever JavaScript writes.
THEOREM TypeCorrect == Spec => []TypeOK
  <1>1. IInv => TypeOK
    BY DEF IInv
  <1>2. QED
    BY <1>1, Inductive, PTL

\* Conversions lose nothing but what Loses names, however often a value goes
\* to JavaScript and back and whichever way.
THEOREM KnownLosses == Spec => []OnlyKnownLosses
  <1>1. IInv => OnlyKnownLosses
    BY DEF IInv
  <1>2. QED
    BY <1>1, Inductive, PTL

\* Integers, booleans, strings, and the types that are known by their text, as
\* well as rows of int8, survive any number of round trips.
THEOREM ExactTypes ==
  Spec => [](column \in {<<"int2">>, <<"int4">>, <<"int8">>, <<"bool">>, <<"text">>, <<"other">>,
                         <<"row", "int8">>}
             => original \in {Nothing, stored})
  <1>1. OnlyKnownLosses =>
          (column \in {<<"int2">>, <<"int4">>, <<"int8">>, <<"bool">>, <<"text">>, <<"other">>,
                       <<"row", "int8">>}
           => original \in {Nothing, stored})
    BY DEF OnlyKnownLosses, Loses, Saturated, JsonLost, FieldLost, FloatKinds
  <1>2. QED
    BY <1>1, KnownLosses, PTL

-----------------------------------------------------------------------------
\* What JavaScript holds as a number or bigint.
LEMMA NumberHeld ==
  ASSUME NEW js, js \in JsValues \/ js[1] = "out", js[1] \in {"num", "big"}
  PROVE  \E n \in Int : NumberOf(js, n)
  <1>1. js \in JsLeaves
    BY StructureCases DEF JsValues, Tags
  <1>2. js \notin {Null, Undefined} \cup NotFinite \cup Bools \cup TextValues
    BY DEF Null, Undefined, NotFinite, Bools, TextValues
  <1>3. ASSUME NEW n \in Doubles, js = Num(n) PROVE \E m \in Int : NumberOf(js, m)
    BY <1>3, NumbersType DEF NumberOf
  <1>4. ASSUME NEW i \in -Pow2[W8]..Pow2[W8], js = <<"big", 2 * i>>
        PROVE  \E m \in Int : NumberOf(js, m)
    BY <1>4, BigsType DEF NumberOf
  <1>5. QED
    BY <1>1, <1>2, <1>3, <1>4, LeafCases

\* A function's return value that is a number arrives exactly in an integer or
\* jsonb result, or the call fails: PgReturnVisitor.
THEOREM ReturnsExact == Spec => ReturnsAreExact
  <1>1. ASSUME TypeOK, ReturnIt, stored' # stored, held[1] \in {"num", "big"}
        PROVE  /\ column[1] \in IntKinds => Same(stored', held)
               /\ column[1] = "json" => Same(stored'[2], held)
    <2>1. PICK v \in Returned(column, held) : stored' = v /\ v # Fail
      BY <1>1 DEF ReturnIt, Store
    <2>2. column \in Types /\ held # Nothing
      BY <1>1 DEF TypeOK, ReturnIt, Store
    <2>3. PICK n \in Int : NumberOf(held, n)
      BY <1>1, <2>2, NumberHeld DEF TypeOK
    <2>4. v \in VisitNumber(column[1], n)
      BY <2>1, <2>2, <2>3, NumberReturned
    <2>5. CASE column[1] \in IntKinds
      <3>1. v = Num(n)
        BY <2>1, <2>4, <2>5 DEF VisitNumber, Integer, IntKinds
      <3>2. QED
        BY <2>1, <2>3, <2>5, <3>1, NumberTag DEF Same, Num, IntKinds
    <2>6. CASE column[1] = "json"
      <3>1. v = <<"json", Num(n)>>
        BY <2>4, <2>6 DEF VisitNumber, IntKinds
      <3>2. QED
        BY <2>1, <2>3, <2>6, <3>1, NumberTag DEF Same, Num, IntKinds
    <2>7. QED
      BY <2>5, <2>6
  <1>2. TypeOK /\ [Next]_vars =>
          [ReturnIt /\ stored' # stored /\ held[1] \in {"num", "big"} =>
             CASE column[1] \in IntKinds -> Same(stored', held)
               [] column[1] = "json"     -> Same(stored'[2], held)
               [] OTHER                -> TRUE]_vars
    BY <1>1 DEF IntKinds
  <1>3. QED
    BY <1>2, TypeCorrect, PTL DEF Spec, ReturnsAreExact

\* A number that is a parameter arrives exactly in an integer column, but for
\* saturation in int8 and fractions, or the statement fails:
\* inferred_number_into_spi_param and into_typed_spi_param.
THEOREM ParametersExact == Spec => ParametersAreExact
  <1>1. ASSUME TypeOK, BindInferred \/ BindTyped, stored' # stored,
               held[1] \in {"num", "big"}, column[1] \in IntKinds
        PROVE  \/ Same(stored', held)
               \/ ~Whole(held[2]) /\ Distance(stored'[2], held[2]) = 1
               \/ column = <<"int8">> /\ held[1] = "num" /\ stored' = Num(Clamped(held[2]))
    <2>1. stored' \in Writes(column, held) /\ stored' # Fail
      BY <1>1, StoreStep
    <2>2. column \in Types /\ held # Nothing
      BY <1>1 DEF TypeOK, BindInferred, BindTyped, Store
    <2>3. PICK n \in Int : NumberOf(held, n)
      BY <1>1, <2>2, NumberHeld DEF TypeOK
    <2>4. \/ stored' = Num(n)
          \/ ~Whole(n) /\ \E i \in Int : stored' = Num(i) /\ Distance(i, n) = 1
          \/ column[1] = "int8" /\ held[1] = "num" /\ stored' = Num(Clamped(n))
      <3>1. stored' \in PlainWrites(column, held)
        BY <1>1, <2>1, <2>2, BoundCases DEF Writes, PlainWrites
      <3>2. QED
        BY <1>1, <2>1, <2>2, <2>3, <3>1, IntegerWritten
    <2>5. held[2] = n /\ (column[1] = "int8" => column = <<"int8">>)
      BY <2>2, <2>3, NumberTag, TypeCases
    <2>6. QED
      BY <2>4, <2>5 DEF Same, Num
  <1>2. TypeOK /\ [Next]_vars =>
          [(BindInferred \/ BindTyped) /\ stored' # stored
           /\ held[1] \in {"num", "big"} /\ column[1] \in IntKinds =>
               \/ Same(stored', held)
               \/ ~Whole(held[2]) /\ Distance(stored'[2], held[2]) = 1
               \/ column = <<"int8">> /\ held[1] = "num" /\ stored' = Num(Clamped(held[2]))]_vars
    BY <1>1
  <1>3. QED
    BY <1>2, TypeCorrect, PTL DEF Spec, ParametersAreExact

\* A number inside an object or array that is a parameter arrives exactly in
\* jsonb, but for 2^63, or the statement fails: to_json_value.
THEOREM JsonParametersExact == Spec => JsonParametersAreExact
  <1>1. ASSUME TypeOK, BindInferred \/ BindTyped, stored' # stored, column = <<"json">>,
               held[1] \in {"obj", "arr"}, held[2][1] \in {"num", "big"}
        PROVE  Same(stored'[2][2], held[2]) \/ held[2] = Num(Pow2[W8])
    <2>1. stored' \in Writes(column, held) /\ stored' # Fail
      BY <1>1, StoreStep
    <2>2. column \in Types /\ held # Nothing /\ held \in JsValues
      BY <1>1 DEF TypeOK, BindInferred, BindTyped, Store
    <2>3. /\ held \notin JsLeaves /\ held[2] \in JsLeaves
          /\ \A y : With(held, y)[2] = y
      <3>1. held \notin JsLeaves
        BY <1>1, LeafTags DEF Tags
      <3>2. QED
        BY <2>2, <3>1, StructureCases DEF JsValues
    <2> DEFINE x == held[2]
    <2>4. PICK y \in JsonLeaves : /\ stored' = <<"json", With(held, y)>>
                                  /\ y \in ToValue(x) \/ y = ToJsonValue(x)
      <3>1. stored' \in PlainWrites(column, held)
        BY <1>1, <2>1, <2>2, BoundCases DEF Writes, PlainWrites
      <3>2. QED
        BY <1>1, <2>1, <2>2, <2>3, <3>1, StructWritten
    <2>5. y # Fail
      BY JsonLeafCases DEF Fail, Null, Num, Bools, TextValues
    <2>6. PICK n \in Int : NumberOf(x, n)
      <3>1. x \in JsValues /\ x[1] \in {"num", "big"}
        BY <1>1, <2>3 DEF JsValues, Structures
      <3>2. QED
        BY <3>1, NumberHeld
    <2>7. CASE y \in ToValue(x)
      <3>1. y = Num(n)
        BY <2>3, <2>5, <2>6, <2>7, LeafToValue
      <3>2. QED
        BY <2>3, <2>4, <2>6, <3>1, NumberTag DEF Same, Num
    <2>8. CASE y = ToJsonValue(x)
      <3>1. x \notin {Null} \cup Bools \cup TextValues
        BY <2>6 DEF NumberOf, Num, Null, Bools, TextValues
      <3>2. PICK m \in Int : x = Num(m) /\ (y = x \/ m = Pow2[W8])
        BY <2>3, <2>5, <2>8, <3>1, LeafToJsonValue
      <3>3. QED
        BY <2>3, <2>4, <3>2 DEF Same, Num
    <2>9. QED
      BY <2>4, <2>7, <2>8
  <1>2. TypeOK /\ [Next]_vars =>
          [(BindInferred \/ BindTyped) /\ stored' # stored
           /\ column = <<"json">> /\ held[1] \in {"obj", "arr"} /\ held[2][1] \in {"num", "big"} =>
               \/ Same(stored'[2][2], held[2])
               \/ held[2] = Num(Pow2[W8])]_vars
    BY <1>1
  <1>3. QED
    BY <1>2, TypeCorrect, PTL DEF Spec, JsonParametersAreExact
=============================================================================
