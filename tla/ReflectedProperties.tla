------------------------ MODULE ReflectedProperties -------------------------
(***************************************************************************)
(* Reflected properties: what a property of each kind can hold, what is    *)
(* left of a JSON value when the loader stores it, and what the widgets of *)
(* the inspector make of it.                                               *)
(*   src/src/reflection/{property.h,builtin_properties.{h,cpp}},           *)
(*   src/src/scene/properties.{h,cpp},                                     *)
(*   src/src/serialization/json/property_deserializer.cpp,                 *)
(*   src/src/ui/scene_inspector.cpp                                        *)
(***************************************************************************)
EXTENDS JsonText

CONSTANTS
    Width,          \* an int has the values -Width .. Width - 1
    Components,     \* the components of a vector, the rows of a matrix
    ByteStrings,    \* what a string in memory can be, whether UTF-8 or not
    LengthOf,       \* LengthOf[t]: the length of a string in bytes
    MaxLength,      \* the longest string a text property takes, in bytes
    NoText,         \* the empty text
    Cut,            \* Cut[t]: the first MaxLength bytes, wherever characters end
    Inputs          \* Inputs.numbers, Inputs.texts: what can be typed into a widget

ASSUME PropertiesAssumption ==
    /\ {Width, Components} \subseteq Nat \ {0} /\ MaxLength \in Nat
    /\ Texts \subseteq ByteStrings /\ NoText \in Texts
    /\ LengthOf \in [ByteStrings -> Nat] /\ Cut \in [ByteStrings -> ByteStrings]
    /\ \A t \in ByteStrings :
          IF LengthOf[t] <= MaxLength THEN Cut[t] = t ELSE LengthOf[Cut[t]] = MaxLength
    /\ Inputs \in [numbers : SUBSET Int, texts : SUBSET ByteStrings]

-----------------------------------------------------------------------------
(* What a property is, and what each kind of property can hold. *)

Unlimited == [min |-> -Width * Width, max |-> Width * Width, clamp |-> FALSE]

\* RangeConstraint: both bounds are optional.
RangeOf(min, max, clamp) == [min |-> min, max |-> max, clamp |-> clamp]

\* What the C++ types of properties come down to.
Kinds == {"int", "uint", "float", "flag", "text", "path", "list", "vec", "mat"}

Properties ==
    [name : Texts, kind : Kinds, readOnly : BOOLEAN,
     range : [min : Int, max : Int, clamp : BOOLEAN]]

\* Property and its PropertyInfo, the offset and size left out.
Property(name, kind, readOnly, range) ==
    [name |-> name, kind |-> kind, readOnly |-> readOnly, range |-> range]

\* What properties hold.
HeldStrings == {"str"} \X ByteStrings
Lists == {"arr"} \X Seq(HeldStrings)
Vectors == {"arr"} \X [1 .. Components -> Numbers]
Matrices == {"arr"} \X [1 .. Components -> Vectors]

Held == Numbers \cup Flags \cup HeldStrings \cup Lists \cup Vectors \cup Matrices

IsWithin(property, n) == n \in property.range.min .. property.range.max

IsInt(property, v) ==
    v \in Numbers /\ v[2] \in -Width .. Width - 1 /\ IsWithin(property, v[2])

IsUInt(property, v) ==
    v \in Numbers /\ v[2] \in 0 .. 2 * Width - 1 /\ IsWithin(property, v[2])

IsFloat(property, v) == v \in Numbers /\ IsWithin(property, v[2])

IsFlag(v) == v \in Flags

IsText(v) == v \in HeldStrings /\ LengthOf[v[2]] <= MaxLength

\* PathProperty: there is no maximum.
IsPath(v) == v \in HeldStrings

\* VectorProperty, whose inner property has no constraint of its own.  The one
\* list that the classes have, the materials of a mesh, is a list of paths.
IsList(v) == v \in Lists

IsVec(v) == v \in Vectors

IsMat(v) == v \in Matrices

\* PropertyFactory: the kind of property a C++ type is reflected as.
Fits(property, v) ==
    CASE property.kind = "int" -> IsInt(property, v)
      [] property.kind = "uint" -> IsUInt(property, v)
      [] property.kind = "float" -> IsFloat(property, v)
      [] property.kind = "flag" -> IsFlag(v)
      [] property.kind = "text" -> IsText(v)
      [] property.kind = "path" -> IsPath(v)
      [] property.kind = "list" -> IsList(v)
      [] property.kind = "vec" -> IsVec(v)
      [] property.kind = "mat" -> IsMat(v)

-----------------------------------------------------------------------------
(* What is left of a JSON value that the loader stores in a property. *)

Clamped(range, n) == IF n < range.min THEN range.min ELSE IF n > range.max THEN range.max ELSE n

\* MUTANT of SetNumber: the upper bound is not looked at.
SetAtLeastMin(property, old, n) ==
    IF n >= property.range.min THEN Num(n)
    ELSE IF property.range.clamp THEN Num(property.range.min) ELSE old

\* set_value: a number outside the range is moved into it, or refused.
SetNumber(property, old, n) ==
    IF IsWithin(property, n) THEN Num(n)
    ELSE IF property.range.clamp THEN Num(Clamped(property.range, n)) ELSE old

\* The cut may go through the bytes of a character.
SetText(text) == Str(Cut[text])

SetPath(text) == Str(text)

\* static_cast of an int64 to int, and of an uint64 to unsigned int.
AsInt(n) == ((n + Width) % (2 * Width)) - Width

AsUInt(n) == n % (2 * Width)

ReadInt(property, old, v) ==
    IF Type(v) = "num" THEN SetNumber(property, old, AsInt(v[2])) ELSE old

ReadUInt(property, old, v) ==
    IF Type(v) = "num" /\ v[2] >= 0 THEN SetNumber(property, old, AsUInt(v[2])) ELSE old

ReadFloat(property, old, v) ==
    IF Type(v) = "num" THEN SetNumber(property, old, v[2]) ELSE old

ReadFlag(old, v) == IF Type(v) = "bool" THEN v ELSE old

ReadText(old, v) == IF Type(v) = "str" THEN SetText(v[2]) ELSE old

ReadPath(old, v) == IF Type(v) = "str" THEN SetPath(v[2]) ELSE old

\* The vector is resized, so that it keeps the old elements it has room for.
ReadList(old, v) ==
    IF Type(v) # "arr" THEN old
    ELSE Arr([i \in DOMAIN v[2] |->
                 ReadPath(IF i \in DOMAIN old[2] THEN old[2][i] ELSE Str(NoText), v[2][i])])

\* The leading numbers of an array; what is missing or no number is zero.
Component(v, i) ==
    IF Type(v) = "arr" /\ i \in DOMAIN v[2] /\ Type(v[2][i]) = "num" THEN v[2][i] ELSE Num(0)

ReadVec(old, v) ==
    IF Type(v) = "arr" THEN Arr([i \in 1 .. Components |-> Component(v, i)]) ELSE old

ReadMat(old, v) ==
    IF Type(v) # "arr" THEN old
    ELSE Arr([r \in 1 .. Components |->
             Arr([c \in 1 .. Components |->
                 IF r \in DOMAIN v[2] THEN Component(v[2][r], c) ELSE Num(0)])])

Read(property, old, v) ==
    CASE property.kind = "int" -> ReadInt(property, old, v)
      [] property.kind = "uint" -> ReadUInt(property, old, v)
      [] property.kind = "float" -> ReadFloat(property, old, v)
      [] property.kind = "flag" -> ReadFlag(old, v)
      [] property.kind = "text" -> ReadText(old, v)
      [] property.kind = "path" -> ReadPath(old, v)
      [] property.kind = "list" -> ReadList(old, v)
      [] property.kind = "vec" -> ReadVec(old, v)
      [] property.kind = "mat" -> ReadMat(old, v)

-----------------------------------------------------------------------------
(* What a widget of the inspector makes of a value.  A slider or a typed      *)
(* number is clamped before it is stored (ImGuiSliderFlags_AlwaysClamp).      *)

EditInt(property, old) ==
    {SetNumber(property, old, Clamped(property.range, n)) :
        n \in Inputs.numbers \intersect -Width .. Width - 1}

EditUInt(property, old) ==
    {SetNumber(property, old, Clamped(property.range, n)) :
        n \in Inputs.numbers \intersect 0 .. 2 * Width - 1}

EditFloat(property, old) ==
    {SetNumber(property, old, Clamped(property.range, n)) : n \in Inputs.numbers}

EditFlag(old) == {<<"bool", ~old[2]>>}

EditText == {SetText(text) : text \in Inputs.texts}

EditPath == {SetPath(text) : text \in Inputs.texts}

EditList(old) == {<<"arr", [old[2] EXCEPT ![i] = path]>> : i \in DOMAIN old[2], path \in EditPath}

EditVec(old) ==
    {<<"arr", [old[2] EXCEPT ![i] = Num(n)]>> : i \in 1 .. Components, n \in Inputs.numbers}

EditMat(old) ==
    UNION {{<<"arr", [old[2] EXCEPT ![r] = row]>> : row \in EditVec(old[2][r])} :
              r \in 1 .. Components}

Edited(property, old) ==
    CASE property.kind = "int" -> EditInt(property, old)
      [] property.kind = "uint" -> EditUInt(property, old)
      [] property.kind = "float" -> EditFloat(property, old)
      [] property.kind = "flag" -> EditFlag(old)
      [] property.kind = "text" -> EditText
      [] property.kind = "path" -> EditPath
      [] property.kind = "list" -> EditList(old)
      [] property.kind = "vec" -> EditVec(old)
      [] property.kind = "mat" -> EditMat(old)
=============================================================================
