--------------------------- MODULE ConfigTreeProofs ---------------------------
(***************************************************************************)
(* Proofs about ConfigTree: the type invariant TypeOK holds in every       *)
(* reachable state, for every value of the constants that satisfies the    *)
(* assumptions of EnvOverride and ConfigTree.                              *)
(***************************************************************************)
EXTENDS ConfigTree, SequenceTheorems, TLAPS

(***************************************************************************)
(* Environment literals.                                                   *)
(***************************************************************************)
\* A literal of LitSet is of the one syntactic class its field names.
LEMMA LitForms ==
  ASSUME NEW l \in LitSet
  PROVE  /\ Is(l, "dec")  => l \in [dec : Int]
         /\ Is(l, "dur")  => l \in [dur : Int]
         /\ Is(l, "bool") => l \in [bool : BOOLEAN]
         /\ Is(l, "list") => l \in [list : Seq(STRING)]
         /\ Is(l, "json") => l \in [json : StrMaps]
  BY DEF LitSet, Is

\* Every type a field kind may hold is a set of field values.
LEMMA TypeOfKindValues ==
  ASSUME NEW k
  PROVE  TypeOfKind(k) \subseteq Values
  BY DEF TypeOfKind, Values, LitSet

\* The value parseEnvs stores in a field has the type of the field's kind.
LEMMA CoerceType ==
  ASSUME NEW k \in Kinds \ {"other"}, NEW l \in LitSet, Parses(k, l)
  PROVE  Coerce(k, l) \in TypeOfKind(k)
<1> USE DEF Kinds
<1>1. CASE k = "bool"
  BY <1>1, LitForms DEF Coerce, TypeOfKind, BoolLit, ParseBool
<1>2. CASE k = "int32"
  BY <1>2, LitForms, PowerAssumption DEF Coerce, TypeOfKind, Parses, Dec, Wrap
<1>3. CASE k = "uint32"
  BY <1>3, LitForms, PowerAssumption DEF Coerce, TypeOfKind, Parses, Dec
<1>4. CASE k = "duration"
  BY <1>4, LitForms DEF Coerce, TypeOfKind, Parses, Dur
<1>5. CASE k \in {"int", "uint", "float"}
  BY <1>5, LitForms DEF Coerce, TypeOfKind, Parses, Dec
<1>6. CASE k = "slice"
  <2>1. Split(l) \in Seq(LitSet)
    <3>1. CASE Is(l, "list")
      <4>1. l.list \in Seq(STRING)
        BY <3>1, LitForms
      <4>2. \A i \in 1..Len(l.list) : Text(l.list[i]) \in LitSet
        BY <4>1 DEF Text, LitSet
      <4>3. QED
        BY <3>1, <4>2, <4>1 DEF Split
    <3>2. CASE ~Is(l, "list")
      BY <3>2 DEF Split
    <3>3. QED
      BY <3>1, <3>2
  <2>2. QED
    BY <1>6, <2>1 DEF Coerce, TypeOfKind, Slice
<1>7. CASE k = "map"
  BY <1>7, LitForms DEF Coerce, TypeOfKind, Parses
<1>8. CASE k = "string"
  BY <1>8 DEF Coerce, TypeOfKind
<1>9. QED
  BY <1>1, <1>2, <1>3, <1>4, <1>5, <1>6, <1>7, <1>8
(***************************************************************************)
(* The root schema (Config, lines 37-87).                                  *)
(***************************************************************************)
RootNames == {"Prompt", "ClusterName", "ConfigPath", "LogColor", "LogColorOverride",
              "LogLevel", "LogOutputs", "KubectlDownloadURL", "KubectlPath",
              "KubeconfigPath", "KubeconfigContext", "MinimumNodes", "TotalNodes"}

\* The kind of each valued root field, as its Go type gives it.
RootKind ==
  [n \in RootNames |->
     IF n \in {"Prompt", "LogColor"} THEN "bool"
     ELSE IF n = "LogOutputs" THEN "slice"
     ELSE IF n \in {"MinimumNodes", "TotalNodes"} THEN "int"
     ELSE "string"]

\* Field by field: every root field has a kind, the valued ones are exactly
\* those named in RootNames, and their kinds are those of RootKind.
LEMMA RootFields ==
  \A i \in 1..Len(RootSchema) :
    /\ RootSchema[i].kind \in Kinds
    /\ RootSchema[i].kind # "other" <=> RootSchema[i].name \in RootNames
    /\ RootSchema[i].name \in RootNames => RootSchema[i].kind = RootKind[RootSchema[i].name]
<1> SUFFICES ASSUME NEW i \in 1..23
             PROVE  /\ RootSchema[i].kind \in Kinds
                    /\ RootSchema[i].kind # "other" <=> RootSchema[i].name \in RootNames
                    /\ RootSchema[i].name \in RootNames => RootSchema[i].kind = RootKind[RootSchema[i].name]
  BY DEF RootSchema
<1>1. CASE i = 1
  BY <1>1 DEF RootSchema, F, RootKind, RootNames, Kinds
<1>2. CASE i = 2
  BY <1>2 DEF RootSchema, F, RootKind, RootNames, Kinds
<1>3. CASE i = 3
  BY <1>3 DEF RootSchema, F, RootKind, RootNames, Kinds
<1>4. CASE i = 4
  BY <1>4 DEF RootSchema, F, RootKind, RootNames, Kinds
<1>5. CASE i = 5
  BY <1>5 DEF RootSchema, F, RootKind, RootNames, Kinds
<1>6. CASE i = 6
  BY <1>6 DEF RootSchema, F, RootKind, RootNames, Kinds
<1>7. CASE i = 7
  BY <1>7 DEF RootSchema, F, RootKind, RootNames, Kinds
<1>8. CASE i = 8
  BY <1>8 DEF RootSchema, F, RootKind, RootNames, Kinds
<1>9. CASE i = 9
  BY <1>9 DEF RootSchema, F, RootKind, RootNames, Kinds
<1>10. CASE i = 10
  BY <1>10 DEF RootSchema, F, RootKind, RootNames, Kinds
<1>11. CASE i = 11
  BY <1>11 DEF RootSchema, F, RootKind, RootNames, Kinds
<1>12. CASE i = 12
  BY <1>12 DEF RootSchema, F, RootKind, RootNames, Kinds
<1>13. CASE i = 13
  BY <1>13 DEF RootSchema, F, RootKind, RootNames, Kinds
<1>14. CASE i = 14
  BY <1>14 DEF RootSchema, F, RootKind, RootNames, Kinds
<1>15. CASE i = 15
  BY <1>15 DEF RootSchema, F, RootKind, RootNames, Kinds
<1>16. CASE i = 16
  BY <1>16 DEF RootSchema, F, RootKind, RootNames, Kinds
<1>17. CASE i = 17
  BY <1>17 DEF RootSchema, F, RootKind, RootNames, Kinds
<1>18. CASE i = 18
  BY <1>18 DEF RootSchema, F, RootKind, RootNames, Kinds
<1>19. CASE i = 19
  BY <1>19 DEF RootSchema, F, RootKind, RootNames, Kinds
<1>20. CASE i = 20
  BY <1>20 DEF RootSchema, F, RootKind, RootNames, Kinds
<1>21. CASE i = 21
  BY <1>21 DEF RootSchema, F, RootKind, RootNames, Kinds
<1>22. CASE i = 22
  BY <1>22 DEF RootSchema, F, RootKind, RootNames, Kinds
<1>23. CASE i = 23
  BY <1>23 DEF RootSchema, F, RootKind, RootNames, Kinds
<1>24. QED
  BY <1>1, <1>2, <1>3, <1>4, <1>5, <1>6, <1>7, <1>8, <1>9, <1>10, <1>11, <1>12, <1>13, <1>14, <1>15, <1>16, <1>17, <1>18, <1>19, <1>20, <1>21, <1>22, <1>23

\* Each valued name occurs in the schema (the witness of IndexOf).
LEMMA RootNamesOccur ==
  \A n \in RootNames : \E i \in 1..Len(RootSchema) : RootSchema[i].name = n
<1>1. /\ Len(RootSchema) = 23
        /\ RootSchema[3].name = "Prompt"
        /\ RootSchema[4].name = "ClusterName"
        /\ RootSchema[5].name = "ConfigPath"
        /\ RootSchema[6].name = "LogColor"
        /\ RootSchema[7].name = "LogColorOverride"
        /\ RootSchema[8].name = "LogLevel"
        /\ RootSchema[9].name = "LogOutputs"
        /\ RootSchema[10].name = "KubectlDownloadURL"
        /\ RootSchema[11].name = "KubectlPath"
        /\ RootSchema[12].name = "KubeconfigPath"
        /\ RootSchema[13].name = "KubeconfigContext"
        /\ RootSchema[14].name = "MinimumNodes"
        /\ RootSchema[15].name = "TotalNodes"
  BY DEF RootSchema, F
<1>2. QED
  BY <1>1 DEF RootNames

LEMMA RootValuedNames ==
  ValuedNames(Root) = RootNames
  BY RootFields, RootNamesOccur DEF ValuedNames, Schema

LEMMA RootKindOf ==
  \A n \in RootNames : KindOf(Root, n) = RootKind[n]
  BY RootFields, RootNamesOccur DEF KindOf, IndexOf, Schema

(***************************************************************************)
(* Every slot: its schema, the lookup of a field by name, and field types. *)
(***************************************************************************)
\* The elements of a sequence over S are in S.
LEMMA SeqElems ==
  ASSUME NEW S, NEW q \in Seq(S)
  PROVE  {q[k] : k \in 1..Len(q)} \subseteq S
  OBVIOUS

\* The components of the pairs of a sequence of pairs.
LEMMA SeqPairs ==
  ASSUME NEW A, NEW B, NEW q \in Seq(A \X B), NEW i \in 1..Len(q)
  PROVE  q[i][1] \in A /\ q[i][2] \in B
  OBVIOUS

LEMMA SlotFacts ==
  /\ Root \in STRING /\ Addons \subseteq STRING /\ Root \notin Addons
  /\ Slots \subseteq STRING
<1>1. Root \in STRING
  BY Zenon, LiteralAssumption
<1>2. Addons \subseteq STRING
  <2>1. AddonOrder \in Seq(STRING)
    BY SchemaAssumption
  <2>2. QED
    BY Zenon, <2>1, SeqElems DEF Addons
<1>3. Root \notin Addons
  BY SchemaAssumption
<1>4. QED
  BY <1>1, <1>2, <1>3 DEF Slots

LEMMA SchemaKinds ==
  \A s \in Slots : \A i \in 1..Len(Schema(s)) : Schema(s)[i].kind \in Kinds
<1> SUFFICES ASSUME NEW s \in Slots, NEW i \in 1..Len(Schema(s))
             PROVE  Schema(s)[i].kind \in Kinds
  OBVIOUS
<1>1. CASE s = Root
  BY <1>1, RootFields DEF Schema
<1>2. CASE s # Root
  <2>1. s \in Addons
    BY <1>2 DEF Slots
  <2>2. AddonSchema[s] \in Seq(FieldRecs)
    BY <2>1, SchemaAssumption
  <2>3. \A x \in FieldRecs : x.kind \in Kinds
    BY Zenon DEF FieldRecs
  <2>4. \A q \in Seq(FieldRecs) : \A j \in 1..Len(q) : q[j].kind \in Kinds
    BY <2>3
  <2>5. QED
    BY <1>2, <2>2, <2>4 DEF Schema
<1>3. QED
  BY <1>1, <1>2

\* IndexOf finds a field of the name, so KindOf is the kind of that field.
LEMMA IndexOfFacts ==
  ASSUME NEW s \in Slots, NEW n \in ValuedNames(s)
  PROVE  /\ IndexOf(Schema(s), n) \in 1..Len(Schema(s))
         /\ Schema(s)[IndexOf(Schema(s), n)].name = n
         /\ KindOf(s, n) = Schema(s)[IndexOf(Schema(s), n)].kind
         /\ KindOf(s, n) \in Kinds
<1>1. \E i \in 1..Len(Schema(s)) : Schema(s)[i].name = n
  BY DEF ValuedNames
<1>2. IndexOf(Schema(s), n) \in 1..Len(Schema(s)) /\ Schema(s)[IndexOf(Schema(s), n)].name = n
  BY <1>1 DEF IndexOf
<1>3. QED
  BY <1>2, SchemaKinds DEF KindOf

LEMMA PathFieldsOfRoot ==
  /\ PathFields \subseteq ValuedNames(Root)
  /\ \A n \in PathFields : KindOf(Root, n) = "string"
  BY RootValuedNames, RootKindOf DEF PathFields, RootNames, RootKind

LEMMA LiteralFacts ==
  /\ Unset \in LitSet
  /\ PathLits \subseteq LitSet
  /\ \A p \in PathLits : Abs(p) \in {Text(x) : x \in AbsPaths}
<1>1. Unset \in LitSet
  BY LiteralAssumption DEF Unset, Text, LitSet
<1>2. PathLits \subseteq LitSet
  BY PathAssumption DEF PathLits, Text, LitSet
<1>3. \A p \in PathLits : Abs(p) \in {Text(x) : x \in AbsPaths}
  <2> SUFFICES ASSUME NEW x \in AbsPaths \cup DOMAIN CwdJoin
               PROVE  Abs(Text(x)) \in {Text(y) : y \in AbsPaths}
    BY DEF PathLits
  <2>1. CASE x \in AbsPaths
    BY <2>1 DEF Abs, IsAbs, Is, Text
  <2>2. CASE x \notin AbsPaths
    <3>1. CwdJoin[x] \in AbsPaths
      BY <2>2, PathAssumption
    <3>2. QED
      BY <2>2, <3>1 DEF Abs, IsAbs, Is, Text
  <2>3. QED
    BY <2>1, <2>2
<1>4. QED
  BY <1>1, <1>2, <1>3

\* The type of every field is a set of field values.
LEMMA FieldTypeValues ==
  ASSUME NEW s, NEW n
  PROVE  FieldType(s, n) \subseteq Values
  BY LiteralFacts, TypeOfKindValues DEF FieldType, Values

LEMMA EmptyMapType ==
  EmptyMap \in [json : StrMaps]
<1>1. [k \in {} |-> ""] \in [{} -> JsonValues]
  OBVIOUS
<1>2. {} \in SUBSET JsonKeys
  OBVIOUS
<1>3. QED
  BY <1>1, <1>2 DEF EmptyMap, Json, StrMaps

\* The zero value of each kind has the kind's type.
LEMMA ZeroOfKind ==
  ASSUME NEW k
  PROVE  ZeroOf(k) \in TypeOfKind(k)
<1>1. CASE k = "bool"
  BY <1>1 DEF ZeroOf, TypeOfKind, BoolLit
<1>2. CASE k = "slice"
  BY <1>2 DEF ZeroOf, TypeOfKind, Slice
<1>3. CASE k = "map"
  BY <1>3, EmptyMapType DEF ZeroOf, TypeOfKind
<1>4. CASE k = "string"
  BY <1>4, LiteralFacts DEF ZeroOf, TypeOfKind
<1>5. CASE k = "duration"
  BY <1>5 DEF ZeroOf, TypeOfKind, Dur
<1>6. CASE k \notin {"bool", "slice", "map", "string", "duration"}
  <2>1. ZeroOf(k) = Dec(0)
    BY <1>6 DEF ZeroOf
  <2>2. TypeOfKind(k) = [dec : Int]
    BY <1>6 DEF TypeOfKind
  <2>3. QED
    BY <2>1, <2>2 DEF Dec
<1>7. QED
  BY <1>1, <1>2, <1>3, <1>4, <1>5, <1>6

\* The zero value of a field has the field's type.
LEMMA ZeroOfType ==
  ASSUME NEW s \in Slots, NEW n \in ValuedNames(s)
  PROVE  ZeroOf(KindOf(s, n)) \in FieldType(s, n)
<1>1. CASE s = Root /\ n \in PathFields
  BY <1>1, PathFieldsOfRoot DEF ZeroOf, FieldType
<1>2. CASE ~(s = Root /\ n \in PathFields)
  BY <1>2, ZeroOfKind DEF FieldType
<1>3. QED
  BY <1>1, <1>2

\* A function on the valued fields whose values have the fields' types is a record.
LEMMA RecordsIntro ==
  ASSUME NEW s, NEW r,
         r = [n \in ValuedNames(s) |-> r[n]],
         \A n \in ValuedNames(s) : r[n] \in FieldType(s, n)
  PROVE  r \in Records(s)
  BY FieldTypeValues DEF Records

(***************************************************************************)
(* parseEnvs keeps a record well typed.                                    *)
(***************************************************************************)
\* What a variable holds is a literal.
LEMMA FieldValueLit ==
  ASSUME NEW e \in Envs, NEW pfx, NEW f
  PROVE  FieldValue(e, pfx, f) \in LitSet
  BY RunAssumption, LiteralFacts DEF FieldValue, Getenv

LEMMA ParseEnvsType ==
  ASSUME NEW s \in Slots, NEW e \in Envs, NEW r \in Records(s)
  PROVE  ParseEnvs(e, Prefix(s), Schema(s), r).rec \in Records(s)
<1> DEFINE fs   == Schema(s)
           pfx  == Prefix(s)
           stop == Stop(e, pfx, fs)
           New(n) ==
             LET i  == IndexOf(fs, n)
                 f  == fs[i]
                 sv == FieldValue(e, pfx, f)
             IN  CASE i < stop /\ Assigns(f, sv) -> Coerce(f.kind, sv)
                   [] i = stop /\ Clears(f, sv)  -> EmptyMap
                   [] OTHER                      -> r[n]
<1>1. ParseEnvs(e, pfx, fs, r).rec = [n \in ValuedNames(s) |-> New(n)]
  BY DEF ParseEnvs, Records
<1>2. SUFFICES ASSUME NEW n \in ValuedNames(s)
               PROVE  New(n) \in FieldType(s, n)
  BY <1>1, RecordsIntro
<1> DEFINE i  == IndexOf(fs, n)
           f  == fs[i]
           sv == FieldValue(e, pfx, f)
<1>3. f.name = n /\ f.kind = KindOf(s, n) /\ f.kind \in Kinds
  BY IndexOfFacts
<1>4. sv \in LitSet
  BY FieldValueLit
<1>5. r[n] \in FieldType(s, n)
  BY DEF Records
<1>6. CASE i < stop /\ Assigns(f, sv)
  <2>0. ~(i = stop)
    <3>1. i \in Int
      BY IndexOfFacts
    <3>2. QED
      BY <1>6, <3>1
  <2>1. New(n) = Coerce(f.kind, sv)
    BY Zenon, <1>6, <2>0
  <2>2. f.kind \in Kinds \ {"other"} /\ Parses(f.kind, sv) /\ sv # Unset
    BY <1>3, <1>6 DEF Assigns, Rejects, Skipped
  <2>3. Coerce(f.kind, sv) \in TypeOfKind(f.kind)
    BY <1>4, <2>2, CoerceType
  <2>4. CASE s = Root /\ n \in PathFields
    <3>1. f.kind = "string"
      BY <1>3, <2>4, PathFieldsOfRoot
    <3>2. Coerce(f.kind, sv) = sv
      BY <3>1 DEF Coerce
    <3>3. sv \in PathLits \cup {Unset}
      BY <2>4, RunAssumption DEF Prefix, Schema
    <3>4. QED
      BY <2>1, <2>2, <2>4, <3>2, <3>3 DEF FieldType
  <2>5. CASE ~(s = Root /\ n \in PathFields)
    BY <1>3, <2>1, <2>3, <2>5 DEF FieldType
  <2>6. QED
    BY <2>4, <2>5
<1>7. CASE ~(i < stop /\ Assigns(f, sv)) /\ i = stop /\ Clears(f, sv)
  <2>1. New(n) = EmptyMap
    BY Zenon, <1>7
  <2>4. f.kind = "map"
    BY <1>7 DEF Clears
  <2>2. ~(s = Root /\ n \in PathFields)
    BY <1>3, <2>4, PathFieldsOfRoot
  <2>3. QED
    BY <1>3, <2>1, <2>2, <2>4, EmptyMapType DEF FieldType, TypeOfKind
<1>8. CASE ~(i < stop /\ Assigns(f, sv)) /\ ~(i = stop /\ Clears(f, sv))
  <2>1. New(n) = r[n]
    BY Zenon, <1>8
  <2>2. QED
    BY <1>5, <2>1
<1>9. QED
  BY <1>6, <1>7, <1>8

\* A tree's root is a record, never the nil of a missing add-on.
LEMMA RootNotNil ==
  ASSUME NEW c, IsTree(c)
  PROVE  c[Root] # Nil
  BY RunAssumption, SlotFacts DEF IsTree, Slots

\* UpdateFromEnvs turns a tree into a tree and returns one of its statuses.
LEMMA UpdateResultType ==
  ASSUME env \in Envs, NEW c, IsTree(c)
  PROVE  /\ IsTree(UpdateResult(c).cfg)
         /\ UpdateResult(c).status \in {"ok", "failed", "panic"}
<1>1. \A s \in Slots : c[s] # Nil => PassOf(c, s).rec \in Records(s)
  <2> SUFFICES ASSUME NEW s \in Slots, c[s] # Nil
               PROVE  PassOf(c, s).rec \in Records(s)
    OBVIOUS
  <2>1. c[s] \in Records(s)
    BY DEF IsTree, Slots
  <2>2. QED
    BY <2>1, ParseEnvsType DEF PassOf
<1>2. \A s \in Slots : c[s] = Nil => PassOf(c, s).rec = Nil
  BY DEF PassOf
<1>3. \A x : PassOf(c, x).status \in {"ok", "failed", "panic"}
  BY DEF PassOf, ParseEnvsNil
<1>4. c[Root] # Nil
  BY RootNotNil
<1>5. IsTree(UpdateResult(c).cfg)
  BY <1>1, <1>2, <1>4, SlotFacts DEF UpdateResult, IsTree, Slots
<1>6. QED
  BY <1>3, <1>5 DEF UpdateResult

(***************************************************************************)
(* The document: serialization, decoding and torn writes.                  *)
(***************************************************************************)
LEMMA RootSerialKeysNames ==
  \A i \in 1..13 : RootSerialKeys[i][1] = Root /\ RootSerialKeys[i][2] \in RootNames
<1> SUFFICES ASSUME NEW i \in 1..13
             PROVE  RootSerialKeys[i][1] = Root /\ RootSerialKeys[i][2] \in RootNames
  OBVIOUS
<1>1. CASE i = 1
  BY <1>1 DEF RootSerialKeys, RootNames
<1>2. CASE i = 2
  BY <1>2 DEF RootSerialKeys, RootNames
<1>3. CASE i = 3
  BY <1>3 DEF RootSerialKeys, RootNames
<1>4. CASE i = 4
  BY <1>4 DEF RootSerialKeys, RootNames
<1>5. CASE i = 5
  BY <1>5 DEF RootSerialKeys, RootNames
<1>6. CASE i = 6
  BY <1>6 DEF RootSerialKeys, RootNames
<1>7. CASE i = 7
  BY <1>7 DEF RootSerialKeys, RootNames
<1>8. CASE i = 8
  BY <1>8 DEF RootSerialKeys, RootNames
<1>9. CASE i = 9
  BY <1>9 DEF RootSerialKeys, RootNames
<1>10. CASE i = 10
  BY <1>10 DEF RootSerialKeys, RootNames
<1>11. CASE i = 11
  BY <1>11 DEF RootSerialKeys, RootNames
<1>12. CASE i = 12
  BY <1>12 DEF RootSerialKeys, RootNames
<1>13. CASE i = 13
  BY <1>13 DEF RootSerialKeys, RootNames
<1>14. QED
  BY <1>1, <1>2, <1>3, <1>4, <1>5, <1>6, <1>7, <1>8, <1>9, <1>10, <1>11, <1>12, <1>13

\* Every key yaml.Marshal writes is a valued field of its slot.
LEMMA SerialKeysKnown ==
  /\ SerialKeys \in Seq(Slots \X STRING)
  /\ \A i \in 1..Len(SerialKeys) :
        SerialKeys[i][1] \in Slots /\ SerialKeys[i][2] \in ValuedNames(SerialKeys[i][1])
<1>1. RootNames \subseteq STRING
  BY Zenon, LiteralAssumption DEF RootNames
<1>2. RootSerialKeys \in Seq(Slots \X STRING)
      /\ \A i \in 1..Len(RootSerialKeys) :
            RootSerialKeys[i][1] = Root /\ RootSerialKeys[i][2] \in ValuedNames(Root)
  BY <1>1, RootSerialKeysNames, RootValuedNames DEF RootSerialKeys, Slots
<1>3. AddonSerialKeys \in Seq(Slots \X STRING)
      /\ \A i \in 1..Len(AddonSerialKeys) :
            AddonSerialKeys[i][1] \in Slots /\ AddonSerialKeys[i][2] \in ValuedNames(AddonSerialKeys[i][1])
  BY SchemaAssumption DEF Slots
<1>4. QED
  BY <1>2, <1>3, ConcatProperties DEF SerialKeys

\* yaml.Marshal of a tree is a document of well-typed entries.
LEMMA SerializeType ==
  ASSUME NEW c, IsTree(c)
  PROVE  Serialize(c) \in Seq(Entries)
<1> DEFINE K == SerialKeys
           Val(k) == IF c[k[1]] = Nil THEN Nil ELSE c[k[1]][k[2]]
<1>1. Serialize(c) = [i \in 1..Len(K) |-> [slot |-> K[i][1], name |-> K[i][2], val |-> Val(K[i])]]
  BY DEF Serialize
<1>2. SUFFICES ASSUME NEW i \in 1..Len(K)
               PROVE  [slot |-> K[i][1], name |-> K[i][2], val |-> Val(K[i])] \in Entries
  BY <1>1, SerialKeysKnown
<1>3. K[i][1] \in Slots /\ K[i][2] \in ValuedNames(K[i][1]) /\ K[i][1] \in STRING /\ K[i][2] \in STRING
  <2>1. K[i][1] \in Slots /\ K[i][2] \in ValuedNames(K[i][1])
    BY SerialKeysKnown
  <2>2. K[i][1] \in STRING
    BY Zenon, <2>1, SlotFacts
  <2>3. K \in Seq(Slots \X STRING)
    BY SerialKeysKnown
  <2>4. K[i][2] \in STRING
    BY Zenon, <2>3, SeqPairs
  <2>5. QED
    BY <2>1, <2>2, <2>4
<1>4. CASE c[K[i][1]] = Nil
  BY <1>3, <1>4 DEF Entries
<1>5. CASE c[K[i][1]] # Nil
  <2>1. c[K[i][1]] \in Records(K[i][1])
    BY <1>3, <1>5 DEF IsTree, Slots
  <2>2. Val(K[i]) \in FieldType(K[i][1], K[i][2])
    BY <1>3, <1>5, <2>1 DEF Records
  <2>3. QED
    BY <1>3, <2>2, FieldTypeValues DEF Entries, KnownKey
<1>6. QED
  BY <1>4, <1>5

\* The value Unmarshal leaves in a field has the field's type.
LEMMA EntryValType ==
  ASSUME NEW es \in Seq(Entries), NEW s \in Slots, NEW n \in ValuedNames(s)
  PROVE  EntryVal(es, s, n) \in FieldType(s, n)
<1> DEFINE at == {i \in 1..Len(es) : es[i].slot = s /\ es[i].name = n /\ es[i].val # Nil}
<1>1. CASE at = {}
  BY <1>1, ZeroOfType DEF EntryVal
<1>2. CASE at # {}
  <2>1. PICK i \in at : EntryVal(es, s, n) = es[i].val
    BY <1>2 DEF EntryVal
  <2>2. es[i] \in Entries
    OBVIOUS
  <2>3. KnownKey(es[i]) /\ es[i].val # Nil
    BY <2>1 DEF KnownKey
  <2>4. QED
    BY <2>1, <2>2, <2>3 DEF Entries
<1>3. QED
  BY <1>1, <1>2

\* Unmarshal of a file of well-typed entries is a tree.
LEMMA DecodeType ==
  ASSUME NEW file \in Files
  PROVE  IsTree(Decode(file))
<1> DEFINE es == file.entries
<1>1. es \in Seq(Entries)
  BY DEF Files
<1>2. \A s \in Slots : [n \in ValuedNames(s) |-> EntryVal(es, s, n)] \in Records(s)
  BY <1>1, EntryValType, RecordsIntro
<1>3. QED
  BY <1>2, SlotFacts DEF Decode, IsTree, Slots

\* A write cut short leaves a file of the document type.
LEMMA TornFilesType ==
  ASSUME NEW doc \in Seq(Entries)
  PROVE  TornFiles(doc) \subseteq Files
<1> SUFFICES ASSUME NEW k \in 0..Len(doc), NEW g \in BOOLEAN
             PROVE  [entries |-> SubSeq(doc, 1, k), garbled |-> g] \in Files
  BY DEF TornFiles
<1>1. SubSeq(doc, 1, k) \in Seq(Entries)
  BY SubSeqProperties
<1>2. QED
  BY <1>1 DEF Files

LEMMA FileType ==
  ASSUME NEW doc \in Seq(Entries)
  PROVE  File(doc) \in Files
  BY DEF File, Files

(***************************************************************************)
(* unsafeSync's path resolution and NewDefault's root record.              *)
(***************************************************************************)
\* Resolving the paths of a tree with a ConfigPath gives a tree whose
\* ConfigPath is one of the absolute paths.
LEMMA ResolvedType ==
  ASSUME NEW c, IsTree(c), c[Root].ConfigPath # Unset
  PROVE  /\ IsTree(Resolved(c))
         /\ Resolved(c)[Root].ConfigPath.text \in AbsPaths
<1> DEFINE rec == c[Root]
<1>1. rec \in Records(Root)
  BY DEF IsTree
<1>2. "ConfigPath" \in ValuedNames(Root) /\ "KubeconfigPath" \in ValuedNames(Root)
  BY PathFieldsOfRoot DEF PathFields
<1>3. rec.ConfigPath \in PathLits
  BY <1>1, <1>2 DEF Records, FieldType, PathFields
<1>4. rec.KubeconfigPath # Unset => rec.KubeconfigPath \in PathLits
  BY <1>1, <1>2 DEF Records, FieldType, PathFields
<1>5. {Text(x) : x \in AbsPaths} \subseteq PathLits
  BY DEF PathLits
<1>6. \A n \in ValuedNames(Root) : ResolvedRoot(rec)[n] \in FieldType(Root, n)
  BY <1>1, <1>3, <1>4, <1>5, LiteralFacts DEF ResolvedRoot, Records, FieldType, PathFields
<1>7. ResolvedRoot(rec) \in Records(Root)
  BY <1>1, <1>6, RecordsIntro DEF ResolvedRoot, Records
<1>8. ResolvedRoot(rec).ConfigPath \in {Text(x) : x \in AbsPaths}
  BY <1>1, <1>2, <1>3, LiteralFacts DEF ResolvedRoot, Records
<1>9. QED
  BY <1>7, <1>8, SlotFacts DEF Resolved, IsTree, Slots, Text

\* NewDefault's root record (lines 91-128) fits the root schema.
LEMMA RootDefaultType ==
  ASSUME NEW name \in LitSet
  PROVE  RootDefault(name) \in Records(Root)
<1>1. \A n \in RootNames : RootDefault(name)[n] \in FieldType(Root, n)
  <2> SUFFICES ASSUME NEW n \in RootNames
               PROVE  RootDefault(name)[n] \in FieldType(Root, n)
    OBVIOUS
  <2>1. {"info", "stderr", "kubectl-v1.21.0-download-url", "/tmp/kubectl-test-v1.21.0"} \subseteq STRING
    BY Zenon, LiteralAssumption
  <2>2. {Text("info"), Text("stderr"), Text("kubectl-v1.21.0-download-url"),
         Text("/tmp/kubectl-test-v1.21.0")} \subseteq LitSet
    BY <2>1 DEF Text, LitSet
  <2>3. CASE n = "Prompt"
    BY <2>3, <2>1, <2>2, RootKindOf DEF RootDefault, RootNames, RootKind, FieldType, PathFields, TypeOfKind, BoolLit, Slice, Dec
  <2>4. CASE n = "ClusterName"
    BY <2>4, <2>1, <2>2, RootKindOf DEF RootDefault, RootNames, RootKind, FieldType, PathFields, TypeOfKind, BoolLit, Slice, Dec
  <2>5. CASE n = "ConfigPath"
    BY <2>5 DEF RootDefault, FieldType, PathFields
  <2>6. CASE n = "LogColor"
    BY <2>6, <2>1, <2>2, RootKindOf DEF RootDefault, RootNames, RootKind, FieldType, PathFields, TypeOfKind, BoolLit, Slice, Dec
  <2>7. CASE n = "LogColorOverride"
    <3>1. RootDefault(name)[n] = Unset
      BY <2>7 DEF RootDefault
    <3>2. FieldType(Root, n) = LitSet
      BY <2>7, RootKindOf DEF FieldType, PathFields, RootNames, RootKind, TypeOfKind
    <3>3. QED
      BY <3>1, <3>2, LiteralFacts
  <2>8. CASE n = "LogLevel"
    BY <2>8, <2>1, <2>2, RootKindOf DEF RootDefault, RootNames, RootKind, FieldType, PathFields, TypeOfKind, BoolLit, Slice, Dec
  <2>9. CASE n = "LogOutputs"
    <3>1. RootDefault(name)[n] = Slice(<<Text("stderr")>>)
      BY <2>9 DEF RootDefault
    <3>2. FieldType(Root, n) = [slice : Seq(LitSet)]
      BY <2>9, RootKindOf DEF FieldType, PathFields, RootNames, RootKind, TypeOfKind
    <3>3. QED
      BY <3>1, <3>2, <2>2 DEF Slice
  <2>10. CASE n = "KubectlDownloadURL"
    BY <2>10, <2>1, <2>2, RootKindOf DEF RootDefault, RootNames, RootKind, FieldType, PathFields, TypeOfKind, BoolLit, Slice, Dec
  <2>11. CASE n = "KubectlPath"
    BY <2>11, <2>1, <2>2, RootKindOf DEF RootDefault, RootNames, RootKind, FieldType, PathFields, TypeOfKind, BoolLit, Slice, Dec
  <2>12. CASE n = "KubeconfigPath"
    BY <2>12 DEF RootDefault, FieldType, PathFields
  <2>13. CASE n = "KubeconfigContext"
    <3>1. RootDefault(name)[n] = Unset
      BY <2>13 DEF RootDefault
    <3>2. FieldType(Root, n) = LitSet
      BY <2>13, RootKindOf DEF FieldType, PathFields, RootNames, RootKind, TypeOfKind
    <3>3. QED
      BY <3>1, <3>2, LiteralFacts
  <2>14. CASE n = "MinimumNodes"
    <3>1. RootDefault(name)[n] = Dec(1)
      BY <2>14 DEF RootDefault
    <3>2. FieldType(Root, n) = [dec : Int]
      BY <2>14, RootKindOf DEF FieldType, PathFields, RootNames, RootKind, TypeOfKind
    <3>3. QED
      BY <3>1, <3>2 DEF Dec
  <2>15. CASE n = "TotalNodes"
    <3>1. RootDefault(name)[n] = Dec(0)
      BY <2>15 DEF RootDefault
    <3>2. FieldType(Root, n) = [dec : Int]
      BY <2>15, RootKindOf DEF FieldType, PathFields, RootNames, RootKind, TypeOfKind
    <3>3. QED
      BY <3>1, <3>2 DEF Dec
  <2>16. QED
    BY <2>3, <2>4, <2>5, <2>6, <2>7, <2>8, <2>9, <2>10, <2>11, <2>12, <2>13, <2>14, <2>15 DEF RootNames
<1>2. QED
  BY <1>1, RootValuedNames, RecordsIntro DEF RootDefault, RootNames

(***************************************************************************)
(* Steps.                                                                  *)
(***************************************************************************)
\* Writing a well-typed value into a field of a present record keeps a tree.
LEMMA TreeUpdate ==
  ASSUME NEW c, IsTree(c), NEW s \in Slots, c[s] # Nil,
         NEW n \in ValuedNames(s), NEW v \in FieldType(s, n)
  PROVE  IsTree([c EXCEPT ![s][n] = v])
<1>1. c[s] \in Records(s)
  BY DEF IsTree, Slots
<1>2. [c[s] EXCEPT ![n] = v] \in Records(s)
  BY <1>1, FieldTypeValues DEF Records
<1>3. QED
  BY <1>2 DEF IsTree, Slots

\* unsafeSync past the empty-path check (StartWrite), from any tree.
LEMMA StartWriteStep ==
  ASSUME TypeOK, env' = env, NEW c, IsTree(c),
         NEW failRet \in {"error", "warn"}, StartWrite(c, failRet)
  PROVE  IInv'
<1> DEFINE r == Resolved(c)
           path == r[Root].ConfigPath.text
<1>1. c[Root].ConfigPath # Unset
  BY DEF StartWrite
<1>2. IsTree(r) /\ path \in AbsPaths
  BY <1>1, ResolvedType
<1>3. CASE path \in Unwritable /\ cfg' = r /\ phase' = "ready" /\ ret' = failRet
           /\ UNCHANGED <<disk, pending, written>>
  BY <1>2, <1>3 DEF IInv, TypeOK
<1>4. CASE path \notin Unwritable /\ cfg' = r /\ phase' = "writing"
           /\ disk' = [disk EXCEPT ![path] = File(<< >>)]
           /\ pending' = [path |-> path, doc |-> Serialize(r), of |-> r]
           /\ written' = [written EXCEPT ![path] = Torn] /\ ret' = "none"
  <2>1. Serialize(r) \in Seq(Entries)
    BY <1>2, SerializeType
  <2>2. File(<< >>) \in Files
    BY FileType, EmptySeq
  <2>3. IsPending(pending')
    BY <1>2, <1>4, <2>1 DEF IsPending
  <2>4. QED
    BY <1>2, <1>4, <2>2, <2>3 DEF IInv, TypeOK
<1>5. QED
  BY <1>3, <1>4 DEF StartWrite

(***************************************************************************)
(* The type invariant.                                                     *)
(***************************************************************************)
LEMMA InitIInv ==
  Init => IInv
  BY RunAssumption DEF Init, IInv, TypeOK

LEMMA NextIInv ==
  IInv /\ [Next]_vars => IInv'
<1> SUFFICES ASSUME IInv, [Next]_vars PROVE IInv'
  OBVIOUS
<1>1. TypeOK
  BY DEF IInv
<1>2. CASE NewDefault
  <2>1. PICK g \in GeneratedNames :
          LET v == Getenv(env, ENV_PREFIX \o "CLUSTER_NAME")
              name == IF v # Unset THEN v ELSE Text(g)
          IN  cfg' = [s \in Slots |-> IF s = Root THEN RootDefault(name) ELSE AddonDefault[s]]
    BY <1>2 DEF NewDefault
  <2> DEFINE v == Getenv(env, ENV_PREFIX \o "CLUSTER_NAME")
             name == IF v # Unset THEN v ELSE Text(g)
  <2>2. g \in STRING
    BY Zenon, RunAssumption
  <2>3. v \in LitSet
    BY <1>1, RunAssumption, LiteralFacts DEF TypeOK, Getenv
  <2>4. name \in LitSet
    BY <2>2, <2>3 DEF Text, LitSet
  <2>5. RootDefault(name) \in Records(Root)
    BY <2>4, RootDefaultType
  <2>6. IsTree(cfg')
    BY <2>1, <2>5, SchemaAssumption, SlotFacts DEF IsTree, Slots
  <2>7. QED
    BY <1>1, <1>2, <2>6 DEF NewDefault, IInv, TypeOK
<1>3. CASE \E p \in LoadPaths : Load(p)
  <2>1. PICK p \in LoadPaths : Load(p)
    BY <1>3
  <2> DEFINE ap == Abs(p)
             file == disk[ap.text]
  <2>2. ap \in {Text(x) : x \in AbsPaths} /\ ap \in PathLits
    BY PathAssumption, LiteralFacts DEF PathLits
  <2>3. CASE ~Loadable(file) /\ ret' = "error" /\ UNCHANGED <<phase, cfg, env, disk, pending, written>>
    BY <1>1, <2>3 DEF IInv, TypeOK, Load
  <2>4. CASE Loadable(file)
             /\ StartWrite([Decode(file) EXCEPT ![Root].ConfigPath = ap], "warn")
             /\ UNCHANGED env
    <3>1. file \in Files
      BY <1>1, <2>2, <2>4 DEF TypeOK, Loadable, Text
    <3>2. IsTree(Decode(file)) /\ Decode(file)[Root] # Nil
      BY <3>1, DecodeType, RootNotNil
    <3>3. IsTree([Decode(file) EXCEPT ![Root].ConfigPath = ap])
      BY <2>2, <3>2, TreeUpdate, PathFieldsOfRoot, SlotFacts DEF FieldType, PathFields, Slots
    <3>4. QED
      BY <1>1, <2>4, <3>3, StartWriteStep
  <2>5. QED
    BY <2>1, <2>3, <2>4 DEF Load
<1>4. CASE UpdateFromEnvs
  <2>1. IsTree(cfg) /\ env \in Envs
    BY <1>1, <1>4 DEF IInv, TypeOK, UpdateFromEnvs
  <2>2. IsTree(UpdateResult(cfg).cfg) /\ UpdateResult(cfg).status \in {"ok", "failed", "panic"}
    BY <2>1, UpdateResultType
  <2>3. QED
    BY <1>1, <1>4, <2>2 DEF UpdateFromEnvs, IInv, TypeOK
<1>5. CASE Sync
  <2>1. IsTree(cfg)
    BY <1>5 DEF IInv, Sync
  <2>2. CASE EmptyConfigPath(cfg, "error")
    BY <1>1, <1>5, <2>1, <2>2 DEF EmptyConfigPath, Sync, IInv, TypeOK
  <2>3. CASE StartWrite(cfg, "error")
    BY <1>1, <1>5, <2>1, <2>3, StartWriteStep DEF Sync
  <2>4. QED
    BY <1>5, <2>2, <2>3 DEF Sync
<1>6. CASE WriteDone
  <2>1. IsPending(pending) /\ IsTree(cfg)
    BY <1>6 DEF IInv, WriteDone
  <2>2. File(pending.doc) \in Files
    BY <2>1, FileType DEF IsPending
  <2>3. QED
    BY <1>1, <1>6, <2>1, <2>2 DEF WriteDone, IInv, TypeOK, IsPending
<1>7. CASE CollaboratorWrite
  <2>1. PICK w \in CollabWrites : cfg[w.slot] # Nil /\ cfg' = [cfg EXCEPT ![w.slot][w.name] = w.val]
    BY <1>7 DEF CollaboratorWrite
  <2>2. w.slot \in Slots /\ w.name \in ValuedNames(w.slot) /\ w.val \in FieldType(w.slot, w.name)
    BY RunAssumption
  <2>3. IsTree(cfg)
    BY <1>7 DEF IInv, CollaboratorWrite
  <2>4. IsTree(cfg')
    BY <2>1, <2>2, <2>3, TreeUpdate
  <2>5. QED
    BY <1>1, <1>7, <2>4 DEF CollaboratorWrite, IInv, TypeOK
<1>8. CASE Crash
  <2>1. CASE phase = "writing"
    <3>1. IsPending(pending)
      BY <2>1 DEF IInv
    <3>2. PICK f \in TornFiles(pending.doc) :
            /\ disk' = [disk EXCEPT ![pending.path] = f]
            /\ written' = [written EXCEPT ![pending.path] =
                              IF f = File(pending.doc) THEN pending.of ELSE Torn]
      BY <1>8, <2>1 DEF Crash
    <3>3. f \in Files
      BY <3>1, TornFilesType DEF IsPending
    <3>4. QED
      BY <1>1, <1>8, <3>1, <3>2, <3>3 DEF Crash, IInv, TypeOK, IsPending
  <2>2. CASE phase # "writing"
    BY <1>1, <1>8, <2>2 DEF Crash, IInv, TypeOK
  <2>3. QED
    BY <2>1, <2>2
<1>9. CASE UNCHANGED vars
  BY <1>9 DEF IInv, TypeOK, IsPending, IsTree, Records, FieldType, vars
<1>10. QED
  BY <1>2, <1>3, <1>4, <1>5, <1>6, <1>7, <1>8, <1>9 DEF Next

\* Type correctness of the whole program: in every reachable state the tree
\* is a tree of well-typed records (every override, decode and resolution
\* stores a value of the field's Go type), the files hold documents of
\* well-typed entries, and a write in progress names a file of the model.
THEOREM TypeCorrect ==
  Spec => []TypeOK
<1>1. Init => IInv
  BY InitIInv
<1>2. IInv /\ [Next]_vars => IInv'
  BY NextIInv
<1>3. IInv => TypeOK
  BY DEF IInv
<1>4. QED
  BY <1>1, <1>2, <1>3, PTL DEF Spec
=============================================================================
