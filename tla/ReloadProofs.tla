----------------------------- MODULE ReloadProofs -----------------------------
(***************************************************************************)
(* The round trip of the persistence layer: Load(p) of a file that         *)
(* unsafeSync wrote whole returns exactly the tree that was written        *)
(* (ReloadReturnsSaved).  yaml.Marshal writes a key for every field of the *)
(* root and of every add-on, a nil add-on's keys as null; Unmarshal reads  *)
(* each key back and leaves an add-on with only null keys nil; and since   *)
(* the tree was resolved before it was marshalled, Load's own resolution   *)
(* and re-save (lines 150-160) change nothing in it.                       *)
(***************************************************************************)
EXTENDS SavedPathsProofs

(***************************************************************************)
(* Every field is serialized.                                              *)
(***************************************************************************)
\* The document's keys: the add-on sections, then the thirteen root keys.
LEMMA SerialKeysSplit ==
  /\ Len(AddonSerialKeys) \in Nat
  /\ Len(SerialKeys) = Len(AddonSerialKeys) + 13
  /\ \A i \in 1..Len(AddonSerialKeys) : SerialKeys[i] = AddonSerialKeys[i]
  /\ \A j \in 1..13 : SerialKeys[Len(AddonSerialKeys) + j] = RootSerialKeys[j]
<1> DEFINE A == AddonSerialKeys
<1>1. A \in Seq(Slots \X STRING) /\ RootSerialKeys \in Seq(Slots \X STRING)
  <2>1. A \in Seq(Slots \X STRING)
    BY SchemaAssumption DEF Slots
  <2>2. RootSerialKeys \in Seq(Slots \X STRING)
    <3>1. {"ClusterName", "ConfigPath", "KubeconfigContext", "KubeconfigPath",
           "KubectlDownloadURL", "KubectlPath", "LogLevel", "LogOutputs", "LogColor",
           "LogColorOverride", "MinimumNodes", "Prompt", "TotalNodes"} \subseteq STRING
      BY Zenon, LiteralAssumption
    <3>2. QED
      BY <3>1, SlotFacts DEF RootSerialKeys, Slots
  <2>3. QED
    BY <2>1, <2>2
<1>2. Len(RootSerialKeys) = 13
  BY DEF RootSerialKeys
<1>3. /\ Len(A \o RootSerialKeys) = Len(A) + Len(RootSerialKeys)
      /\ \A i \in 1..Len(A) + Len(RootSerialKeys) :
            (A \o RootSerialKeys)[i] = IF i <= Len(A) THEN A[i] ELSE RootSerialKeys[i - Len(A)]
  BY Zenon, <1>1, ConcatProperties
<1>4. Len(A) \in Nat
  BY <1>1
<1>5. SerialKeys = A \o RootSerialKeys
  BY DEF SerialKeys
<1>6. Len(SerialKeys) = Len(A) + 13
  BY <1>2, <1>3, <1>5
<1>7. \A i \in 1..Len(A) : SerialKeys[i] = A[i]
  <2> SUFFICES ASSUME NEW i \in 1..Len(A) PROVE SerialKeys[i] = A[i]
    OBVIOUS
  <2>1. i \in 1..Len(A) + Len(RootSerialKeys) /\ i <= Len(A)
    BY <1>2, <1>4
  <2>2. QED
    BY <1>3, <1>5, <2>1
<1>8. \A j \in 1..13 : SerialKeys[Len(A) + j] = RootSerialKeys[j]
  <2> SUFFICES ASSUME NEW j \in 1..13 PROVE SerialKeys[Len(A) + j] = RootSerialKeys[j]
    OBVIOUS
  <2>1. Len(A) + j \in 1..Len(A) + Len(RootSerialKeys) /\ ~(Len(A) + j <= Len(A))
        /\ (Len(A) + j) - Len(A) = j
    BY <1>2, <1>4
  <2>2. (A \o RootSerialKeys)[Len(A) + j] = RootSerialKeys[(Len(A) + j) - Len(A)]
    BY <1>3, <2>1
  <2>3. QED
    BY <1>5, <2>1, <2>2
<1>9. QED
  BY <1>4, <1>6, <1>7, <1>8

\* Each root field has its key among the thirteen.
LEMMA RootKeysListed ==
  \A n \in RootNames : \E j \in 1..13 : RootSerialKeys[j] = <<Root, n>>
  BY DEF RootNames, RootSerialKeys

\* yaml.Marshal writes a key for every field of every slot.
LEMMA AllKeysSerialized ==
  ASSUME NEW s \in Slots, NEW n \in ValuedNames(s)
  PROVE  \E i \in 1..Len(SerialKeys) : SerialKeys[i] = <<s, n>>
<1>1. CASE s = Root
  <2>1. n \in RootNames
    BY <1>1, RootValuedNames
  <2>2. PICK j \in 1..13 : RootSerialKeys[j] = <<Root, n>>
    BY <2>1, RootKeysListed
  <2>6. Len(AddonSerialKeys) \in Nat /\ Len(SerialKeys) = Len(AddonSerialKeys) + 13
    BY SerialKeysSplit
  <2>3. Len(AddonSerialKeys) + j \in 1..Len(SerialKeys)
    BY <2>6
  <2>5. SerialKeys[Len(AddonSerialKeys) + j] = <<s, n>>
    BY <1>1, <2>2, SerialKeysSplit, Zenon
  <2>4. QED
    BY <2>3, <2>5
<1>2. CASE s # Root
  <2>1. s \in Addons
    BY <1>2 DEF Slots
  <2>2. PICK i \in 1..Len(AddonSerialKeys) : AddonSerialKeys[i] = <<s, n>>
    BY <2>1, SchemaAssumption
  <2>3. i \in 1..Len(SerialKeys)
    BY SerialKeysSplit
  <2>5. SerialKeys[i] = <<s, n>>
    BY <2>2, SerialKeysSplit, Zenon
  <2>4. QED
    BY <2>3, <2>5
<1>3. QED
  BY <1>1, <1>2
(***************************************************************************)
(* Unmarshal of the document of a tree.                                    *)
(***************************************************************************)
\* The entries yaml.Marshal writes for a tree, one per key.
LEMMA SerializeEntries ==
  ASSUME NEW c
  PROVE  /\ Len(Serialize(c)) = Len(SerialKeys)
         /\ \A i \in 1..Len(SerialKeys) :
               Serialize(c)[i] = [slot |-> SerialKeys[i][1], name |-> SerialKeys[i][2],
                                  val |-> IF c[SerialKeys[i][1]] = Nil THEN Nil
                                          ELSE c[SerialKeys[i][1]][SerialKeys[i][2]]]
  BY SerialKeysKnown DEF Serialize

\* A field never holds the null of YAML.
LEMMA FieldNotNil ==
  ASSUME NEW s \in Slots, NEW r \in Records(s), NEW n \in ValuedNames(s)
  PROVE  r[n] # Nil
  BY FieldTypeValues, RunAssumption DEF Records

\* Every key of a present slot reads back the value that was written.
LEMMA EntryValSerialized ==
  ASSUME NEW c, IsTree(c), NEW s \in Slots, c[s] # Nil, NEW n \in ValuedNames(s)
  PROVE  EntryVal(Serialize(c), s, n) = c[s][n]
<1> DEFINE K == SerialKeys
           es == Serialize(c)
           at == {i \in 1..Len(es) : es[i].slot = s /\ es[i].name = n /\ es[i].val # Nil}
<1>1. c[s] \in Records(s)
  BY DEF IsTree, Slots
<1>2. c[s][n] # Nil
  BY <1>1, FieldNotNil
<1>3. \A i \in at : es[i].val = c[s][n]
  <2> SUFFICES ASSUME NEW i \in at PROVE es[i].val = c[s][n]
    OBVIOUS
  <2>1. i \in 1..Len(K) /\ es[i].slot = s /\ es[i].name = n
    BY SerializeEntries DEF at
  <2>2. es[i] = [slot |-> K[i][1], name |-> K[i][2],
                 val |-> IF c[K[i][1]] = Nil THEN Nil ELSE c[K[i][1]][K[i][2]]]
    BY <2>1, SerializeEntries
  <2>3. K[i][1] = s /\ K[i][2] = n
    BY <2>1, <2>2
  <2>4. es[i].val = IF c[K[i][1]] = Nil THEN Nil ELSE c[K[i][1]][K[i][2]]
    BY <2>2
  <2>5. QED
    BY <2>3, <2>4
<1>4. at # {}
  <2>1. PICK i \in 1..Len(K) : K[i] = <<s, n>>
    BY AllKeysSerialized
  <2>2. i \in 1..Len(es)
    BY SerializeEntries
  <2>3. es[i] = [slot |-> s, name |-> n, val |-> c[s][n]]
    BY <2>1, SerializeEntries
  <2>4. es[i].slot = s /\ es[i].name = n /\ es[i].val = c[s][n]
    BY <2>3
  <2>5. QED
    BY <1>2, <2>2, <2>4 DEF at
<1>5. QED
  BY <1>3, <1>4 DEF EntryVal, at

\* The keys of a nil add-on are all written as null.
LEMMA NilSlotSilent ==
  ASSUME NEW c, NEW s, c[s] = Nil
  PROVE  ~\E i \in 1..Len(Serialize(c)) : Serialize(c)[i].slot = s /\ Serialize(c)[i].val # Nil
<1> SUFFICES ASSUME NEW i \in 1..Len(Serialize(c)), Serialize(c)[i].slot = s
             PROVE  Serialize(c)[i].val = Nil
  OBVIOUS
<1>1. i \in 1..Len(SerialKeys)
  BY SerializeEntries
<1>2. Serialize(c)[i] = [slot |-> SerialKeys[i][1], name |-> SerialKeys[i][2],
                         val |-> IF c[SerialKeys[i][1]] = Nil THEN Nil
                                 ELSE c[SerialKeys[i][1]][SerialKeys[i][2]]]
  BY <1>1, SerializeEntries
<1>3. SerialKeys[i][1] = s
  BY <1>2
<1>4. QED
  BY <1>2, <1>3

\* A present add-on has a key written with a value, so it is not left nil.
LEMMA PresentSlotHeard ==
  ASSUME NEW c, IsTree(c), NEW s \in Slots, c[s] # Nil
  PROVE  \E i \in 1..Len(Serialize(c)) : Serialize(c)[i].slot = s /\ Serialize(c)[i].val # Nil
<1>1. PICK n \in ValuedNames(s) : TRUE
  <2>1. CASE s = Root
    <3>1. "Prompt" \in ValuedNames(s)
      BY <2>1, RootValuedNames DEF RootNames
    <3>2. QED
      BY <3>1
  <2>2. CASE s # Root
    BY <2>2, SchemaAssumption DEF Slots
  <2>3. QED
    BY <2>1, <2>2
<1>2. PICK i \in 1..Len(SerialKeys) : SerialKeys[i] = <<s, n>>
  BY AllKeysSerialized
<1>3. Serialize(c)[i] = [slot |-> s, name |-> n, val |-> c[s][n]] /\ i \in 1..Len(Serialize(c))
  BY <1>2, SerializeEntries
<1>4. c[s][n] # Nil
  BY FieldNotNil DEF IsTree, Slots
<1>5. QED
  BY <1>3, <1>4

\* Unmarshal of the document of a tree gives back the tree, nil add-ons
\* included.
LEMMA RoundTrip ==
  ASSUME NEW c, IsTree(c)
  PROVE  Decode(File(Serialize(c))) = c
<1> DEFINE es == Serialize(c)
           Present(s) == s = Root \/ \E i \in 1..Len(es) : es[i].slot = s /\ es[i].val # Nil
<1>1. Decode(File(es)) = [s \in Slots |-> IF Present(s)
                                          THEN [n \in ValuedNames(s) |-> EntryVal(es, s, n)]
                                          ELSE Nil]
  BY DEF Decode, File
<1>2. ASSUME NEW s \in Slots
      PROVE  (IF Present(s) THEN [n \in ValuedNames(s) |-> EntryVal(es, s, n)] ELSE Nil) = c[s]
  <2>1. CASE c[s] = Nil
    <3>1. s # Root
      BY <2>1, RootNotNil
    <3>2. ~Present(s)
      BY <2>1, <3>1, NilSlotSilent
    <3>3. QED
      BY <2>1, <3>2
  <2>2. CASE c[s] # Nil
    <3>1. Present(s)
      BY <2>2, PresentSlotHeard
    <3>2. c[s] \in Records(s)
      BY <2>2 DEF IsTree, Slots
    <3>3. c[s] = [n \in ValuedNames(s) |-> c[s][n]]
      BY <3>2 DEF Records
    <3>4. \A n \in ValuedNames(s) : EntryVal(es, s, n) = c[s][n]
      BY <2>2, EntryValSerialized
    <3>5. QED
      BY <3>1, <3>3, <3>4
  <2>3. QED
    BY <2>1, <2>2
<1>3. c = [s \in Slots |-> c[s]]
  BY DEF IsTree
<1>4. QED
  BY <1>1, <1>2, <1>3

(***************************************************************************)
(* Load of a whole file.                                                   *)
(***************************************************************************)
\* unsafeSync's resolution leaves a tree that is already resolved as it is.
LEMMA ResolvedFixed ==
  ASSUME NEW c, IsTree(c), NEW p \in AbsPaths, PathsResolved(c, p)
  PROVE  Resolved(c) = c
<1> DEFINE rec == c[Root]
<1>1. rec \in Records(Root) /\ Root \in DOMAIN c
  BY SlotFacts DEF IsTree, Slots
<1>2. rec = [n \in ValuedNames(Root) |-> rec[n]]
  BY <1>1 DEF Records
<1>3. IsAbs(rec.ConfigPath)
  BY DEF PathsResolved, IsAbs, Is, Text
<1>4. \A n \in ValuedNames(Root) :
        (IF n = "ConfigPath" \/ (n = "KubeconfigPath" /\ rec[n] # Unset) THEN Abs(rec[n]) ELSE rec[n]) = rec[n]
  <2> SUFFICES ASSUME NEW n \in ValuedNames(Root)
               PROVE  (IF n = "ConfigPath" \/ (n = "KubeconfigPath" /\ rec[n] # Unset)
                       THEN Abs(rec[n]) ELSE rec[n]) = rec[n]
    OBVIOUS
  <2>1. CASE n = "ConfigPath"
    BY <1>3, <2>1 DEF Abs
  <2>2. CASE n = "KubeconfigPath" /\ rec[n] # Unset
    BY <2>2 DEF PathsResolved, Abs
  <2>3. QED
    BY <2>1, <2>2
<1>5. ResolvedRoot(rec) = rec
  BY <1>2, <1>4 DEF ResolvedRoot
<1>6. QED
  BY <1>1, <1>5 DEF Resolved, IsTree

\* Load's re-save of a tree it read from a whole file, the one unsafeSync
\* resolved and wrote there, keeps that tree in memory.
LEMMA LoadSaved ==
  ASSUME SavedInv, NEW p \in LoadPaths, Load(p),
         written[Abs(p).text] \notin {Nil, Torn}
  PROVE  cfg' = written[Abs(p).text]
<1> DEFINE q == Abs(p).text
           w == written[q]
<1>1. Abs(p) \in {Text(x) : x \in AbsPaths}
  BY PathAssumption, LiteralFacts DEF PathLits
<1>2. q \in AbsPaths /\ Abs(p) = Text(q)
  BY <1>1 DEF Text
<1>3. IsTree(w) /\ disk[q] = File(Serialize(w)) /\ PathsResolved(w, q)
  BY <1>2 DEF SavedInv, IInv, TypeOK
<1>4. Loadable(disk[q])
  <2>1. Serialize(w) \in Seq(Entries)
    BY <1>3, SerializeType
  <2>2. File(Serialize(w)) \in Files
    BY <2>1, FileType
  <2>3. disk[q] # NoFile
    BY <1>3, <2>2, RunAssumption
  <2>4. Decodes(File(Serialize(w)))
    <3>1. \A i \in 1..Len(Serialize(w)) :
            Serialize(w)[i].slot \in Slots /\ Serialize(w)[i].name \in ValuedNames(Serialize(w)[i].slot)
      <4> SUFFICES ASSUME NEW i \in 1..Len(Serialize(w))
                   PROVE  Serialize(w)[i].slot \in Slots /\ Serialize(w)[i].name \in ValuedNames(Serialize(w)[i].slot)
        OBVIOUS
      <4>1. i \in 1..Len(SerialKeys)
        BY SerializeEntries
      <4>2. Serialize(w)[i] = [slot |-> SerialKeys[i][1], name |-> SerialKeys[i][2],
                               val |-> IF w[SerialKeys[i][1]] = Nil THEN Nil
                                       ELSE w[SerialKeys[i][1]][SerialKeys[i][2]]]
        BY <4>1, SerializeEntries, Zenon
      <4>3. Serialize(w)[i].slot = SerialKeys[i][1] /\ Serialize(w)[i].name = SerialKeys[i][2]
        BY <4>2
      <4>4. QED
        BY <4>1, <4>3, SerialKeysKnown
    <3>2. QED
      BY <3>1 DEF Decodes, File
  <2>5. QED
    BY <1>3, <2>3, <2>4 DEF Loadable
<1>5. Decode(disk[q]) = w
  BY <1>3, RoundTrip
<1>6. [w EXCEPT ![Root].ConfigPath = Abs(p)] = w
  <2>1. w[Root].ConfigPath = Abs(p)
    BY <1>2, <1>3 DEF PathsResolved
  <2>2. w[Root] = [n \in ValuedNames(Root) |-> w[Root][n]] /\ "ConfigPath" \in ValuedNames(Root)
    BY <1>3, SlotFacts, PathFieldsOfRoot DEF IsTree, Slots, Records, PathFields
  <2>3. QED
    BY <2>1, <2>2, <1>3, SlotFacts DEF IsTree, Slots
<1>7. StartWrite(w, "warn")
  BY <1>4, <1>5, <1>6 DEF Load
<1>8. cfg' = Resolved(w)
  BY <1>7 DEF StartWrite
<1>9. QED
  BY <1>2, <1>3, <1>8, ResolvedFixed

\* ReloadReturnsSaved: Load(p) (lines 133-161) of a file that the process
\* wrote completely, by Sync or by an earlier Load's re-save, returns
\* exactly the tree that was written, nil add-ons included: yaml.Marshal
\* and strict Unmarshal are inverse on the trees unsafeSync writes, and
\* Load's resolution and re-save do not change a tree that names its file.
THEOREM ReloadCorrect ==
  Spec => ReloadReturnsSaved
<1>1. Spec => []SavedInv
  BY InitSavedInv, NextSavedInv, PTL DEF Spec
<1>2. SavedInv =>
        \A p \in LoadPaths :
          Load(p) /\ written[Abs(p).text] \notin {Nil, Torn} => cfg' = written[Abs(p).text]
  BY LoadSaved
<1>3. QED
  BY <1>1, <1>2, PTL DEF ReloadReturnsSaved

=============================================================================
