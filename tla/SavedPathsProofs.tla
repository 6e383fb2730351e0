--------------------------- MODULE SavedPathsProofs ---------------------------
(***************************************************************************)
(* Proof that every file k8s-tester wrote whole names itself: its          *)
(* config_path is the absolute path of the file and its kubeconfig_path is *)
(* absolute or empty (SavedPathsAbsolute), for every value of the          *)
(* constants that satisfies the assumptions of ConfigTree.                 *)
(*                                                                         *)
(* The argument follows unsafeSync (lines 170-200): the tree is resolved   *)
(* before yaml.Marshal, so the document of a write in progress is that of  *)
(* a resolved tree; WriteDone and a crash that happens to leave the whole  *)
(* document hand that tree to the file; and Unmarshal of a document reads  *)
(* back the root's path fields it was made from.                           *)
(***************************************************************************)
EXTENDS ConfigTreeProofs

(***************************************************************************)
(* The round trip of the root's path fields.                               *)
(***************************************************************************)
\* yaml.Marshal writes a key for each of the root's path fields.
LEMMA PathKeysSerialized ==
  ASSUME NEW n \in PathFields
  PROVE  \E i \in 1..Len(SerialKeys) : SerialKeys[i] = <<Root, n>>
<1> DEFINE A == AddonSerialKeys
<1>1. A \in Seq(Slots \X STRING) /\ RootSerialKeys \in Seq(Slots \X STRING)
  <2>1. A \in Seq(Slots \X STRING)
    BY SchemaAssumption DEF Slots
  <2>2. RootSerialKeys \in Seq(Slots \X STRING)
    <3>1. {"ClusterName", "ConfigPath", "KubeconfigContext", "KubeconfigPath",
           "KubectlDownloadURL", "KubectlPath", "LogLevel", "LogOutputs", "LogColor",
           "LogColorOverride", "MinimumNodes", "Prompt", "TotalNodes"} \subseteq STRING
      BY Zenon, LiteralAssumption
    <3>2. QED
      BY <3>1, SlotFacts DEF RootSerialKeys, Slots
  <2>3. QED
    BY <2>1, <2>2
<1>2. Len(RootSerialKeys) = 13
  BY DEF RootSerialKeys
<1>3. \A j \in 1..13 : SerialKeys[Len(A) + j] = RootSerialKeys[j] /\ Len(A) + j \in 1..Len(SerialKeys)
  <2>1. /\ Len(SerialKeys) = Len(A) + 13
        /\ \A i \in 1..Len(A) + 13 :
              SerialKeys[i] = IF i <= Len(A) THEN A[i] ELSE RootSerialKeys[i - Len(A)]
    <3>1. /\ Len(A \o RootSerialKeys) = Len(A) + Len(RootSerialKeys)
          /\ \A i \in 1..Len(A) + Len(RootSerialKeys) :
                (A \o RootSerialKeys)[i] = IF i <= Len(A) THEN A[i] ELSE RootSerialKeys[i - Len(A)]
      BY Zenon, <1>1, ConcatProperties
    <3>2. QED
      BY Zenon, <3>1, <1>2 DEF SerialKeys
  <2>2. Len(A) \in Nat
    BY <1>1
  <2>3. QED
    BY <2>1, <2>2
<1>4. RootSerialKeys[2] = <<Root, "ConfigPath">> /\ RootSerialKeys[4] = <<Root, "KubeconfigPath">>
  BY DEF RootSerialKeys
<1>5. CASE n = "ConfigPath"
  <2>0. 2 \in 1..13
    OBVIOUS
  <2>1. Len(A) + 2 \in 1..Len(SerialKeys) /\ SerialKeys[Len(A) + 2] = <<Root, "ConfigPath">>
    BY Zenon, <2>0, <1>3, <1>4
  <2>2. QED
    BY <1>5, <2>1
<1>6. CASE n = "KubeconfigPath"
  <2>0. 4 \in 1..13
    OBVIOUS
  <2>1. Len(A) + 4 \in 1..Len(SerialKeys) /\ SerialKeys[Len(A) + 4] = <<Root, "KubeconfigPath">>
    BY Zenon, <2>0, <1>3, <1>4
  <2>2. QED
    BY <1>6, <2>1
<1>7. QED
  BY <1>5, <1>6 DEF PathFields

\* Unmarshal of the document of a tree gives back its root path fields.
LEMMA DecodeSerializedPath ==
  ASSUME NEW c, IsTree(c), NEW n \in PathFields
  PROVE  Decode(File(Serialize(c)))[Root][n] = c[Root][n]
<1> DEFINE K == SerialKeys
           es == Serialize(c)
           at == {i \in 1..Len(es) : es[i].slot = Root /\ es[i].name = n /\ es[i].val # Nil}
<1>1. c[Root] # Nil /\ c[Root] \in Records(Root)
  BY RootNotNil DEF IsTree
<1>2. n \in ValuedNames(Root)
  BY PathFieldsOfRoot
<1>3. c[Root][n] \in PathLits \cup {Unset} /\ c[Root][n] # Nil
  BY <1>1, <1>2, RunAssumption DEF Records, FieldType
<1>4. Len(es) = Len(K)
      /\ \A i \in 1..Len(K) :
            es[i] = [slot |-> K[i][1], name |-> K[i][2],
                     val |-> IF c[K[i][1]] = Nil THEN Nil ELSE c[K[i][1]][K[i][2]]]
  BY SerialKeysKnown DEF Serialize
<1>5. \A i \in at : es[i].val = c[Root][n]
  <2> SUFFICES ASSUME NEW i \in at PROVE es[i].val = c[Root][n]
    OBVIOUS
  <2>1. i \in 1..Len(K) /\ es[i].slot = Root /\ es[i].name = n
    BY <1>4 DEF at
  <2>5. es[i] = [slot |-> K[i][1], name |-> K[i][2],
                 val |-> IF c[K[i][1]] = Nil THEN Nil ELSE c[K[i][1]][K[i][2]]]
    BY <1>4, <2>1
  <2>2. K[i][1] = Root /\ K[i][2] = n
    BY <2>5, <2>1
  <2>3. es[i].val = IF c[K[i][1]] = Nil THEN Nil ELSE c[K[i][1]][K[i][2]]
    BY <2>5
  <2>4. QED
    BY <1>1, <2>2, <2>3
<1>6. at # {}
  <2>1. PICK i \in 1..Len(K) : K[i] = <<Root, n>>
    BY PathKeysSerialized
  <2>4. i \in 1..Len(es)
    BY <1>4
  <2>5. es[i] = [slot |-> Root, name |-> n, val |-> c[Root][n]]
    BY <1>1, <1>4, <2>1
  <2>2. es[i].slot = Root /\ es[i].name = n /\ es[i].val = c[Root][n]
    BY <2>5
  <2>3. QED
    BY <1>3, <2>4, <2>2 DEF at
<1>7. EntryVal(es, Root, n) = c[Root][n]
  BY <1>5, <1>6 DEF EntryVal, at
<1>8. Decode(File(es))[Root] = [m \in ValuedNames(Root) |-> EntryVal(es, Root, m)]
  BY SlotFacts DEF Decode, File, Slots
<1>9. QED
  BY <1>2, <1>7, <1>8


(***************************************************************************)
(* unsafeSync resolves the paths of the tree it marshals.                  *)
(***************************************************************************)
\* The resolved tree names the file it is written to (lines 175-190).
LEMMA ResolvedPaths ==
  ASSUME NEW c, IsTree(c), c[Root].ConfigPath # Unset
  PROVE  PathsResolved(Resolved(c), Resolved(c)[Root].ConfigPath.text)
<1> DEFINE rec == c[Root]
<1>1. rec \in Records(Root) /\ Root \in DOMAIN c
  BY SlotFacts DEF IsTree, Slots
<1>2. "ConfigPath" \in DOMAIN rec /\ "KubeconfigPath" \in DOMAIN rec
  BY <1>1, PathFieldsOfRoot DEF Records, PathFields
<1>3. rec.ConfigPath \in PathLits /\ (rec.KubeconfigPath # Unset => rec.KubeconfigPath \in PathLits)
  BY <1>1, PathFieldsOfRoot DEF Records, FieldType, PathFields
<1>4. Resolved(c)[Root] = ResolvedRoot(rec)
  BY <1>1 DEF Resolved
<1>5. ResolvedRoot(rec).ConfigPath = Abs(rec.ConfigPath)
  BY <1>2 DEF ResolvedRoot
<1>6. PICK x \in AbsPaths : Abs(rec.ConfigPath) = Text(x)
  BY <1>3, LiteralFacts
<1>7. Resolved(c)[Root].ConfigPath = Text(Resolved(c)[Root].ConfigPath.text)
  BY <1>4, <1>5, <1>6 DEF Text
<1>8. Resolved(c)[Root].KubeconfigPath = Unset \/ IsAbs(Resolved(c)[Root].KubeconfigPath)
  <2>1. CASE rec.KubeconfigPath = Unset
    BY <1>2, <1>4, <2>1 DEF ResolvedRoot
  <2>2. CASE rec.KubeconfigPath # Unset
    <3>1. PICK y \in AbsPaths : Abs(rec.KubeconfigPath) = Text(y)
      BY <1>3, <2>2, LiteralFacts
    <3>2. Resolved(c)[Root].KubeconfigPath = Text(y)
      BY <1>2, <1>4, <2>2, <3>1 DEF ResolvedRoot
    <3>3. QED
      BY <3>2 DEF IsAbs, Is, Text
  <2>3. QED
    BY <2>1, <2>2
<1>9. QED
  BY <1>7, <1>8 DEF PathsResolved

\* unsafeSync past the empty-path check keeps the invariant.
LEMMA StartWriteSaved ==
  ASSUME SavedInv, IInv', NEW c, IsTree(c),
         NEW failRet \in {"error", "warn"}, StartWrite(c, failRet)
  PROVE  SavedInv'
<1> DEFINE r == Resolved(c)
           path == r[Root].ConfigPath.text
<1>1. c[Root].ConfigPath # Unset
  BY DEF StartWrite
<1>2. PathsResolved(r, path) /\ path \in AbsPaths
  BY <1>1, ResolvedPaths, ResolvedType
<1>3. TypeOK
  BY DEF SavedInv, IInv
<1>4. CASE path \in Unwritable /\ cfg' = r /\ phase' = "ready" /\ ret' = failRet
           /\ UNCHANGED <<disk, pending, written>>
  BY <1>4 DEF SavedInv
<1>5. CASE path \notin Unwritable /\ cfg' = r /\ phase' = "writing"
           /\ disk' = [disk EXCEPT ![path] = File(<< >>)]
           /\ pending' = [path |-> path, doc |-> Serialize(r), of |-> r]
           /\ written' = [written EXCEPT ![path] = Torn] /\ ret' = "none"
  <2>1. \A p \in AbsPaths :
          written'[p] \notin {Nil, Torn} =>
            disk'[p] = File(Serialize(written'[p])) /\ PathsResolved(written'[p], p)
    <3> SUFFICES ASSUME NEW p \in AbsPaths, written'[p] \notin {Nil, Torn}
                 PROVE  disk'[p] = File(Serialize(written'[p])) /\ PathsResolved(written'[p], p)
      OBVIOUS
    <3>1. p # path
      BY <1>3, <1>5 DEF TypeOK
    <3>2. written'[p] = written[p] /\ disk'[p] = disk[p]
      BY <1>5, <3>1
    <3>3. QED
      BY <3>2 DEF SavedInv
  <2>2. pending'.doc = Serialize(pending'.of) /\ PathsResolved(pending'.of, pending'.path)
    BY <1>2, <1>5
  <2>3. QED
    BY <2>1, <2>2 DEF SavedInv
<1>6. QED
  BY <1>4, <1>5 DEF StartWrite

(***************************************************************************)
(* The invariant.                                                          *)
(***************************************************************************)
LEMMA InitSavedInv ==
  Init => SavedInv
  BY InitIInv DEF Init, SavedInv

\* A step that leaves the files and the write in progress alone and does
\* not start a write keeps the file conjuncts.
LEMMA QuietStep ==
  ASSUME SavedInv, IInv', UNCHANGED <<disk, pending, written>>, phase' # "writing"
  PROVE  SavedInv'
  BY DEF SavedInv

LEMMA NextSavedInv ==
  SavedInv /\ [Next]_vars => SavedInv'
<1> SUFFICES ASSUME SavedInv, [Next]_vars PROVE SavedInv'
  OBVIOUS
<1>1. TypeOK /\ IInv'
  BY NextIInv DEF SavedInv, IInv
<1>2. CASE NewDefault
  BY <1>1, <1>2, QuietStep DEF NewDefault
<1>3. CASE \E p \in LoadPaths : Load(p)
  <2>1. PICK p \in LoadPaths : Load(p)
    BY <1>3
  <2> DEFINE ap == Abs(p)
             file == disk[ap.text]
  <2>2. ap \in {Text(x) : x \in AbsPaths} /\ ap \in PathLits
    BY PathAssumption, LiteralFacts DEF PathLits
  <2>3. CASE ~Loadable(file) /\ ret' = "error" /\ UNCHANGED <<phase, cfg, env, disk, pending, written>>
    <3>1. phase' = "idle"
      BY <2>1, <2>3 DEF Load
    <3>2. QED
      BY <1>1, <2>3, <3>1, QuietStep
  <2>4. CASE Loadable(file)
             /\ StartWrite([Decode(file) EXCEPT ![Root].ConfigPath = ap], "warn")
             /\ UNCHANGED env
    <3>1. file \in Files
      BY <1>1, <2>2, <2>4 DEF TypeOK, Loadable, Text
    <3>2. IsTree(Decode(file)) /\ Decode(file)[Root] # Nil
      BY <3>1, DecodeType, RootNotNil
    <3>3. IsTree([Decode(file) EXCEPT ![Root].ConfigPath = ap])
      BY <2>2, <3>2, TreeUpdate, PathFieldsOfRoot, SlotFacts DEF FieldType, PathFields, Slots
    <3>4. QED
      BY <1>1, <2>4, <3>3, StartWriteSaved
  <2>5. QED
    BY <2>1, <2>3, <2>4 DEF Load
<1>4. CASE UpdateFromEnvs
  <2>1. phase' \in {"ready", "panicked"}
    BY <1>4 DEF UpdateFromEnvs
  <2>2. QED
    BY <1>1, <1>4, <2>1, QuietStep DEF UpdateFromEnvs
<1>5. CASE Sync
  <2>1. IsTree(cfg)
    BY <1>5 DEF SavedInv, IInv, Sync
  <2>2. CASE EmptyConfigPath(cfg, "error")
    BY <1>1, <2>2, QuietStep DEF EmptyConfigPath
  <2>3. CASE StartWrite(cfg, "error")
    BY <1>1, <2>1, <2>3, StartWriteSaved
  <2>4. QED
    BY <1>5, <2>2, <2>3 DEF Sync
<1>6. CASE WriteDone
  <2> DEFINE w == pending
  <2>1. IsPending(w) /\ w.doc = Serialize(w.of) /\ PathsResolved(w.of, w.path)
    BY <1>6 DEF WriteDone, SavedInv, IInv
  <2>2. \A p \in AbsPaths :
          written'[p] \notin {Nil, Torn} =>
            disk'[p] = File(Serialize(written'[p])) /\ PathsResolved(written'[p], p)
    <3> SUFFICES ASSUME NEW p \in AbsPaths, written'[p] \notin {Nil, Torn}
                 PROVE  disk'[p] = File(Serialize(written'[p])) /\ PathsResolved(written'[p], p)
      OBVIOUS
    <3>1. CASE p = w.path
      BY <1>1, <1>6, <2>1, <3>1 DEF WriteDone, TypeOK, IsPending
    <3>2. CASE p # w.path
      BY <1>6, <3>2 DEF WriteDone, SavedInv
    <3>3. QED
      BY <3>1, <3>2
  <2>3. QED
    BY <1>1, <1>6, <2>2 DEF WriteDone, SavedInv
<1>7. CASE CollaboratorWrite
  BY <1>1, <1>7, QuietStep DEF CollaboratorWrite
<1>8. CASE Crash
  <2>1. CASE phase = "writing"
    <3> DEFINE w == pending
    <3>1. IsPending(w) /\ w.doc = Serialize(w.of) /\ PathsResolved(w.of, w.path)
      BY <2>1 DEF SavedInv, IInv
    <3>2. PICK f \in TornFiles(w.doc) :
            /\ disk' = [disk EXCEPT ![w.path] = f]
            /\ written' = [written EXCEPT ![w.path] =
                              IF f = File(w.doc) THEN w.of ELSE Torn]
      BY <1>8, <2>1 DEF Crash
    <3>3. \A p \in AbsPaths :
            written'[p] \notin {Nil, Torn} =>
              disk'[p] = File(Serialize(written'[p])) /\ PathsResolved(written'[p], p)
      <4> SUFFICES ASSUME NEW p \in AbsPaths, written'[p] \notin {Nil, Torn}
                   PROVE  disk'[p] = File(Serialize(written'[p])) /\ PathsResolved(written'[p], p)
        OBVIOUS
      <4>1. CASE p = w.path
        <5>1. f = File(w.doc) /\ written'[p] = w.of /\ disk'[p] = f
          BY <1>1, <3>1, <3>2, <4>1 DEF TypeOK, IsPending
        <5>2. QED
          BY <3>1, <4>1, <5>1
      <4>2. CASE p # w.path
        BY <3>2, <4>2 DEF SavedInv
      <4>3. QED
        BY <4>1, <4>2
    <3>4. QED
      BY <1>1, <1>8, <3>3 DEF Crash, SavedInv
  <2>2. CASE phase # "writing"
    <3>1. UNCHANGED <<disk, written>> /\ phase' = "idle"
      BY <1>8, <2>2 DEF Crash
    <3>2. QED
      BY <1>1, <3>1 DEF SavedInv
  <2>3. QED
    BY <2>1, <2>2
<1>9. CASE UNCHANGED vars
  BY <1>1, <1>9 DEF SavedInv, vars
<1>10. QED
  BY <1>2, <1>3, <1>4, <1>5, <1>6, <1>7, <1>8, <1>9 DEF Next

\* The file invariant gives the property: Unmarshal of a whole file reads
\* back the resolved paths of the tree it was written from.
LEMMA SavedInvPaths ==
  SavedInv => SavedPathsAbsolute
<1> SUFFICES ASSUME SavedInv, NEW p \in AbsPaths, written[p] \notin {Nil, Torn}
             PROVE  LET c == Decode(disk[p])
                    IN  /\ c[Root].ConfigPath = Text(p)
                        /\ c[Root].KubeconfigPath = Unset \/ IsAbs(c[Root].KubeconfigPath)
  BY DEF SavedPathsAbsolute
<1> DEFINE w == written[p]
<1>1. IsTree(w) /\ disk[p] = File(Serialize(w)) /\ PathsResolved(w, p)
  BY DEF SavedInv, IInv, TypeOK
<1>2. Decode(disk[p])[Root].ConfigPath = w[Root].ConfigPath
      /\ Decode(disk[p])[Root].KubeconfigPath = w[Root].KubeconfigPath
  BY <1>1, DecodeSerializedPath DEF PathFields
<1>3. QED
  BY <1>1, <1>2 DEF PathsResolved

\* Every file that unsafeSync (lines 170-200) wrote whole, by Sync or by
\* the re-save in Load, records as its config_path the absolute path of
\* that very file and an absolute or empty kubeconfig_path, whatever
\* relative paths the environment or the caller set and whatever crashes
\* cut other writes short.
THEOREM SavedPathsCorrect ==
  Spec => []SavedPathsAbsolute
<1>1. Init => SavedInv
  BY InitSavedInv
<1>2. SavedInv /\ [Next]_vars => SavedInv'
  BY NextSavedInv
<1>3. SavedInv => SavedPathsAbsolute
  BY SavedInvPaths
<1>4. QED
  BY <1>1, <1>2, <1>3, PTL DEF Spec

=============================================================================
