------------------------------ MODULE ConfigTree ------------------------------
(***************************************************************************)
(* The k8s-tester Config (k8s-tester/config.go, src/unnamed/part_001): the *)
(* tree of the root record and one record per add-on, built by NewDefault *)
(* or read by Load, overridden from the environment by UpdateFromEnvs, and *)
(* written back to ConfigPath by Sync.                                     *)
(*                                                                         *)
(* One process owns the tree; its operations run one at a time (Sync      *)
(* holds cfg.mu, and nothing else runs concurrently with the override).   *)
(* ioutil.WriteFile truncates the file when it opens it and writes the    *)
(* bytes afterwards, so a write is two steps here, and the process may    *)
(* die (be killed, or the machine crash) at any step, which loses the tree *)
(* in memory and may leave any prefix of the new document in the file.    *)
(***************************************************************************)
EXTENDS EnvOverride, FiniteSets

CONSTANTS
  AddonOrder,      \* the add-on slots in the order UpdateFromEnvs walks them
  AddonSchema,     \* slot -> its fields, in declaration order
  AddonEnv,        \* slot -> its Env() prefix, e.g. "ADD_ON_JOBS_PI"
  AddonDefault,    \* slot -> the record its NewDefault() returns
  AddonSerialKeys, \* the <<slot, field>> keys of all add-ons in YAML (sorted) order
  GeneratedNames,  \* the names "k8s-<ts>-<rand>" NewDefault may generate
  AbsPaths,        \* absolute path strings; the files of the model
  CwdJoin,         \* relative path string -> its absolute form under the working directory
  Unwritable,      \* absolute paths whose open for writing fails
  LoadPaths,       \* the path texts Load is called with
  CollabWrites,    \* [slot, name, val] writes of the caller and the add-on testers
  Envs,            \* the process environments a run may start with: variable name -> value
  InitDisks,       \* the file systems a run may start from
  Nil, NoFile, NoWrite, Torn

Root == "root"
Addons == {AddonOrder[k] : k \in 1..Len(AddonOrder)}
Slots == {Root} \cup Addons

\* ENV_PREFIX (line 131).
ENV_PREFIX == "K8S_TESTER_"

(***************************************************************************)
(* The fields of Config (lines 37-87) in declaration order.  mu and Stopc  *)
(* carry json:"-", which is not "" and so yields the key "_"; they and the *)
(* add-on pointers are of a kind parseEnvs never writes.                   *)
(***************************************************************************)
F(n, k, kind, ro) == [name |-> n, key |-> k, kind |-> kind, ro |-> ro]

RootSchema ==
  << F("mu", "_", "other", FALSE), F("Stopc", "_", "other", FALSE),
     F("Prompt", "PROMPT", "bool", FALSE),
     F("ClusterName", "CLUSTER_NAME", "string", FALSE),
     F("ConfigPath", "CONFIG_PATH", "string", FALSE),
     F("LogColor", "LOG_COLOR", "bool", FALSE),
     F("LogColorOverride", "LOG_COLOR_OVERRIDE", "string", FALSE),
     F("LogLevel", "LOG_LEVEL", "string", FALSE),
     F("LogOutputs", "LOG_OUTPUTS", "slice", FALSE),
     F("KubectlDownloadURL", "KUBECTL_DOWNLOAD_URL", "string", FALSE),
     F("KubectlPath", "KUBECTL_PATH", "string", FALSE),
     F("KubeconfigPath", "KUBECONFIG_PATH", "string", FALSE),
     F("KubeconfigContext", "KUBECONFIG_CONTEXT", "string", FALSE),
     F("MinimumNodes", "MINIMUM_NODES", "int", FALSE),
     F("TotalNodes", "TOTAL_NODES", "int", TRUE),
     F("AddOnCloudwatchAgent", "ADD_ON_CLOUDWATCH_AGENT", "other", FALSE),
     F("AddOnMetricsServer", "ADD_ON_METRICS_SERVER", "other", FALSE),
     F("AddOnFluentBit", "ADD_ON_FLUENT_BIT", "other", FALSE),
     F("AddOnKubernetesDashboard", "ADD_ON_KUBERNETES_DASHBOARD", "other", FALSE),
     F("AddOnNLBHelloWorld", "ADD_ON_NLB_HELLO_WORLD", "other", FALSE),
     F("AddOnJobsPi", "ADD_ON_JOBS_PI", "other", FALSE),
     F("AddOnJobsEcho", "ADD_ON_JOBS_ECHO", "other", FALSE),
     F("AddOnCronJobsEcho", "ADD_ON_CRON_JOBS_ECHO", "other", FALSE) >>

\* The root's json keys in the order yaml.Marshal writes them (sorted);
\* the add-on sections sort before all of them.
RootSerialKeys ==
  [i \in 1..13 |-> <<Root, << "ClusterName", "ConfigPath", "KubeconfigContext",
     "KubeconfigPath", "KubectlDownloadURL", "KubectlPath", "LogLevel",
     "LogOutputs", "LogColor", "LogColorOverride", "MinimumNodes", "Prompt",
     "TotalNodes" >>[i]>>]

Schema(s) == IF s = Root THEN RootSchema ELSE AddonSchema[s]

Prefix(s) == IF s = Root THEN ENV_PREFIX ELSE ENV_PREFIX \o AddonEnv[s] \o "_"

\* The fields that hold a value in the model.
ValuedNames(s) == {Schema(s)[i].name : i \in {j \in 1..Len(Schema(s)) : Schema(s)[j].kind # "other"}}

KindOf(s, n) == Schema(s)[IndexOf(Schema(s), n)].kind

\* The zero value yaml.Unmarshal leaves in a field absent from the file.
ZeroOf(kind) ==
  CASE kind = "bool"     -> BoolLit(FALSE)
    [] kind = "slice"    -> Slice(<< >>)
    [] kind = "map"      -> EmptyMap
    [] kind = "string"   -> Unset
    [] kind = "duration" -> Dur(0)
    [] OTHER             -> Dec(0)

(***************************************************************************)
(* Paths.  filepath.IsAbs and filepath.Abs (Getwd joined with the path).   *)
(***************************************************************************)
IsAbs(p) == Is(p, "text") /\ p.text \in AbsPaths
Abs(p)   == IF IsAbs(p) THEN p ELSE Text(CwdJoin[p.text])

(***************************************************************************)
(* NewDefault (lines 91-128).                                              *)
(***************************************************************************)
RootDefault(name) ==
  [ Prompt |-> BoolLit(TRUE), ClusterName |-> name, ConfigPath |-> Unset,
    LogColor |-> BoolLit(TRUE), LogColorOverride |-> Unset, LogLevel |-> Text("info"),
    LogOutputs |-> Slice(<<Text("stderr")>>),
    KubectlDownloadURL |-> Text("kubectl-v1.21.0-download-url"),
    KubectlPath |-> Text("/tmp/kubectl-test-v1.21.0"),
    KubeconfigPath |-> Unset, KubeconfigContext |-> Unset,
    MinimumNodes |-> Dec(1), TotalNodes |-> Dec(0) ]

(***************************************************************************)
(* The persisted document: a sequence of [slot, name, val] entries in the  *)
(* order yaml.Marshal writes them (sorted keys: the add-on sections come   *)
(* before the root's keys).  A nil add-on is written as null and reads     *)
(* back as nil; here each of its keys carries Nil.  A file is such a       *)
(* sequence, possibly ending in a torn entry (garbled).                    *)
(***************************************************************************)
SerialKeys == AddonSerialKeys \o RootSerialKeys

\* Mutant: a nil add-on is written as a section of zero values.
SerializeNilAsZero(c) ==
  LET Val(k) == IF c[k[1]] = Nil THEN ZeroOf(KindOf(k[1], k[2])) ELSE c[k[1]][k[2]]
  IN  [i \in 1..Len(SerialKeys) |->
         [slot |-> SerialKeys[i][1], name |-> SerialKeys[i][2], val |-> Val(SerialKeys[i])]]

Serialize(c) ==
  LET Val(k) == IF c[k[1]] = Nil THEN Nil ELSE c[k[1]][k[2]]
  IN  [i \in 1..Len(SerialKeys) |->
         [slot |-> SerialKeys[i][1], name |-> SerialKeys[i][2], val |-> Val(SerialKeys[i])]]

File(doc) == [entries |-> doc, garbled |-> FALSE]

\* What a write cut short may leave: any prefix, possibly with a torn last line.
TornFiles(doc) ==
  {[entries |-> SubSeq(doc, 1, k), garbled |-> g] : k \in 0..Len(doc), g \in BOOLEAN}
    \ {[entries |-> doc, garbled |-> TRUE]}

\* yaml.Unmarshal with DisallowUnknownFields (line 140).
Decodes(file) ==
  /\ ~file.garbled
  /\ \A i \in 1..Len(file.entries) :
        LET e == file.entries[i] IN e.slot \in Slots /\ e.name \in ValuedNames(e.slot)

\* ReadFile finds the file and Unmarshal accepts it.
Loadable(file) == file # NoFile /\ Decodes(file)

\* The value of field n of slot s in the entries es, or its zero value.
EntryVal(es, s, n) ==
  LET at == {i \in 1..Len(es) : es[i].slot = s /\ es[i].name = n /\ es[i].val # Nil}
  IN  IF at = {} THEN ZeroOf(KindOf(s, n)) ELSE es[CHOOSE i \in at : TRUE].val

\* An add-on whose key is absent or null stays a nil pointer.
Decode(file) ==
  LET es == file.entries
  IN  [s \in Slots |->
         IF s = Root \/ \E i \in 1..Len(es) : es[i].slot = s /\ es[i].val # Nil
         THEN [n \in ValuedNames(s) |-> EntryVal(es, s, n)]
         ELSE Nil]

-----------------------------------------------------------------------------
VARIABLES
  phase,    \* "idle" (no tree in memory), "ready", "writing" (WriteFile between truncate and write), "panicked"
  cfg,      \* the tree: slot -> record, or Nil for a nil add-on; Nil when idle
  env,      \* the process environment, fixed for the run
  disk,     \* absolute path -> file, or NoFile
  pending,  \* the write in progress: [path, doc, of], or NoWrite
  ret,      \* what the last operation returned to its caller
  written   \* ghost: path -> the tree whose whole document the file holds, Torn after a cut write, Nil if not written by the process

vars == <<phase, cfg, env, disk, pending, ret, written>>

Init ==
  /\ phase = "idle"
  /\ cfg = Nil
  /\ env \in Envs
  /\ disk \in InitDisks
  /\ pending = NoWrite
  /\ ret = "none"
  /\ written = [p \in AbsPaths |-> Nil]

(***************************************************************************)
(* unsafeSync (lines 170-200): resolve ConfigPath and KubeconfigPath, then *)
(* WriteFile(ConfigPath, yaml.Marshal(cfg), 0600): open with O_TRUNC, which *)
(* empties the file, or fail to open.  Used by Sync and by Load.           *)
(***************************************************************************)
ResolvedRoot(rec) ==
  [n \in DOMAIN rec |->
     IF n = "ConfigPath" \/ (n = "KubeconfigPath" /\ rec[n] # Unset) THEN Abs(rec[n]) ELSE rec[n]]

Resolved(c) == [c EXCEPT ![Root] = ResolvedRoot(@)]

\* unsafeSync with an empty ConfigPath (lines 171-173).
EmptyConfigPath(c, failRet) ==
  /\ c[Root].ConfigPath = Unset
  /\ cfg' = c /\ phase' = "ready" /\ ret' = failRet
  /\ UNCHANGED <<disk, pending, written>>

\* Mutant: the tree is marshalled before its paths are resolved.
StartWriteUnresolved(c, failRet) ==
  LET r    == Resolved(c)
      path == r[Root].ConfigPath.text
  IN  \/ /\ c[Root].ConfigPath # Unset
         /\ path \in Unwritable
         /\ cfg' = r /\ phase' = "ready" /\ ret' = failRet
         /\ UNCHANGED <<disk, pending, written>>
      \/ /\ c[Root].ConfigPath # Unset
         /\ path \notin Unwritable
         /\ cfg' = r /\ phase' = "writing"
         /\ disk' = [disk EXCEPT ![path] = File(<< >>)]
         /\ pending' = [path |-> path, doc |-> Serialize(c), of |-> r]
         /\ written' = [written EXCEPT ![path] = Torn]
         /\ ret' = "none"

\* unsafeSync past that check (lines 175-197): the tree keeps the resolved
\* paths whether or not the open succeeds.
StartWrite(c, failRet) ==
  LET r    == Resolved(c)
      path == r[Root].ConfigPath.text
  IN  \/ /\ c[Root].ConfigPath # Unset
         /\ path \in Unwritable
         /\ cfg' = r /\ phase' = "ready" /\ ret' = failRet
         /\ UNCHANGED <<disk, pending, written>>
      \/ /\ c[Root].ConfigPath # Unset
         /\ path \notin Unwritable
         /\ cfg' = r /\ phase' = "writing"
         /\ disk' = [disk EXCEPT ![path] = File(<< >>)]
         /\ pending' = [path |-> path, doc |-> Serialize(r), of |-> r]
         /\ written' = [written EXCEPT ![path] = Torn]
         /\ ret' = "none"

\* The write(2) of WriteFile completes and the call returns nil.
WriteDone ==
  /\ phase = "writing"
  /\ disk' = [disk EXCEPT ![pending.path] = File(pending.doc)]
  /\ written' = [written EXCEPT ![pending.path] = pending.of]
  /\ phase' = "ready" /\ pending' = NoWrite /\ ret' = "ok"
  /\ UNCHANGED <<cfg, env>>

NewDefault ==
  /\ phase = "idle"
  /\ \E g \in GeneratedNames :
       LET v == Getenv(env, ENV_PREFIX \o "CLUSTER_NAME")
           name == IF v # Unset THEN v ELSE Text(g)
       IN  cfg' = [s \in Slots |-> IF s = Root THEN RootDefault(name) ELSE AddonDefault[s]]
  /\ phase' = "ready" /\ ret' = "ok"
  /\ UNCHANGED <<env, disk, pending, written>>

\* Load(p) (lines 133-161): a read or decode error returns nil; otherwise
\* ConfigPath becomes Abs(p) and the tree is re-saved, a failure of which
\* is only a warning.
Load(p) ==
  /\ phase = "idle"
  /\ \/ /\ ~Loadable(disk[Abs(p).text])
        /\ ret' = "error"
        /\ UNCHANGED <<phase, cfg, env, disk, pending, written>>
     \/ /\ Loadable(disk[Abs(p).text])
        /\ StartWrite([Decode(disk[Abs(p).text]) EXCEPT ![Root].ConfigPath = Abs(p)], "warn")
        /\ UNCHANGED env

\* Sync (lines 164-168).
Sync ==
  /\ phase = "ready"
  /\ EmptyConfigPath(cfg, "error") \/ StartWrite(cfg, "error")
  /\ UNCHANGED env

(***************************************************************************)
(* UpdateFromEnvs (lines 206-300): parseEnvs on the root with ENV_PREFIX,  *)
(* then on each add-on with ENV_PREFIX+Env()+"_" in AddonOrder, returning  *)
(* at the first error.  parseEnvs returns the pointer it was given, so the *)
(* reassignments of cfg and of the add-on fields change nothing.           *)
(***************************************************************************)
Order == <<Root>> \o AddonOrder

PassOf(c, s) ==
  IF c[s] = Nil
  THEN [rec |-> Nil, status |-> ParseEnvsNil(env, Prefix(s), Schema(s))]
  ELSE LET r == ParseEnvs(env, Prefix(s), Schema(s), c[s])
       IN  [rec |-> r.rec, status |-> IF r.failed THEN "failed" ELSE "ok"]

\* The position in Order of the slot whose pass ends UpdateFromEnvs.
StopSlot(c) ==
  LET bad == {k \in 1..Len(Order) : PassOf(c, Order[k]).status # "ok"}
  IN  IF bad = {} THEN Len(Order) + 1 ELSE FirstOf(bad)

UpdateResult(c) ==
  LET stop == StopSlot(c)
      Pos(s) == CHOOSE k \in 1..Len(Order) : Order[k] = s
  IN  [cfg |-> [s \in Slots |-> IF Pos(s) =< stop THEN PassOf(c, s).rec ELSE c[s]],
       status |-> IF stop > Len(Order) THEN "ok" ELSE PassOf(c, Order[stop]).status]

UpdateFromEnvs ==
  /\ phase = "ready"
  /\ LET u == UpdateResult(cfg)
     IN  /\ cfg' = u.cfg
         /\ phase' = IF u.status = "panic" THEN "panicked" ELSE "ready"
         /\ ret' = u.status
  /\ UNCHANGED <<env, disk, pending, written>>

(***************************************************************************)
(* The callers outside this file: the command that sets ConfigPath after   *)
(* NewDefault, and add-on testers recording what they created.             *)
(***************************************************************************)
CollaboratorWrite ==
  /\ phase = "ready"
  /\ \E w \in CollabWrites :
       /\ cfg[w.slot] # Nil
       /\ cfg' = [cfg EXCEPT ![w.slot][w.name] = w.val]
  /\ UNCHANGED <<phase, env, disk, pending, ret, written>>

\* The process dies: killed, panicked, or the machine crashed.  A write in
\* progress leaves any prefix of its document.
Crash ==
  /\ phase # "idle"
  /\ IF phase = "writing"
     THEN \E f \in TornFiles(pending.doc) :
            /\ disk' = [disk EXCEPT ![pending.path] = f]
            /\ written' = [written EXCEPT ![pending.path] =
                              IF f = File(pending.doc) THEN pending.of ELSE Torn]
     ELSE UNCHANGED <<disk, written>>
  /\ phase' = "idle" /\ cfg' = Nil /\ pending' = NoWrite /\ ret' = "none"
  /\ UNCHANGED env

Next ==
  \/ NewDefault
  \/ \E p \in LoadPaths : Load(p)
  \/ UpdateFromEnvs
  \/ Sync
  \/ WriteDone
  \/ CollaboratorWrite
  \/ Crash

Spec == Init /\ [][Next]_vars


-----------------------------------------------------------------------------
(***************************************************************************)
(* Types.                                                                  *)
(***************************************************************************)
TypeOfKind(kind) ==
  CASE kind = "bool"     -> [bool : BOOLEAN]
    [] kind = "slice"    -> [slice : Seq(LitSet)]
    [] kind = "map"      -> [json : StrMaps]
    [] kind = "duration" -> [dur : Int]
    [] kind = "string"   -> LitSet
    [] OTHER             -> [dec : Int]

\* The path fields hold a path of the model, or "" when unset.
PathFields == {"ConfigPath", "KubeconfigPath"}
PathLits   == {Text(x) : x \in AbsPaths \cup DOMAIN CwdJoin}

FieldType(s, n) ==
  IF s = Root /\ n \in PathFields THEN PathLits \cup {Unset} ELSE TypeOfKind(KindOf(s, n))

Records(s) == {r \in [ValuedNames(s) -> Values] : \A n \in ValuedNames(s) : r[n] \in FieldType(s, n)}

\* A tree: the root record and, per add-on, its record or Nil.
IsTree(c) ==
  /\ c = [s \in Slots |-> c[s]]
  /\ DOMAIN c = Slots
  /\ c[Root] \in Records(Root)
  /\ \A s \in Addons : c[s] = Nil \/ c[s] \in Records(s)

KnownKey(e) == e.slot \in Slots /\ e.name \in ValuedNames(e.slot)

\* An entry of a known key holds a value of the field's type, or Nil.
Entries == {e \in [slot : STRING, name : STRING, val : Values \cup {Nil}] :
              KnownKey(e) /\ e.val # Nil => e.val \in FieldType(e.slot, e.name)}

Files == [entries : Seq(Entries), garbled : BOOLEAN]

(***************************************************************************)
(* What the proofs assume of the constants: well-formed schemas whose      *)
(* defaults, serialized keys and caller writes fit them, paths drawn from  *)
(* the model's path strings, environments of literals whose path variables *)
(* hold model paths, initial files of the document type, and sentinels     *)
(* that are not records.                                                   *)
(***************************************************************************)
FieldRecs == [name : STRING, key : STRING, kind : Kinds, ro : BOOLEAN]

\* The string literals of this module are strings (TLC evaluates this; the
\* provers have no axiom for the membership of a literal in STRING).
ASSUME LiteralAssumption ==
  { Root, "", "info", "stderr", "kubectl-v1.21.0-download-url", "/tmp/kubectl-test-v1.21.0",
    "Prompt", "ClusterName", "ConfigPath", "LogColor", "LogColorOverride", "LogLevel",
    "LogOutputs", "KubectlDownloadURL", "KubectlPath", "KubeconfigPath",
    "KubeconfigContext", "MinimumNodes", "TotalNodes" } \subseteq STRING

ASSUME SchemaAssumption ==
  /\ AddonOrder \in Seq(STRING)
  /\ Root \notin Addons
  /\ AddonSchema \in [Addons -> Seq(FieldRecs)]
  /\ AddonEnv \in [Addons -> STRING]
  /\ \A s \in Addons : AddonDefault[s] \in Records(s)
  /\ AddonSerialKeys \in Seq(Addons \X STRING)
  /\ \A i \in 1..Len(AddonSerialKeys) :
        AddonSerialKeys[i][2] \in ValuedNames(AddonSerialKeys[i][1])
  \* yaml.Marshal writes every field of an add-on, and each has one (Enable).
  /\ \A s \in Addons : \A n \in ValuedNames(s) :
        \E i \in 1..Len(AddonSerialKeys) : AddonSerialKeys[i] = <<s, n>>
  /\ \A s \in Addons : ValuedNames(s) # {}

ASSUME PathAssumption ==
  /\ AbsPaths \subseteq STRING
  /\ DOMAIN CwdJoin \subseteq STRING
  /\ \A x \in DOMAIN CwdJoin : CwdJoin[x] \in AbsPaths
  /\ LoadPaths \subseteq PathLits

ASSUME RunAssumption ==
  /\ GeneratedNames \subseteq STRING
  /\ \A w \in CollabWrites :
        /\ w = [slot |-> w.slot, name |-> w.name, val |-> w.val]
        /\ w.slot \in Slots /\ w.name \in ValuedNames(w.slot)
        /\ w.val \in FieldType(w.slot, w.name)
  /\ \A e \in Envs :
        /\ \A v \in DOMAIN e : e[v] \in LitSet
        /\ \A n \in PathFields :
              FieldValue(e, ENV_PREFIX, RootSchema[IndexOf(RootSchema, n)]) \in PathLits \cup {Unset}
  /\ InitDisks \subseteq [AbsPaths -> Files \cup {NoFile}]
  /\ \A s \in Slots : Nil \notin Records(s)
  /\ Nil \notin PathLits \cup {Unset}
  /\ Nil \notin Values
  /\ NoFile \notin Files

\* A write in progress: the file, the document and the tree it was made from.
IsPending(w) ==
  /\ DOMAIN w = {"path", "doc", "of"}
  /\ w.path \in AbsPaths /\ w.doc \in Seq(Entries) /\ IsTree(w.of)

TypeOK ==
  /\ phase \in {"idle", "ready", "writing", "panicked"}
  /\ cfg = Nil \/ IsTree(cfg)
  /\ env \in Envs
  /\ disk \in [AbsPaths -> Files \cup {NoFile}]
  /\ pending = NoWrite \/ IsPending(pending)
  /\ ret \in {"none", "ok", "error", "warn", "failed", "panic"}
  /\ DOMAIN written = AbsPaths
  /\ \A p \in AbsPaths : written[p] \in {Nil, Torn} \/ IsTree(written[p])

\* TypeOK strengthened so that it is preserved by every step: the process
\* holds a tree in every phase but "idle", and WriteFile has a write in
\* progress exactly when the phase says so.
IInv ==
  /\ TypeOK
  /\ phase # "idle" => IsTree(cfg)
  /\ phase = "writing" => IsPending(pending)

\* A tree whose ConfigPath is the file p and whose KubeconfigPath is
\* absolute or unset: what unsafeSync makes of the tree before it marshals.
PathsResolved(c, p) ==
  /\ c[Root].ConfigPath = Text(p)
  /\ c[Root].KubeconfigPath = Unset \/ IsAbs(c[Root].KubeconfigPath)

\* IInv strengthened for SavedPathsAbsolute: a file the process wrote whole
\* holds the document of the tree recorded for it, and that tree, like the
\* tree of a write in progress, has its paths resolved to that file.
SavedInv ==
  /\ IInv
  /\ \A p \in AbsPaths :
        written[p] \notin {Nil, Torn} =>
          disk[p] = File(Serialize(written[p])) /\ PathsResolved(written[p], p)
  /\ phase = "writing" =>
        pending.doc = Serialize(pending.of) /\ PathsResolved(pending.of, pending.path)

(***************************************************************************)
(* Properties.                                                             *)
(***************************************************************************)

\* Idempotence of UpdateFromEnvs (lines 206-300): running the override again
\* on the tree a pass has just produced, with the same environment, changes
\* nothing, even when the first pass stopped at an error half way through.
PassIdempotent ==
  [][UpdateFromEnvs /\ phase' = "ready" => UpdateResult(cfg').cfg = cfg']_vars

\* The field may be written by parseEnvs: its variable is set to a non-empty
\* value (line 313) and it is not tagged read-only (line 316).
Settable(s, n) ==
  LET f == Schema(s)[IndexOf(Schema(s), n)]
  IN  ~Skipped(f, FieldValue(env, Prefix(s), f)) /\ ~f.ro

\* An override step changes only fields whose variable is set and which are
\* not read-only: an empty or unset variable never erases a value loaded
\* from the file, and TotalNodes or an add-on's computed fields never come
\* from the environment.
OverrideOnlyFromSetVars ==
  [][UpdateFromEnvs =>
       \A s \in Slots : cfg[s] # Nil =>
         \A n \in ValuedNames(s) : cfg'[s][n] # cfg[s][n] => Settable(s, n)]_vars

\* Every document that Sync or Load's re-save wrote completely records, as
\* config_path, the absolute path of the file it was written to, and an
\* absolute or empty kubeconfig_path (unsafeSync resolves both before
\* yaml.Marshal, lines 175-190), whatever relative paths the environment or
\* the caller put in the tree.
SavedPathsAbsolute ==
  \A p \in AbsPaths :
    written[p] \notin {Nil, Torn} =>
      LET c == Decode(disk[p])
      IN  /\ c[Root].ConfigPath = Text(p)
          /\ c[Root].KubeconfigPath = Unset \/ IsAbs(c[Root].KubeconfigPath)

\* The round trip: Load(p) of a file that the process wrote completely
\* returns exactly the tree that was written, nil add-ons included.
ReloadReturnsSaved ==
  [][\A p \in LoadPaths :
       Load(p) /\ written[Abs(p).text] \notin {Nil, Torn} => cfg' = written[Abs(p).text]]_vars

\* Load never succeeds on a file whose last write was cut short (the design
\* promises no partial or corrupted writes).
LoadsOnlyWholeFiles ==
  [][\A p \in LoadPaths : Load(p) /\ phase' # "idle" => written[Abs(p).text] # Torn]_vars

\* UpdateFromEnvs returns an error instead of crashing the process: no
\* environment variable makes parseEnvs panic on a nil add-on (line 321).
NoPanic == phase # "panicked"

\* When a pass fails, the field whose value was rejected keeps the value it
\* had (the design: nothing beyond the fields already written is applied).
RejectedFieldUnchanged ==
  [][UpdateFromEnvs /\ ret' = "failed" =>
       LET s == Order[StopSlot(cfg)]
           f == Schema(s)[Stop(env, Prefix(s), Schema(s))]
       IN  cfg[s] # Nil /\ f.kind # "other" => cfg'[s][f.name] = cfg[s][f.name]]_vars

\* After a pass that succeeded, every integer field whose variable is set
\* holds the integer the variable spells (record.f == parsedLiteral).
AssignedAsParsed ==
  [][UpdateFromEnvs /\ ret' = "ok" =>
       \A s \in Slots : cfg[s] # Nil =>
         \A i \in 1..Len(Schema(s)) :
           LET f == Schema(s)[i]
               sv == FieldValue(env, Prefix(s), f)
           IN  Assigns(f, sv) /\ f.kind \in {"int", "int32", "uint", "uint32"} =>
                 cfg'[s][f.name] = sv]_vars


\* A value made only of separators ("," for LogOutputs) leaves a slice field
\* as it was: the spec's "splits into an empty sequence is a no-op" boundary,
\* which the len(ss) < 1 guard at line 363 is there to implement.
SeparatorOnlyIsNoop ==
  [][UpdateFromEnvs /\ ret' = "ok" =>
       \A s \in Slots : cfg[s] # Nil =>
         \A i \in 1..Len(Schema(s)) :
           LET f == Schema(s)[i]
               sv == FieldValue(env, Prefix(s), f)
           IN  /\ f.kind = "slice" /\ Is(sv, "list")
               /\ \A k \in 1..Len(sv.list) : sv.list[k] = ""
               => cfg'[s][f.name] = cfg[s][f.name]]_vars


=============================================================================
