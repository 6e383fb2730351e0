# Formal model of the k8s-tester configuration core and the Falco e2e suite

This directory holds TLA+ modules, TLC configurations and TLAPS proofs for
the configuration core of k8s-tester (`k8s-tester/config.go`, found in
`src/unnamed/part_001`) and for the Falco end-to-end suite
(`src/k8s-tester/falco/falco-tests.go`). The core builds one typed configuration tree made of
a root record and one record per add-on. It overrides fields of the tree from
`K8S_TESTER_*` environment variables and persists the tree as YAML at
`ConfigPath`. `spec.md` describes this core as the
"Configuration Aggregation & Environment-Override Engine".

## The system and its parts

| Part (spec.md) | Code (part_001) | Module | Status |
|---|---|---|---|
| EnvironmentOverrideEngine | `parseEnvs`, lines 302-391 | `EnvOverride` | modelled |
| FieldIntrospector (struct tags) | `Config` struct, lines 37-87, and the tag handling at lines 305-316 | `ConfigTree` (`RootSchema`), `EnvOverride` (`EnvName`, `Skipped`) | modelled as data |
| ConfigTree | `NewDefault` (91-128), `UpdateFromEnvs` (206-300), `Sync` (164-168) | `ConfigTree` | modelled |
| PersistenceLayer | `Load` (133-161), `unsafeSync` (170-200) | `ConfigTree` | modelled |
| AddonConfig records | the add-on packages, not under `src/` | `MC_ConfigTree` | partly: two representative add-ons |
| Colorize, KubectlCommand(s) | lines 394-443 | none | not modelled: string formatting only |
| CloudFormation `SubnetRouteTableAssociation` | `part_002` | none | not modelled: generated binding |
| SSM `GetOpsItem` client | `part_002` | none | not modelled: generated SDK glue |
| Overprovisioning template, e2e `TestMain` | `part_000` | none | not modelled: template and test entry point |
| Falco e2e test | `src/k8s-tester/falco/falco-tests.go`, lines 15-48 | `FalcoSuite`, `SuiteLifecycle` | modelled; the tester's `Apply`/`Delete` and `client.New` (outside `src/`) are collaborators |

How the parts interact. A run starts from `NewDefault` or from
`Load(path)`.
- `Load` reads the file and decodes it strictly, rejecting unknown keys.
- It then sets `ConfigPath` to the absolute path and re-saves the tree. A
  failure of that re-save is only a warning.
- `UpdateFromEnvs` runs `parseEnvs` on the root with `K8S_TESTER_`, then on
  each add-on with `K8S_TESTER_<ADDON>_`, in a fixed order. It returns at the
  first error.
- Add-on testers record what they create in the tree, and the caller sets
  paths. `Sync` then resolves `ConfigPath` and `KubeconfigPath` to absolute
  paths, marshals the tree and writes it with `ioutil.WriteFile`.

## Modules

- **`EnvOverride`** models `parseEnvs(pfx, rec)` as a closed form of its loop.
  - `Stop` is the index of the first field whose error ends the pass: a
    read-only field, an unparsable value, or a map field outside the
    whitelist.
  - `ParseEnvs` gives each field before `Stop` its coerced value (`Coerce`).
    The field at `Stop` is reset to an empty map when it is a whitelisted map
    field (line 378). Every other field keeps its value.
  - `ParseEnvsNil` is the same pass on a nil add-on pointer. There, the first
    variable that is set either fails as read-only or panics in
    `vv.Field(i)` (line 321).
  - Environment text is abstracted to the syntactic classes the Go parsers
    tell apart: decimal, boolean word, duration, comma list, JSON object, or
    other text. Each class is a record with its own field.
  - Integer widths are constants. `Wrap` is two's-complement truncation, which
    is what `SetInt` does to an `int32` field.
- **`ConfigTree`** is the process that owns the tree. Its variables:
  - `phase`: idle, ready, writing or panicked;
  - `cfg`: slot to record, or `Nil` for a nil add-on;
  - `env`: the process environment, fixed for the run;
  - `disk`: path to file;
  - `pending`: the write in progress;
  - `ret`: what the last operation returned to its caller;
  - `written`: a ghost recording, per path, the tree whose complete document
    the file holds.

  Its actions are `NewDefault`, `Load(p)`, `UpdateFromEnvs`, `Sync`,
  `WriteDone`, `CollaboratorWrite` and `Crash`.
  - A document is the sequence of `[slot, name, val]` entries that
    `yaml.Marshal` writes, in sorted key order. A nil add-on's keys carry
    `Nil`, because YAML writes `null`.
  - `Decode` rebuilds the tree. A missing field becomes the zero value, and an
    add-on with no non-null entry stays nil.
  - `WriteFile` truncates the file and then writes it, so a write is two steps
    (`StartWrite`, `WriteDone`). `Crash` may happen between them and leave
    any prefix of the document, possibly with a torn last line.
  - `CollaboratorWrite` stands for the code outside `src/` that writes fields:
    the add-on testers and the command line. It is modelled from the spec.
- **`MC_ConfigTree`** instantiates the model for TLC.
  - The two add-ons are nlb-hello-world (a bool, a whitelisted map, an int32
    and a read-only string) and jobs-pi (a bool and an int32).
  - The working directory is `/w`, and `/etc/k8s.yaml` cannot be written.
  - The initial files are hand-written ones, one of them with an unknown key.
  - The integer widths are scaled: 16 bits for 64 and 8 for 32, so that the
    int32 boundary is reachable with small numbers.
  - `Product` builds every environment from per-variable choices.
- **`FalcoSuite`** models the ginkgo suite. Variables: `stage` (build,
  before, it, after, done), `home`, `kubeconfigs` (which candidate files
  exist), `kubeconfigPath`, `cli` (client or nil), `release` (none, partial,
  installed), `itFailed`, `verdict` and the ghost `calls`.
  - `Describe` is the body of lines 19-36: `KubeconfigPathOf` is lines 20-24,
    and `NewClient` gives nil when the path holds no kubeconfig, the error
    being dropped (line 27).
  - `BeforeEach` (37-39), `It` (44-47) and `AfterEach` (40-43). The AfterEach
    runs whether or not the It failed, and drops `Delete`'s error.
  - `ApplyOutcomes` and `DeleteOutcomes` are the tester's calls: success, a
    failure that created nothing, or a failure that left a partial release.
  - The initial cluster may hold a release left by an earlier run.
  - `Lifecycle` is `INSTANCE SuiteLifecycle` under a refinement mapping:
    - `LifecyclePhase` maps build/before to setup, it to test, after to
      cleanup, and done to reported;
    - `itFailed` maps to `testFailed`;
    - "some call was `Delete`" maps to `cleanedUp`;
    - `verdict` maps to `reported`.
    `FalcoSuiteProofs` proves `Spec => Lifecycle!Spec`.
- **`SuiteLifecycle`** is the abstract promise of a ginkgo suite with one
  It and an AfterEach: setup, then the test (which may fail), then cleanup,
  which always runs, then a report that is the test's outcome. It is not a
  translation of code, so it has no map entry.
- **`MC_FalcoSuite`** gives `$HOME` the values unset, `/home/u` and `/root`,
  and the kubectl path `/tmp/kubectl-test-v1.21.0`.
- **`ConfigTreeProofs`**, **`SavedPathsProofs`**, **`OverrideProofs`**,
  **`ReloadProofs`** and **`FalcoSuiteProofs`** hold the TLAPS proofs.

## Runs

| Run | cfg | Expect | What it shows |
|---|---|---|---|
| persist | `Persist.cfg` | pass (80,385 states) | Every complete file has an absolute `config_path` and an absolute or empty `kubeconfig_path` (`SavedPathsAbsolute`). Loading a completely written file returns exactly the tree that was written, nil add-ons included (`ReloadReturnsSaved`). The runs cover relative paths from the environment and from the caller, unwritable targets, unknown keys, and crashes at every step. |
| override | `Override.cfg` | pass (7,011 states) | Over 192 environments (576 initial states with the three starting disks), including malformed values, a second pass changes nothing (`PassIdempotent`). A pass changes only fields whose variable is set and which are not read-only (`OverrideOnlyFromSetVars`). |
| torn_load | `TornLoad.cfg` | violation | A crash between truncate and write leaves a file that `Load` accepts (`LoadsOnlyWholeFiles`). |
| nil_addon_panic | `NilAddonPanic.cfg` | violation | A variable for an add-on that the loaded file leaves nil makes `parseEnvs` panic (`NoPanic`). |
| map_cleared_on_error | `MapClearedOnError.cfg` | violation | Malformed JSON for `DeploymentNodeSelector` fails the pass but has already cleared the map (`RejectedFieldUnchanged`). |
| int32_truncation | `Int32Truncation.cfg` | violation | A value that `ParseInt` accepts but that does not fit an int32 is stored wrapped, and the pass succeeds (`AssignedAsParsed`). |
| separator_only | `SeparatorOnly.cfg` | violation | `LOG_OUTPUTS=","`, which the spec treats as an empty list leaving the field alone, sets two empty strings (`SeparatorOnlyIsNoop`). |
| falco_suite | `FalcoSuite.cfg` | pass (192 states) | For every `$HOME`, set of kubeconfig files, leaked release and outcome of `Apply` and `Delete`, a finished suite has called `Delete` after `Apply` (`CleanupAfterApply`). `TypeOK` checks that the kubeconfig path is one of the candidate files or the kubectl path. |
| falco_leak | `FalcoLeak.cfg` | violation | A failed `Delete` after a good `Apply` goes unseen: the suite passes with Falco still installed (`NoReleaseLeftOnPass`). |
| falco_nil_client | `FalcoNilClient.cfg` | violation | With `$HOME` unset the kubectl binary is taken for the kubeconfig, `client.New` fails silently, and `Apply` runs with a nil client (`NoApplyWithoutClient`). |

Every property of a passing run has a mutant in `PROJECT.json`: a plausible
bug in the mapped definition that TLC then catches.
- A marshal that runs before the paths are resolved.
- Nil add-ons written as zero-valued sections.
- Slices appended to instead of replaced.
- The read-only tag ignored.
- `$HOME` used as the kubeconfig without the `.kube/config` join.
- An AfterEach that cleans up only after a passing It.

**Bounds.** Why the instances are enough:
- Two add-ons exercise both the add-on order and a nil add-on next to a
  present one.
- Each kind that `parseEnvs` handles differently has a field, and each field
  has a valid and an invalid value.
- Paths come as relative, absolute and unwritable.
- Initial files include one that an earlier run wrote, one written by hand,
  and one with an unknown key.
- Every state change of the code is reachable in these instances. The runs do
  not depend on larger numbers.
- The scaled widths keep the wrap-around reachable (300 does not fit 8 bits).

**Fairness.** The configuration core has none: its properties are safety
properties, and it has no loops that wait and no retries. `CHECK_DEADLOCK`
stays on there: a run always has a next step, because `Crash` returns to idle
and `Load` is enabled from idle.

`FalcoSuite` assumes no fairness either. Whether `Apply` and `Delete`
return is up to Helm and the cluster, and the suite sets no timeout of its
own, so nothing in the code justifies a claim that the suite finishes. The
suite is a straight line of four steps with no retry. Termination would hold
by the shape of the model alone, so it is not stated as a property.
`FalcoSuite.cfg` sets `CHECK_DEADLOCK FALSE` because the process exits once
the suite has reported.

**Type invariants.** `ConfigTree`'s `TypeOK` is proved for every value of
the constants (`ConfigTreeProofs`) and is not checked by a run. Go's static
types keep every field in its type whatever the code's control does, so no
plausible bug in the code breaks it; it is there as the base of the
inductive invariants. `FalcoSuite`'s `TypeOK` is checked as well as proved,
because it says which paths can reach `client.New`.

## Findings

1. **Torn config file** (`part_001:194`). `ioutil.WriteFile` truncates before
   it writes. A crash leaves an empty or partial YAML file, and `Load` accepts
   it with zero values. This contradicts spec.md's "no partial or corrupted
   writes".
2. **Panic on a nil add-on** (`part_001:321`). A loaded file without an
   add-on section leaves the pointer nil, and any variable for that add-on
   crashes the process instead of returning an error.
3. **Map cleared on error** (`part_001:378`). The map is reset before
   `json.Unmarshal`, so a malformed value erases what the file had set.
4. **int32 truncation** (`part_001:344`). `ParseInt(sv, 10, 64)` followed by
   `SetInt` on an `int32` field wraps the value silently. This contradicts
   "`record.f == parsedLiteral`".
5. **Dead empty-list check** (`part_001:363`). `strings.Split` never returns
   an empty slice, so `len(ss) < 1` never holds. A separator-only value sets
   empty strings instead of leaving the field unchanged.
6. **Falco release leaked on a passing run** (`falco-tests.go:42`). The
   AfterEach drops `ts.Delete()`'s error.
7. **Nil client reaches Apply** (`falco-tests.go:27`). `client.New`'s error
   is dropped. With `$HOME` unset, line 23 names the kubectl binary as the
   kubeconfig, so `New` always fails.

## Proofs

- `ConfigTreeProofs` proves `THEOREM TypeCorrect == Spec => []TypeOK`.
- `SavedPathsProofs` proves `THEOREM SavedPathsCorrect == Spec => []SavedPathsAbsolute`.
- `OverrideProofs` proves `THEOREM OverrideOnlySettable == Spec => OverrideOnlyFromSetVars`
  and `THEOREM OverrideIdempotent == Spec => PassIdempotent`.
- `ReloadProofs` proves `THEOREM ReloadCorrect == Spec => ReloadReturnsSaved`.
- `FalcoSuiteProofs` proves `THEOREM CleanupCorrect == Spec => []CleanupAfterApply`,
  `THEOREM TypeCorrect == Spec => []TypeOK` and
  `THEOREM ImplementsLifecycle == Spec => Lifecycle!Spec`.

**Assumptions.** The proof holds for every value of the constants that
satisfies these named assumptions. TLC evaluates each of them on every run.
- `WidthAssumption`, `JsonAssumption`: integer widths and JSON sets.
- `PowerAssumption`: `2^32` and `2^31` are positive naturals. The provers
  have no axioms for `^`.
- `LiteralAssumption`: the module's string literals are in `STRING`. The
  provers have no axiom for this either.
- `SchemaAssumption`:
  - add-on schemas are sequences of field descriptors;
  - each add-on's default record fits its schema;
  - each serialized add-on key is a valued field;
  - every valued field of an add-on is among its serialized keys
    (`yaml.Marshal` writes every field), and every add-on has at least one
    (`Enable`).
- `PathAssumption`:
  - paths are strings;
  - the working directory maps relative paths to absolute ones;
  - load paths are model paths.
- `RunAssumption`:
  - caller writes have the field's type;
  - environment values are literals, and the path variables hold model paths;
  - initial files are documents;
  - `Nil` is not a record, not a path, not `Unset` and not a field value;
  - `NoFile` is not a file.
- `SuiteAssumption` (Falco): `""` is a possible `$HOME`, each set home has a
  kubeconfig candidate, and the kubectl path is not one of them.

**Argument.** `TypeOK` is not inductive on its own: a `Sync` from a state
with no tree, or a `WriteDone` with no pending write, would break it. The
strengthening is

    IInv == TypeOK /\ (phase # "idle" => IsTree(cfg)) /\ (phase = "writing" => IsPending(pending))

TLC checked `IInv` as an invariant of both passing runs before it was proved.
- `InitIInv` and `NextIInv` have one step per action. `TypeCorrect` combines
  them with PTL.
- The actions rest on these lemmas:
  - `CoerceType`: each Go `Set` stores a value of the kind's type.
  - `ParseEnvsType`: an override pass keeps a record well typed, including
    path fields and the reset map.
  - `UpdateResultType`, `SerializeType`, `DecodeType`, `TornFilesType`,
    `ResolvedType` (resolved `ConfigPath` is absolute), `RootDefaultType` and
    `TreeUpdate`.
- The root schema is a 23-element literal. The lemmas about it
  (`RootFields`, `RootValuedNames`, `RootKindOf`) split on each index,
  because the provers do not enumerate `1..23` themselves.

**Saved paths.** `SavedPathsAbsolute` talks about what `Decode` reads back
from a file. No property of a single step gives it. The strengthening
`SavedInv` says three things:
- `IInv` holds;
- every file the ghost `written` records as whole is exactly
  `File(Serialize(t))` for a tree `t` whose paths are resolved
  (`PathsResolved`);
- a pending write carries the serialization of such a tree.

TLC checked `SavedInv` on the persist run before it was proved. The proof
rests on these lemmas:
- `ResolvedPaths`: `unsafeSync`'s resolution yields an absolute
  `ConfigPath` and an absolute or unset `KubeconfigPath`;
- `StartWriteSaved`: starting a write, from `Load` or `Sync`, keeps `SavedInv`;
- `PathKeysSerialized` and `DecodeSerializedPath`: the two path keys are in
  the serialized key list, and decoding a serialized tree returns its path
  fields.

`NextSavedInv` has one case per action. `Crash` is split on whether the torn
file is the whole document.

**Falco cleanup.** `CleanupAfterApply` is made inductive by `CallsByStage`:
no calls before the It, `<<"Apply">>` after it, and both once done.

**Overrides.** `OverrideProofs` works on the closed form of `parseEnvs`.
- `ParseEnvsOnlySettable`: a field that `ParseEnvs` changes is `Settable`.
  Every field after `Stop` keeps its value. The field at `Stop` is either
  reset, which happens only for a whitelisted map whose variable is set, or
  kept.
- `ParseEnvsIdempotent`: re-running the pass on its own result gives that
  result again. `Stop` depends only on the environment and the schema, not
  on the record, so the second pass stops at the same field and assigns the
  same values. The lemma is stated for `env \in Envs` and a well-typed
  record, because `IndexOf` must be known to return an integer.
- `UpdateIdempotent` lifts this to every slot of the tree. It needs the
  `IsTree` conjunct `c = [s \in Slots |-> c[s]]`: without it, two trees
  that agree on every slot need not be equal as functions. The conjunct was
  added to `IsTree` for this proof; `TypeOK` already implied it for `cfg`.

**Reload.** `ReloadCorrect` rests on `SavedInv` and on a round trip.
- `RoundTrip`: for a tree `c`, `Decode(File(Serialize(c))) = c`. The
  serialized key list is the add-on keys followed by the 13 root keys
  (`SerialKeysSplit`), and every valued field is among them
  (`AllKeysSerialized`). A present slot hears its own fields. A nil add-on
  writes only `Nil` values, so it decodes back to `Nil`.
- `ResolvedFixed`: resolving a tree whose paths are already resolved
  changes nothing.
- `LoadSaved`: a whole file that the process wrote is `Loadable`. `Load`
  decodes it back to the written tree. Setting `ConfigPath` to the load
  path changes nothing, because `SavedInv` says the file records its own
  path. The re-save therefore puts the written tree in `cfg`.

**Lifecycle refinement.** `ImplementsLifecycle` follows the usual layout:
- `Spec => []IInv`;
- `InitRefined`: `Init => Lifecycle!Init`;
- `NextRefined`: `IInv /\ [Next]_vars => [Lifecycle!Next]_Lifecycle!lvars`.
  `Describe` is a stutter of the lifecycle. `BeforeEach` is `Setup`, `It`
  is `Test` and `AfterEach` is `Cleanup`. These steps need `DeleteCalled`:
  the mapped `cleanedUp` is false before the `AfterEach` and becomes true
  there.
- PTL combines the three.

`SuiteLifecycle` is a safety specification with no fairness, like the suite.

**Only model-checked.**
- The violation runs are TLC results only: they exhibit behaviours, which
  a proof would not add to.
- The safety properties proved here, except `ConfigTree`'s `TypeOK`, are
  checked by TLC as well.
- No liveness property is stated. The code gives no fairness to build one
  on (see Fairness), and liveness, with `ENABLED`, is also out of the
  provers' reach here.
- Nothing recursive is proved. The only recursive operator, `Product`,
  builds TLC inputs in `MC_ConfigTree`.

## What is not modelled

- The add-on testers that write fields of the tree are outside `src/`.
  Their writes are modelled as atomic steps between operations
  (`CollaboratorW`). Nothing in `src/` runs them concurrently with `Sync`.
- The Falco logger (`falco-tests.go:25`). It opens a hard-coded
  `/Users/jonahjo/...` path and drops the error. Nothing the suite decides
  depends on the logger. What a nil logger does inside the client and the
  tester is code outside `src/`.
- What the Falco tester's `Apply` and `Delete` do inside Helm. Only their
  outcomes are modelled.
- Logging, formatting and the `kubectl` command text.
- The generated AWS bindings, the templates and the e2e `TestMain` (see the
  table above).
