------------------------------ MODULE FalcoSuite ------------------------------
(***************************************************************************)
(* The ginkgo end-to-end suite "[security-falco]" of the Falco add-on      *)
(* tester (src/k8s-tester/falco/falco-tests.go).                           *)
(*                                                                         *)
(* The Describe body (lines 19-36) runs once, while ginkgo builds the spec *)
(* tree: it picks kubeconfigPath from $HOME, builds a logger and a client, *)
(* discarding both errors, and creates the tester ts.  Ginkgo then runs    *)
(* the single It as BeforeEach; It; AfterEach, and runs the AfterEach      *)
(* whether or not the It failed.  The It fails when ts.Apply() returns an  *)
(* error; the AfterEach calls ts.Delete() and drops its result.            *)
(*                                                                         *)
(* The tester (ts.Apply, ts.Delete) and client.New live outside src/; they *)
(* are collaborators here, each step choosing among the outcomes it can    *)
(* have.  The cluster holds the Falco Helm release: none, a partial one    *)
(* (an install that failed half-way), or the whole one.                    *)
(***************************************************************************)
EXTENDS Naturals, Sequences

CONSTANTS
  Homes,              \* the values $HOME may have; "" when it is unset
  KubeconfigCandidates, \* the paths a kubeconfig file may exist at
  DefaultKubectlPath  \* client.DefaultKubectlPath(): where kubectl is installed

\* filepath.Join(home, ".kube", "config") for each home that is set.
CONSTANT HomeKubeconfig

ASSUME SuiteAssumption ==
  /\ "" \in Homes
  /\ HomeKubeconfig \in [Homes \ {""} -> KubeconfigCandidates]
  /\ DefaultKubectlPath \notin KubeconfigCandidates

VARIABLES
  stage,          \* "build", "before", "it", "after" or "done"
  home,           \* os.Getenv("HOME")
  kubeconfigs,    \* the candidate paths that hold a kubeconfig file
  kubeconfigPath, \* the package variable set at line 21 or 23
  cli,            \* the client handed to the tester: "client" or "nil"
  release,        \* the Falco release in the cluster: "none", "partial", "installed"
  itFailed,       \* the It's Expect failed
  verdict,        \* what ginkgo reports: "none", "passed" or "failed"
  \* Observability: the calls the suite made to the tester, in order.
  calls

vars == <<stage, home, kubeconfigs, kubeconfigPath, cli, release, itFailed, verdict, calls>>

Releases == {"none", "partial", "installed"}
Calls == {"Apply", "Delete"}

TypeOK ==
  /\ stage \in {"build", "before", "it", "after", "done"}
  /\ home \in Homes
  /\ kubeconfigs \subseteq KubeconfigCandidates
  /\ kubeconfigPath \in KubeconfigCandidates \cup {DefaultKubectlPath, ""}
  /\ cli \in {"client", "nil"}
  /\ release \in Releases
  /\ itFailed \in BOOLEAN
  /\ verdict \in {"none", "passed", "failed"}
  /\ calls \in {<<>>, <<"Apply">>, <<"Delete">>, <<"Apply", "Delete">>}

(***************************************************************************)
(* The collaborators.                                                      *)
(***************************************************************************)
\* Mutant: $HOME itself is taken for the kubeconfig, without the Join.
KubeconfigPathHome(h) == IF h # "" THEN h ELSE DefaultKubectlPath

\* The kubeconfig path of lines 20-24.
KubeconfigPathOf(h) == IF h # "" THEN HomeKubeconfig[h] ELSE DefaultKubectlPath

\* client.New (lines 27-30) builds a client from the kubeconfig at the path;
\* on any error it returns nil, and the suite keeps it (the error is "_").
NewClient(path, files) == IF path \in files THEN "client" ELSE "nil"

\* ts.Apply(): with no client nothing reaches the cluster and it fails (a nil
\* dereference that ginkgo turns into a failure is the same to the suite);
\* with one the Helm install succeeds, fails before it creates anything, or
\* fails after it created part of the release.
ApplyOutcomes(c, r) ==
  IF c = "nil" THEN {[err |-> TRUE, release |-> r]}
  ELSE {[err |-> FALSE, release |-> "installed"],
        [err |-> TRUE, release |-> r],
        [err |-> TRUE, release |-> "partial"]}

\* ts.Delete(): with a client it uninstalls the release or fails leaving it.
DeleteOutcomes(c, r) ==
  IF c = "nil" THEN {r} ELSE {"none", r}

(***************************************************************************)
(* The suite.                                                              *)
(***************************************************************************)
\* The process starts with $HOME and the kubeconfig files of the machine it
\* runs on; the cluster may still hold the release of an earlier run whose
\* Delete failed (its error is dropped, so nothing cleaned it up).
Init ==
  /\ stage = "build"
  /\ home \in Homes
  /\ kubeconfigs \in SUBSET KubeconfigCandidates
  /\ kubeconfigPath = ""
  /\ cli = "nil"
  /\ release \in Releases
  /\ itFailed = FALSE
  /\ verdict = "none"
  /\ calls = <<>>

\* The Describe body (lines 19-36): the logger's error and client.New's
\* error are dropped; NewDefault, Enable = true and New(cfg) build ts.
Describe ==
  /\ stage = "build"
  /\ kubeconfigPath' = KubeconfigPathOf(home)
  /\ cli' = NewClient(kubeconfigPath', kubeconfigs)
  /\ stage' = "before"
  /\ UNCHANGED <<home, kubeconfigs, release, itFailed, verdict, calls>>

\* BeforeEach (lines 37-39) only records a ginkgo.By step.
BeforeEach ==
  /\ stage = "before"
  /\ stage' = "it"
  /\ UNCHANGED <<home, kubeconfigs, kubeconfigPath, cli, release, itFailed, verdict, calls>>

\* The It (lines 44-47): Expect(ts.Apply()).Should(Succeed()); a failed
\* Expect ends the It, and ginkgo goes on to the AfterEach either way.
It ==
  /\ stage = "it"
  /\ \E o \in ApplyOutcomes(cli, release) :
       /\ release' = o.release
       /\ itFailed' = o.err
  /\ calls' = <<"Apply">>
  /\ stage' = "after"
  /\ UNCHANGED <<home, kubeconfigs, kubeconfigPath, cli, verdict>>

\* Mutant: the AfterEach cleans up only after an It that passed.
AfterEachOnPass ==
  /\ stage = "after"
  /\ IF itFailed THEN UNCHANGED <<release, calls>>
     ELSE /\ release' \in DeleteOutcomes(cli, release)
          /\ calls' = calls \o <<"Delete">>
  /\ verdict' = IF itFailed THEN "failed" ELSE "passed"
  /\ stage' = "done"
  /\ UNCHANGED <<home, kubeconfigs, kubeconfigPath, cli, itFailed>>

\* The AfterEach (lines 40-43): ts.Delete(), whose error is dropped; the
\* suite's verdict is the It's.
AfterEach ==
  /\ stage = "after"
  /\ release' \in DeleteOutcomes(cli, release)
  /\ calls' = calls \o <<"Delete">>
  /\ verdict' = IF itFailed THEN "failed" ELSE "passed"
  /\ stage' = "done"
  /\ UNCHANGED <<home, kubeconfigs, kubeconfigPath, cli, itFailed>>

Next == Describe \/ BeforeEach \/ It \/ AfterEach

\* No fairness: whether Apply and Delete return is up to Helm and the
\* cluster, which the suite does not bound, so the model states only what
\* the suite may do, not that it finishes.
Spec == Init /\ [][Next]_vars

(***************************************************************************)
(* Properties.                                                             *)
(***************************************************************************)
\* Whatever Apply did, the suite does not end before it has called Delete
\* after it: the AfterEach runs after a failed It as after a passed one.
CleanupAfterApply ==
  stage = "done" => calls = <<"Apply", "Delete">>

\* A suite that reports success leaves no Falco release in the cluster
\* (the AfterEach's Delete, whose error line 42 drops, did its work).
NoReleaseLeftOnPass ==
  stage = "done" /\ verdict = "passed" => release = "none"

\* The tester is never asked to install Falco through a client that could
\* not be built: client.New's error (line 27) is not silently carried into
\* Apply, e.g. when $HOME is unset and line 23 names the kubectl binary.
NoApplyWithoutClient ==
  calls # <<>> => cli = "client"

(***************************************************************************)
(* Refinement: the suite is a ginkgo spec in the sense of SuiteLifecycle.  *)
(* The Describe body and BeforeEach are its setup, the It its test, the   *)
(* AfterEach its cleanup; the cleanup counts as run once Delete was called.*)
(***************************************************************************)
LifecyclePhase ==
  CASE stage \in {"build", "before"} -> "setup"
    [] stage = "it"                   -> "test"
    [] stage = "after"                -> "cleanup"
    [] stage = "done"                 -> "reported"

Lifecycle == INSTANCE SuiteLifecycle
               WITH lphase <- LifecyclePhase, testFailed <- itFailed,
                    cleanedUp <- \E i \in DOMAIN calls : calls[i] = "Delete",
                    reported <- verdict

=============================================================================
