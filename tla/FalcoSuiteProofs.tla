--------------------------- MODULE FalcoSuiteProofs ---------------------------
(***************************************************************************)
(* Proofs about the Falco end-to-end suite.  CleanupAfterApply is not      *)
(* inductive by itself: a step into "done" must know that exactly one      *)
(* Apply has been made.  The strengthening ties each stage of the ginkgo   *)
(* run to the calls the suite has made by then.                            *)
(***************************************************************************)
EXTENDS FalcoSuite, SequenceTheorems, TLAPS

\* The calls made by each stage: none before the It, Apply after it, and
\* Apply then Delete once the AfterEach has run.
CallsByStage ==
  /\ stage \in {"build", "before", "it"} => calls = <<>>
  /\ stage = "after" => calls = <<"Apply">>
  /\ stage = "done" => calls = <<"Apply", "Delete">>

IInv == TypeOK /\ CallsByStage

\* Appending one call to a one-call history.
LEMMA AppendOne ==
  ASSUME NEW a, NEW b
  PROVE  <<a>> \o <<b>> = <<a, b>>
<1> DEFINE S == {a, b}
<1>1. <<a>> \in Seq(S) /\ <<b>> \in Seq(S) /\ <<a, b>> \in Seq(S)
  OBVIOUS
<1>2. /\ <<a>> \o <<b>> \in Seq(S)
      /\ Len(<<a>> \o <<b>>) = Len(<<a>>) + Len(<<b>>)
      /\ \A i \in 1 .. Len(<<a>>) + Len(<<b>>) : (<<a>> \o <<b>>)[i] =
            IF i <= Len(<<a>>) THEN <<a>>[i] ELSE <<b>>[i - Len(<<a>>)]
  BY <1>1, ConcatProperties, Zenon
<1>3. Len(<<a>> \o <<b>>) = Len(<<a, b>>)
  BY <1>2
<1>4. \A i \in 1 .. Len(<<a>> \o <<b>>) : (<<a>> \o <<b>>)[i] = <<a, b>>[i]
  <2> SUFFICES ASSUME NEW i \in 1 .. Len(<<a>> \o <<b>>)
               PROVE  (<<a>> \o <<b>>)[i] = <<a, b>>[i]
    OBVIOUS
  <2>1. i \in 1..2 /\ Len(<<a>>) = 1 /\ Len(<<b>>) = 1
    BY <1>2
  <2>2. (<<a>> \o <<b>>)[i] = IF i <= 1 THEN <<a>>[i] ELSE <<b>>[i - 1]
    BY <1>2, <2>1
  <2>3. CASE i = 1
    BY <2>2, <2>3
  <2>4. CASE i = 2
    BY <2>2, <2>4
  <2>5. QED
    BY <2>1, <2>3, <2>4
<1>5. QED
  BY <1>1, <1>2, <1>3, <1>4, SeqEqual, Zenon

LEMMA InitIInv ==
  Init => IInv
  BY SuiteAssumption DEF Init, IInv, TypeOK, CallsByStage

LEMMA NextIInv ==
  IInv /\ [Next]_vars => IInv'
<1> SUFFICES ASSUME IInv, [Next]_vars PROVE IInv'
  OBVIOUS
<1> USE DEF IInv, TypeOK, CallsByStage
<1>1. CASE Describe
  <2>1. KubeconfigPathOf(home) \in KubeconfigCandidates \cup {DefaultKubectlPath}
    BY SuiteAssumption DEF KubeconfigPathOf
  <2>2. QED
    BY <1>1, <2>1 DEF Describe, NewClient
<1>2. CASE BeforeEach
  BY <1>2 DEF BeforeEach
<1>3. CASE It
  <2>1. PICK o \in ApplyOutcomes(cli, release) :
          release' = o.release /\ itFailed' = o.err
    BY <1>3 DEF It
  <2>2. o.release \in Releases /\ o.err \in BOOLEAN
    <3>1. CASE cli = "nil"
      <4>1. o = [err |-> TRUE, release |-> release]
        BY <2>1, <3>1 DEF ApplyOutcomes
      <4>2. QED
        BY <4>1
    <3>2. CASE cli # "nil"
      <4>1. o \in {[err |-> FALSE, release |-> "installed"],
                   [err |-> TRUE, release |-> release],
                   [err |-> TRUE, release |-> "partial"]}
        BY <2>1, <3>2 DEF ApplyOutcomes
      <4>2. \/ o = [err |-> FALSE, release |-> "installed"]
            \/ o = [err |-> TRUE, release |-> release]
            \/ o = [err |-> TRUE, release |-> "partial"]
        BY <4>1, Zenon
      <4>3. release \in Releases
        OBVIOUS
      <4>4. CASE o = [err |-> FALSE, release |-> "installed"]
        BY <4>4 DEF Releases
      <4>5. CASE o = [err |-> TRUE, release |-> release]
        BY <4>3, <4>5
      <4>6. CASE o = [err |-> TRUE, release |-> "partial"]
        BY <4>6 DEF Releases
      <4>7. QED
        BY <4>2, <4>4, <4>5, <4>6
    <3>3. QED
      BY <3>1, <3>2
  <2>3. QED
    BY <1>3, <2>1, <2>2 DEF It
<1>4. CASE AfterEach
  <2>1. release' \in Releases
    <3>1. release' \in {"none", release}
      BY <1>4 DEF AfterEach, DeleteOutcomes
    <3>2. QED
      BY <3>1 DEF Releases
  <2>2. calls' = <<"Apply", "Delete">>
    <3>1. calls = <<"Apply">> /\ calls' = calls \o <<"Delete">>
      BY <1>4 DEF AfterEach
    <3>2. QED
      BY <3>1, AppendOne, Zenon
  <2>3. QED
    BY <1>4, <2>1, <2>2 DEF AfterEach
<1>5. CASE UNCHANGED vars
  BY <1>5 DEF vars
<1>6. QED
  BY <1>1, <1>2, <1>3, <1>4, <1>5 DEF Next

\* Whatever ts.Apply() did and whichever $HOME the process had, a suite
\* that has finished has called ts.Delete() once, after its one ts.Apply():
\* ginkgo runs the AfterEach of lines 40-43 after a failed It as after a
\* passed one.
THEOREM CleanupCorrect ==
  Spec => []CleanupAfterApply
<1>1. Init => IInv
  BY InitIInv
<1>2. IInv /\ [Next]_vars => IInv'
  BY NextIInv
<1>3. IInv => CleanupAfterApply
  BY DEF IInv, CallsByStage, CleanupAfterApply
<1>4. QED
  BY <1>1, <1>2, <1>3, PTL DEF Spec
\* The type invariant of the suite: the stage, the kubeconfig path chosen
\* by lines 20-24, the client, the release and the calls keep their types
\* for every set of homes and kubeconfig files.
THEOREM TypeCorrect ==
  Spec => []TypeOK
<1>1. IInv => TypeOK
  BY DEF IInv
<1>2. QED
  BY <1>1, InitIInv, NextIInv, PTL DEF Spec

(***************************************************************************)
(* Refinement of SuiteLifecycle.                                           *)
(***************************************************************************)
\* Whether Delete has been called, on each history the suite can have.
LEMMA DeleteCalled ==
  /\ ~\E i \in DOMAIN << >> : << >>[i] = "Delete"
  /\ ~\E i \in DOMAIN <<"Apply">> : <<"Apply">>[i] = "Delete"
  /\ \E i \in DOMAIN <<"Apply", "Delete">> : <<"Apply", "Delete">>[i] = "Delete"
<1>1. ~\E i \in DOMAIN << >> : << >>[i] = "Delete"
  OBVIOUS
<1>2. ~\E i \in DOMAIN <<"Apply">> : <<"Apply">>[i] = "Delete"
  OBVIOUS
<1>3. 2 \in DOMAIN <<"Apply", "Delete">> /\ <<"Apply", "Delete">>[2] = "Delete"
  OBVIOUS
<1>4. QED
  BY <1>1, <1>2, <1>3

LEMMA InitRefined ==
  Init => Lifecycle!Init
  BY DeleteCalled DEF Init, Lifecycle!Init, LifecyclePhase

LEMMA NextRefined ==
  IInv /\ [Next]_vars => [Lifecycle!Next]_Lifecycle!lvars
<1> SUFFICES ASSUME IInv, [Next]_vars PROVE [Lifecycle!Next]_Lifecycle!lvars
  OBVIOUS
<1> USE DEF IInv, TypeOK, CallsByStage
<1>1. CASE Describe
  BY <1>1 DEF Describe, Lifecycle!lvars, LifecyclePhase
<1>2. CASE BeforeEach
  <2>1. calls = << >> /\ calls' = << >>
    BY <1>2 DEF BeforeEach
  <2>2. Lifecycle!Setup
    BY <1>2, <2>1, DeleteCalled DEF BeforeEach, Lifecycle!Setup, LifecyclePhase
  <2>3. QED
    BY <2>2 DEF Lifecycle!Next
<1>3. CASE It
  <2>1. calls = << >> /\ calls' = <<"Apply">>
    BY <1>3 DEF It
  <2>2. itFailed' \in BOOLEAN
    BY <1>3, NextIInv
  <2>3. Lifecycle!Test
    BY <1>3, <2>1, <2>2, DeleteCalled DEF It, Lifecycle!Test, LifecyclePhase
  <2>4. QED
    BY <2>3 DEF Lifecycle!Next
<1>4. CASE AfterEach
  <2>1. calls = <<"Apply">> /\ calls' = <<"Apply", "Delete">>
    <3>1. calls = <<"Apply">> /\ calls' = calls \o <<"Delete">>
      BY <1>4 DEF AfterEach
    <3>2. QED
      BY <3>1, AppendOne, Zenon
  <2>2. Lifecycle!Cleanup
    BY <1>4, <2>1, DeleteCalled DEF AfterEach, Lifecycle!Cleanup, LifecyclePhase
  <2>3. QED
    BY <2>2 DEF Lifecycle!Next
<1>5. CASE UNCHANGED vars
  BY <1>5 DEF vars, Lifecycle!lvars, LifecyclePhase
<1>6. QED
  BY <1>1, <1>2, <1>3, <1>4, <1>5 DEF Next

\* The suite implements the lifecycle ginkgo promises: under the mapping
\* (FalcoSuite's Lifecycle instance), every behaviour of the suite is one
\* of a ginkgo spec whose AfterEach (lines 40-43) runs after the It (44-47)
\* whatever its outcome, and whose report is the It's verdict.
THEOREM ImplementsLifecycle ==
  Spec => Lifecycle!Spec
<1>1. Spec => []IInv
  BY InitIInv, NextIInv, PTL DEF Spec
<1>2. QED
  BY <1>1, InitRefined, NextRefined, PTL DEF Spec, Lifecycle!Spec

=============================================================================
