---------------------------- MODULE SuiteLifecycle ----------------------------
(***************************************************************************)
(* What a ginkgo spec with an It and an AfterEach promises, whatever it    *)
(* tests: its setup runs, then the test runs once and passes or fails,     *)
(* then the cleanup runs whatever the test did, and only then is the       *)
(* verdict reported, and it is the test's.                                 *)
(***************************************************************************)
VARIABLES
  lphase,     \* "setup", "test", "cleanup" or "reported"
  testFailed, \* the test's outcome, once it has run
  cleanedUp,  \* the cleanup has run
  reported    \* "none", "passed" or "failed"

lvars == <<lphase, testFailed, cleanedUp, reported>>

Init ==
  /\ lphase = "setup"
  /\ testFailed = FALSE
  /\ cleanedUp = FALSE
  /\ reported = "none"

Setup ==
  /\ lphase = "setup"
  /\ lphase' = "test"
  /\ UNCHANGED <<testFailed, cleanedUp, reported>>

Test ==
  /\ lphase = "test"
  /\ lphase' = "cleanup"
  /\ testFailed' \in BOOLEAN
  /\ UNCHANGED <<cleanedUp, reported>>

Cleanup ==
  /\ lphase = "cleanup"
  /\ lphase' = "reported"
  /\ cleanedUp' = TRUE
  /\ reported' = IF testFailed THEN "failed" ELSE "passed"
  /\ UNCHANGED testFailed

Next == Setup \/ Test \/ Cleanup

\* The lifecycle as a safety specification: what a suite may do, step by step.
Spec == Init /\ [][Next]_lvars
=============================================================================
