---------------------------- MODULE MC_FalcoSuite ----------------------------
(***************************************************************************)
(* The Falco suite on machines with $HOME unset or set to one of two       *)
(* homes, each of which may or may not hold ~/.kube/config.               *)
(***************************************************************************)
EXTENDS FalcoSuite

MCHomes == {"", "/home/u", "/root"}
MCKubeconfigCandidates == {"/home/u/.kube/config", "/root/.kube/config"}
MCHomeKubeconfig == [h \in {"/home/u", "/root"} |-> h \o "/.kube/config"]
\* The kubectl binary location the client package defaults to.
MCDefaultKubectlPath == "/tmp/kubectl-test-v1.21.0"
=============================================================================
