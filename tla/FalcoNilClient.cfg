CONSTANTS
  Homes <- MCHomes
  KubeconfigCandidates <- MCKubeconfigCandidates
  HomeKubeconfig <- MCHomeKubeconfig
  DefaultKubectlPath <- MCDefaultKubectlPath
SPECIFICATION Spec
INVARIANTS NoApplyWithoutClient
\* The test process exits once the suite has reported.
CHECK_DEADLOCK FALSE
