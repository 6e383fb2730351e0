---------------------------- MODULE MC_ConfigTree ----------------------------
(***************************************************************************)
(* A small instance of ConfigTree for TLC: the root record and two add-ons *)
(* (nlb-hello-world and jobs-pi, each with a few representative fields),   *)
(* a working directory /w, and one file outside it that cannot be written. *)
(* The integer widths are scaled down (16 for 64, 8 for 32) so that TLC's  *)
(* 32-bit integers can hold the values on both sides of the boundary.      *)
(***************************************************************************)
EXTENDS ConfigTree, TLC

MCIntBits == 16
MCInt32Bits == 8
MCJsonKeys == {"zone"}
MCJsonValues == {"a"}

NLB == "nlb"
PI == "pi"

MCAddonOrder == <<NLB, PI>>

MCAddonSchema ==
  NLB :> << F("Enable", "ENABLE", "bool", FALSE),
            F("DeploymentNodeSelector", "DEPLOYMENT_NODE_SELECTOR", "map", FALSE),
            F("DeploymentReplicas", "DEPLOYMENT_REPLICAS", "int32", FALSE),
            F("ELBURL", "ELB_URL", "string", TRUE) >>
  @@ PI :> << F("Enable", "ENABLE", "bool", FALSE),
              F("Completes", "COMPLETES", "int32", FALSE) >>

MCAddonEnv == NLB :> "ADD_ON_NLB_HELLO_WORLD" @@ PI :> "ADD_ON_JOBS_PI"

MCAddonDefault ==
  NLB :> [Enable |-> BoolLit(FALSE), DeploymentNodeSelector |-> EmptyMap,
          DeploymentReplicas |-> Dec(2), ELBURL |-> Unset]
  @@ PI :> [Enable |-> BoolLit(FALSE), Completes |-> Dec(10)]

\* add_on_jobs_pi sorts before add_on_nlb_hello_world.
MCAddonSerialKeys ==
  << <<PI, "Completes">>, <<PI, "Enable">>,
     <<NLB, "DeploymentNodeSelector">>, <<NLB, "DeploymentReplicas">>,
     <<NLB, "ELBURL">>, <<NLB, "Enable">> >>

MCGeneratedNames == {"k8s-gen"}
MCAbsPaths == {"/w/c.yaml", "/w/kube", "/etc/k8s.yaml"}
MCCwdJoin == "c.yaml" :> "/w/c.yaml" @@ "kube" :> "/w/kube"
MCUnwritable == {"/etc/k8s.yaml"}
MCLoadPaths == {Text("c.yaml"), Text("/etc/k8s.yaml")}
EtcOnly == {Text("/etc/k8s.yaml")}

\* The command line sets a relative ConfigPath after NewDefault; the
\* nlb-hello-world tester records the URL of the load balancer it created.
SetConfigPath == [slot |-> Root, name |-> "ConfigPath", val |-> Text("c.yaml")]
RecordELBURL  == [slot |-> NLB, name |-> "ELBURL", val |-> Text("elb-1")]

\* Files written by hand: one that configures only jobs-pi, one that also
\* configures nlb-hello-world with a node selector, and one with a key the
\* schema does not know.
HandWritten ==
  File(<< [slot |-> PI, name |-> "Enable", val |-> BoolLit(TRUE)],
          [slot |-> Root, name |-> "ClusterName", val |-> Text("hand")] >>)
WithNLB ==
  File(<< [slot |-> NLB, name |-> "DeploymentNodeSelector", val |-> Json("zone" :> "a")],
          [slot |-> NLB, name |-> "Enable", val |-> BoolLit(TRUE)],
          [slot |-> Root, name |-> "ClusterName", val |-> Text("hand")] >>)
UnknownKey ==
  File(<< [slot |-> Root, name |-> "unexpected_field", val |-> BoolLit(TRUE)] >>)

\* The file systems a run starts from: the hand-written file, if any, is
\* at the path the process cannot write.
Disks(fs) == { [p \in MCAbsPaths |-> IF p = "/etc/k8s.yaml" THEN f ELSE NoFile] : f \in fs }

MCCollab      == {SetConfigPath, RecordELBURL}
ELBOnly       == {RecordELBURL}
PersistDisks  == Disks({HandWritten, UnknownKey})
OverrideDisks == Disks({HandWritten, WithNLB, UnknownKey})
HandDisks     == Disks({HandWritten})
NLBDisks      == Disks({WithNLB})

\* Every environment that gives each variable one of its choices.
RECURSIVE Product(_)
Product(ch) ==
  IF DOMAIN ch = {} THEN {[v \in {} |-> Unset]}
  ELSE LET v    == CHOOSE x \in DOMAIN ch : TRUE
           rest == [x \in DOMAIN ch \ {v} |-> ch[x]]
       IN  {(v :> l) @@ e : l \in ch[v], e \in Product(rest)}

V(suffix) == ENV_PREFIX \o suffix

\* Persistence: relative paths from the environment, resolved by Sync.
PersistChoices ==
  V("CONFIG_PATH") :> {Unset, Text("c.yaml")}
  @@ V("KUBECONFIG_PATH") :> {Unset, Text("kube")}

\* Override: variables of every kind, valid and malformed, on the root and
\* on both add-ons.
OverrideChoices ==
  V("CLUSTER_NAME") :> {Unset, Text("mycluster")}
  @@ V("LOG_OUTPUTS") :> {Unset, List(<<"stderr", "run.log">>)}
  @@ V("MINIMUM_NODES") :> {Unset, Text("abc")}
  @@ V("TOTAL_NODES") :> {Unset, Dec(5)}
  @@ V("ADD_ON_NLB_HELLO_WORLD_ENABLE") :> {Unset, Dec(1)}
  @@ V("ADD_ON_NLB_HELLO_WORLD_DEPLOYMENT_NODE_SELECTOR") :> {Unset, Json("zone" :> "a"), Text("{zone")}
  @@ V("ADD_ON_JOBS_PI_COMPLETES") :> {Unset, Dec(3)}

\* The environments of the runs that show a violation.
NilAddonChoices == V("ADD_ON_NLB_HELLO_WORLD_ENABLE") :> {BoolLit(TRUE)}
BadSelectorChoices == V("ADD_ON_NLB_HELLO_WORLD_DEPLOYMENT_NODE_SELECTOR") :> {Text("{zone")}
SeparatorChoices == V("LOG_OUTPUTS") :> {List(<<"", "">>)}
WideChoices == V("ADD_ON_JOBS_PI_COMPLETES") :> {Dec(300)}

PersistEnvs == Product(PersistChoices)
OverrideEnvs == Product(OverrideChoices)
NilAddonEnvs == Product(NilAddonChoices)
BadSelectorEnvs == Product(BadSelectorChoices)
WideEnvs == Product(WideChoices)
SeparatorEnvs == Product(SeparatorChoices)
=============================================================================
