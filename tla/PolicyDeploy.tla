---------------------------- MODULE PolicyDeploy ----------------------------
(***************************************************************************)
(* How a version of the policy file gets into OPA, and its hash into the   *)
(* traces: scripts/compose_up.sh and scripts/kind_deploy.sh.               *)
(*                                                                         *)
(* The two travel apart.  OPA loads the rules when it starts, from a       *)
(* directory it is given, and does not watch it.  The gateway writes into  *)
(* each trace the POLICY_BUNDLE_HASH of its environment, which the script  *)
(* computed when it began.  Editors, containers that restart and scripts   *)
(* that fail half-way come in between.                                     *)
(*                                                                         *)
(* Versions of the file are numbered; a hash is the number of the version  *)
(* it was computed from.  Docker Compose and the controllers of Kubernetes *)
(* are external, modelled as the scripts and manifests use them.           *)
(***************************************************************************)
EXTENDS Naturals, FiniteSets

CONSTANTS
  MaxEdits,   \* bound: edits of the policy file
  MaxDeploys  \* bound: runs of the deploy script

ASSUME BoundsAssumption == MaxEdits \in Nat /\ MaxDeploys \in Nat

VARIABLES
  platform,   \* "compose" or "kind"
  file,       \* version of policies/opa/rego/decision.rego
  pc,         \* next command of the deploy script, or how its last run ended
  hash,       \* POLICY_BUNDLE_HASH in the script
  configMap,  \* kind: version in the config map opa-policy, 0 for none
  wanted,     \* kind: the Deployments of OPA and the gateway
  opa,        \* OPA containers that serve
  gateway,    \* gateways that serve
  traces,     \* decision traces: rules they were decided by, hash they record
  deploys,    \* runs of the script so far
  edited      \* ghost: the file was edited during the last run

cluster == <<configMap, wanted>>
servers == <<opa, gateway>>
vars == <<platform, file, pc, hash, cluster, servers, traces, deploys, edited>>

(* The hash a gateway records that was started without one.                 *)
LocalDev == 0

Init ==
  /\ platform \in {"compose", "kind"}
  /\ file = 1
  /\ pc = "idle"
  /\ hash = LocalDev
  /\ configMap = 0
  /\ wanted = [opa |-> 0, gateway |-> 0, hash |-> LocalDev]
  /\ opa = {}
  /\ gateway = {}
  /\ traces = {}
  /\ deploys = 0
  /\ edited = FALSE

Running == pc \notin {"idle", "done", "failed"}

(* Somebody edits the policy file.                                          *)
Edit ==
  /\ file <= MaxEdits
  /\ file' = file + 1
  /\ edited' = (edited \/ Running)
  /\ UNCHANGED <<platform, pc, hash, cluster, servers, traces, deploys>>

(* Either script computes the hash first.                                   *)
Begin ==
  /\ ~Running
  /\ deploys < MaxDeploys
  /\ deploys' = deploys + 1
  /\ hash' = file
  /\ edited' = FALSE
  /\ pc' = IF platform = "compose" THEN "up opa" ELSE "apply configmap"
  /\ UNCHANGED <<platform, file, cluster, servers, traces>>

(* Mutant: a command that fails does not make the script fail.              *)
FailQuietly ==
  /\ Running
  /\ pc' = "done"
  /\ UNCHANGED <<platform, file, hash, cluster, servers, traces, deploys, edited>>

(* set -e: a command fails, or a server does not answer in time.            *)
Fail ==
  /\ Running
  /\ pc' = "failed"
  /\ UNCHANGED <<platform, file, hash, cluster, servers, traces, deploys, edited>>

-----------------------------------------------------------------------------
(* compose_up.sh: docker compose up -d, OPA before the gateway, and         *)
(* compose_down.sh.  A service is created again when what compose knows of  *)
(* it changed: the environment of the gateway, nothing of OPA.              *)

UpOPA ==
  /\ pc = "up opa"
  /\ opa' = IF opa = {}
            THEN {[gen |-> deploys, mount |-> file, rules |-> file]} ELSE opa
  /\ pc' = "up gateway"
  /\ UNCHANGED <<platform, file, hash, cluster, gateway, traces, deploys, edited>>

UpGateway ==
  /\ pc = "up gateway"
  /\ gateway' = IF \E g \in gateway : g.hash = hash
                THEN gateway ELSE {[gen |-> deploys, hash |-> hash]}
  /\ pc' = "done"
  /\ UNCHANGED <<platform, file, hash, cluster, opa, traces, deploys, edited>>

Down ==
  /\ platform = "compose"
  /\ ~Running
  /\ opa \cup gateway # {}
  /\ opa' = {}
  /\ gateway' = {}
  /\ pc' = "idle"
  /\ UNCHANGED <<platform, file, hash, cluster, traces, deploys, edited>>

-----------------------------------------------------------------------------
(* kind_deploy.sh.                                                          *)

(* The config map is made from the file as it is now.                       *)
ApplyConfigMap ==
  /\ pc = "apply configmap"
  /\ configMap' = file
  /\ pc' = "apply opa"
  /\ UNCHANGED <<platform, file, hash, wanted, servers, traces, deploys, edited>>

(* kubectl apply creates a Deployment that is not there; one that is there  *)
(* is as in its manifest but for the environment set below, which apply     *)
(* does not touch.                                                          *)
ApplyOPA ==
  /\ pc = "apply opa"
  /\ wanted' = IF wanted.opa = 0 THEN [wanted EXCEPT !.opa = 1] ELSE wanted
  /\ pc' = "apply gateway"
  /\ UNCHANGED <<platform, file, hash, configMap, servers, traces, deploys, edited>>

ApplyGateway ==
  /\ pc = "apply gateway"
  /\ wanted' = IF wanted.gateway = 0 THEN [wanted EXCEPT !.gateway = 1] ELSE wanted
  /\ pc' = "set env"
  /\ UNCHANGED <<platform, file, hash, configMap, servers, traces, deploys, edited>>

(* kubectl set env: a changed environment is a new generation of pods.      *)
SetEnv ==
  /\ pc = "set env"
  /\ wanted' = IF wanted.hash = hash THEN wanted
               ELSE [wanted EXCEPT !.hash = hash, !.gateway = @ + 1]
  /\ pc' = "restart opa"
  /\ UNCHANGED <<platform, file, hash, configMap, servers, traces, deploys, edited>>

(* Mutant: only the gateway is restarted.                                   *)
RestartOPANot ==
  /\ pc = "restart opa"
  /\ pc' = "restart gateway"
  /\ UNCHANGED <<platform, file, hash, cluster, servers, traces, deploys, edited>>

(* kubectl rollout restart, of one Deployment after the other.              *)
RestartOPA ==
  /\ pc = "restart opa"
  /\ wanted' = [wanted EXCEPT !.opa = @ + 1]
  /\ pc' = "restart gateway"
  /\ UNCHANGED <<platform, file, hash, configMap, servers, traces, deploys, edited>>

RestartGateway ==
  /\ pc = "restart gateway"
  /\ wanted' = [wanted EXCEPT !.gateway = @ + 1]
  /\ pc' = "done"
  /\ UNCHANGED <<platform, file, hash, configMap, servers, traces, deploys, edited>>

-----------------------------------------------------------------------------
(* Rolling updates, which the script does not wait for: a new pod before an *)
(* old one goes, never more than two, never none once there is one.         *)

StartOPA ==
  /\ wanted.opa > 0
  /\ \A o \in opa : o.gen # wanted.opa
  /\ Cardinality(opa) < 2
  /\ opa' = opa \cup {[gen |-> wanted.opa, mount |-> configMap, rules |-> configMap]}
  /\ UNCHANGED <<platform, file, pc, hash, cluster, gateway, traces, deploys, edited>>

StartGateway ==
  /\ wanted.gateway > 0
  /\ \A g \in gateway : g.gen # wanted.gateway
  /\ Cardinality(gateway) < 2
  /\ gateway' = gateway \cup {[gen |-> wanted.gateway, hash |-> wanted.hash]}
  /\ UNCHANGED <<platform, file, pc, hash, cluster, opa, traces, deploys, edited>>

StopOPA(o) ==
  /\ platform = "kind"
  /\ o.gen < wanted.opa /\ Cardinality(opa) = 2
  /\ opa' = opa \ {o}
  /\ UNCHANGED <<platform, file, pc, hash, cluster, gateway, traces, deploys, edited>>

StopGateway(g) ==
  /\ platform = "kind"
  /\ g.gen < wanted.gateway /\ Cardinality(gateway) = 2
  /\ gateway' = gateway \ {g}
  /\ UNCHANGED <<platform, file, pc, hash, cluster, opa, traces, deploys, edited>>

(* The kubelet brings the files of a running pod up to the config map.      *)
Sync(o) ==
  /\ platform = "kind"
  /\ o.mount # configMap
  /\ opa' = (opa \ {o}) \cup {[o EXCEPT !.mount = configMap]}
  /\ UNCHANGED <<platform, file, pc, hash, cluster, gateway, traces, deploys, edited>>

-----------------------------------------------------------------------------
(* An OPA container dies and is restarted (restart: unless-stopped, or the  *)
(* kubelet): it loads what its directory holds now.  A gateway that is      *)
(* restarted has the environment it had.                                    *)
Reload(o) ==
  /\ opa' = (opa \ {o}) \cup
              {[o EXCEPT !.rules = IF platform = "compose" THEN file ELSE o.mount]}
  /\ opa' # opa
  /\ UNCHANGED <<platform, file, pc, hash, cluster, gateway, traces, deploys, edited>>

(* No update is under way: one OPA and one gateway, of the last generation. *)
RolledOut ==
  /\ opa # {} /\ gateway # {}
  /\ platform = "kind" =>
       /\ \A o \in opa : o.gen = wanted.opa
       /\ \A g \in gateway : g.gen = wanted.gateway

Settled == pc = "done" /\ RolledOut

(* A gateway asks an OPA and records the decision with its own hash.        *)
Decide(o, g) ==
  /\ traces' = traces \cup {[rules |-> o.rules, hash |-> g.hash, settled |-> Settled]}
  /\ UNCHANGED <<platform, file, pc, hash, cluster, servers, deploys, edited>>

Script ==
  \/ UpOPA \/ UpGateway
  \/ ApplyConfigMap \/ ApplyOPA \/ ApplyGateway \/ SetEnv \/ RestartOPA \/ RestartGateway

Controllers ==
  \/ StartOPA \/ StartGateway
  \/ \E o \in opa : StopOPA(o)
  \/ \E g \in gateway : StopGateway(g)

Next ==
  \/ Edit \/ Begin \/ Fail \/ Down \/ Script \/ Controllers
  \/ \E o \in opa : Sync(o) \/ Reload(o)
  \/ \E o \in opa, g \in gateway : Decide(o, g)

SafeSpec == Init /\ [][Next]_vars

(* The controllers bring the pods to what is wanted.  Nobody has to edit or *)
(* to deploy, and the script may fail at any command.                       *)
Fairness ==
  /\ WF_vars(StartOPA) /\ WF_vars(StartGateway)
  /\ WF_vars(\E o \in opa : StopOPA(o)) /\ WF_vars(\E g \in gateway : StopGateway(g))

Spec == SafeSpec /\ Fairness

-----------------------------------------------------------------------------
Agree == \A o \in opa, g \in gateway : o.rules = g.hash

(* In a cluster a deploy that ran to its end and was rolled out leaves no   *)
(* gateway with the hash of other rules than OPA decides by, unless the     *)
(* file was edited while the script ran: whatever failed deploys left       *)
(* behind, whatever was edited since and however often OPA restarts.  Under *)
(* Compose this takes an OPA that this deploy created, and a file that is   *)
(* still the one deployed.                                                  *)
CleanDeployIsVersioned ==
  Settled /\ ~edited
    /\ (platform = "compose" => file = hash /\ \A o \in opa : o.gen = deploys)
    => Agree

(* In a cluster a finished deploy takes effect by itself: after some time   *)
(* every OPA decides by the rules that were deployed and every gateway      *)
(* records their hash, or somebody deploys again.                           *)
DeployTakesEffect ==
  platform = "kind" /\ pc = "done" /\ ~edited
    ~> \/ pc # "done"
       \/ /\ opa # {} /\ \A o \in opa : o.rules = hash
          /\ gateway # {} /\ \A g \in gateway : g.hash = hash

-----------------------------------------------------------------------------
(* What docs/decision-trace-schema.md says of a trace.                      *)

(* Decisions are versioned: a Decision Trace records the exact policy       *)
(* bundle hash used.  Stated here of decisions made while no deploy and no  *)
(* update is under way.                                                     *)
DecisionsAreVersioned == \A t \in traces : t.settled => t.hash = t.rules
=============================================================================
