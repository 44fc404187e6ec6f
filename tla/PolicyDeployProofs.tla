------------------------- MODULE PolicyDeployProofs -------------------------
(***************************************************************************)
(* Proof that a deploy which ran to its end leaves no gateway with the     *)
(* hash of other rules than OPA decides by, for any number of edits,       *)
(* deploys, restarts and decisions.                                        *)
(*                                                                         *)
(* The property speaks of the end of a deploy; the invariant says what     *)
(* each command of the script has achieved by then and what can still be   *)
(* left of earlier ones.  In a cluster the generations carry it: what is   *)
(* of the generation wanted was started from what is wanted.  Under        *)
(* Compose it is that the file only moves forward, so a file that is the   *)
(* one hashed was not edited since.                                        *)
(***************************************************************************)
EXTENDS PolicyDeploy, TLAPS

ComposeCommand == {"up opa", "up gateway"}
KindCommand == {"apply configmap", "apply opa", "apply gateway", "set env",
                "restart opa", "restart gateway"}
Place == {"idle", "done", "failed"} \cup ComposeCommand \cup KindCommand

OPAPod == [gen : Nat, mount : Nat, rules : Nat]
GatewayPod == [gen : Nat, hash : Nat]
Deployments == [opa : Nat, gateway : Nat, hash : Nat]
Trace == [rules : Nat, hash : Nat, settled : BOOLEAN]

TypeInv ==
  /\ platform \in {"compose", "kind"}
  /\ file \in Nat
  /\ pc \in Place
  /\ hash \in Nat
  /\ configMap \in Nat
  /\ wanted \in Deployments
  /\ opa \subseteq OPAPod
  /\ gateway \subseteq GatewayPod
  /\ traces \subseteq Trace
  /\ deploys \in Nat
  /\ edited \in BOOLEAN

(* The script was given the file as it was at some time, and as it is now   *)
(* if nobody has edited it since.                                           *)
HashInv ==
  /\ hash <= file
  /\ Running /\ ~edited => file = hash

(* Under Compose: nothing is wanted of Kubernetes, there is one gateway at  *)
(* most, a finished script has left it with the hash, and an OPA of this    *)
(* deploy decides by the file unless the file moved on.                     *)
ComposeInv ==
  platform = "compose" =>
    /\ pc \notin KindCommand
    /\ wanted.opa = 0 /\ wanted.gateway = 0
    /\ \A g, h \in gateway : g = h
    /\ pc = "done" => \A g \in gateway : g.hash = hash
    /\ \A o \in opa : /\ o.gen <= deploys
                      /\ o.gen = deploys /\ file = hash => o.rules = hash

(* In a cluster: how far the script has come, and what its commands so far  *)
(* have achieved.                                                           *)
OPARestarted == pc \in {"restart gateway", "done"}
EnvSet == pc = "restart opa" \/ OPARestarted
MapApplied == pc \in {"apply opa", "apply gateway", "set env"} \/ EnvSet

KindInv ==
  platform = "kind" =>
    /\ pc \notin ComposeCommand
    /\ \A o \in opa : o.gen <= wanted.opa
    /\ \A g \in gateway : /\ g.gen <= wanted.gateway
                          /\ g.gen = wanted.gateway => g.hash = wanted.hash
    /\ MapApplied /\ ~edited => configMap = hash
    /\ EnvSet => wanted.hash = hash
    /\ OPARestarted /\ ~edited =>
         \A o \in opa : o.gen = wanted.opa => o.mount = hash /\ o.rules = hash

DInv == TypeInv /\ HashInv /\ ComposeInv /\ KindInv
-----------------------------------------------------------------------------
(* What the actions do to the records, field by field.                      *)

(* A pod of OPA or of the gateway is a record, and its fields are versions. *)
LEMMA Pods ==
  /\ \A n, v, r \in Nat : [gen |-> n, mount |-> v, rules |-> r] \in OPAPod
  /\ \A n, v \in Nat : [gen |-> n, hash |-> v] \in GatewayPod
  /\ \A o \in OPAPod : o.gen \in Nat /\ o.mount \in Nat /\ o.rules \in Nat
  /\ \A g \in GatewayPod : g.gen \in Nat /\ g.hash \in Nat
BY DEF OPAPod, GatewayPod

(* The containers of OPA: created by either platform, brought up to date or *)
(* restarted as they are.                                                   *)
LEMMA OPAEffects ==
  ASSUME TypeInv
  PROVE  /\ UpOPA =>
              /\ opa' \subseteq OPAPod
              /\ \A p \in opa' : p \in opa \/ (p.gen = deploys /\ p.rules = file)
         /\ StartOPA =>
              /\ opa' \subseteq OPAPod
              /\ \A p \in opa' :
                   \/ p \in opa
                   \/ /\ p.gen = wanted.opa
                      /\ p.mount = configMap /\ p.rules = configMap
         /\ \A o \in opa : Sync(o) =>
              /\ opa' \subseteq OPAPod
              /\ \A p \in opa' :
                   \/ p \in opa
                   \/ /\ p.gen = o.gen
                      /\ p.mount = configMap /\ p.rules = o.rules
         /\ \A o \in opa : Reload(o) =>
              /\ opa' \subseteq OPAPod
              /\ \A p \in opa' :
                   \/ p \in opa
                   \/ /\ p.gen = o.gen /\ p.mount = o.mount
                      /\ p.rules = IF platform = "compose" THEN file ELSE o.mount
<1>1. /\ file \in Nat /\ deploys \in Nat /\ configMap \in Nat /\ wanted.opa \in Nat
      /\ opa \subseteq OPAPod
  BY DEF TypeInv, Deployments
<1>2. ASSUME UpOPA
      PROVE  /\ opa' \subseteq OPAPod
             /\ \A p \in opa' : p \in opa \/ (p.gen = deploys /\ p.rules = file)
  <2>1. PICK q : q = [gen |-> deploys, mount |-> file, rules |-> file]
    OBVIOUS
  <2>2. q \in OPAPod /\ q.gen = deploys /\ q.rules = file
    BY <1>1, <2>1, Pods
  <2>3. opa' = {q} \/ opa' = opa
    BY <1>2, <2>1 DEF UpOPA
  <2> QED
    BY <1>1, <2>2, <2>3
<1>3. ASSUME StartOPA
      PROVE  /\ opa' \subseteq OPAPod
             /\ \A p \in opa' :
                  \/ p \in opa
                  \/ /\ p.gen = wanted.opa
                     /\ p.mount = configMap /\ p.rules = configMap
  <2>1. PICK q : q = [gen |-> wanted.opa, mount |-> configMap, rules |-> configMap]
    OBVIOUS
  <2>2. /\ q \in OPAPod /\ q.gen = wanted.opa
        /\ q.mount = configMap /\ q.rules = configMap
    BY <1>1, <2>1, Pods
  <2>3. opa' = opa \cup {q}
    BY <1>3, <2>1 DEF StartOPA
  <2> QED
    BY <1>1, <2>2, <2>3
<1>4. ASSUME NEW o \in opa, Sync(o)
      PROVE  /\ opa' \subseteq OPAPod
             /\ \A p \in opa' :
                  \/ p \in opa
                  \/ /\ p.gen = o.gen
                     /\ p.mount = configMap /\ p.rules = o.rules
  <2>1. PICK q : q = [gen |-> o.gen, mount |-> configMap, rules |-> o.rules]
    OBVIOUS
  <2>2. q \in OPAPod /\ o \in OPAPod
    BY <1>1, <2>1, Pods
  <2>3. [o EXCEPT !.mount = configMap] = q
    BY <2>1, <2>2 DEF OPAPod
  <2>4. opa' = (opa \ {o}) \cup {q}
    BY <1>4, <2>3 DEF Sync
  <2> QED
    BY <1>1, <2>1, <2>2, <2>4
<1>5. ASSUME NEW o \in opa, Reload(o)
      PROVE  /\ opa' \subseteq OPAPod
             /\ \A p \in opa' :
                  \/ p \in opa
                  \/ /\ p.gen = o.gen /\ p.mount = o.mount
                     /\ p.rules = IF platform = "compose" THEN file ELSE o.mount
  <2>0. PICK v : v = IF platform = "compose" THEN file ELSE o.mount
    OBVIOUS
  <2>1. PICK q : q = [gen |-> o.gen, mount |-> o.mount, rules |-> v]
    OBVIOUS
  <2>2. q \in OPAPod /\ o \in OPAPod
    BY <1>1, <2>0, <2>1, Pods
  <2>3. [o EXCEPT !.rules = v] = q
    BY <2>1, <2>2 DEF OPAPod
  <2>4. opa' = (opa \ {o}) \cup {q}
    BY <1>5, <2>0, <2>3 DEF Reload
  <2> QED
    BY <1>1, <2>0, <2>1, <2>2, <2>4
<1> QED
  BY <1>2, <1>3, <1>4, <1>5

(* The gateways.                                                            *)
LEMMA GatewayEffects ==
  ASSUME TypeInv
  PROVE  /\ UpGateway =>
              /\ gateway' \subseteq GatewayPod
              /\ \/ gateway' = gateway /\ \E g \in gateway : g.hash = hash
                 \/ \E h : gateway' = {h} /\ h.hash = hash
         /\ StartGateway =>
              /\ gateway' \subseteq GatewayPod
              /\ \A h \in gateway' :
                   \/ h \in gateway
                   \/ h.gen = wanted.gateway /\ h.hash = wanted.hash
<1>1. /\ hash \in Nat /\ deploys \in Nat /\ gateway \subseteq GatewayPod
      /\ wanted.gateway \in Nat /\ wanted.hash \in Nat
  BY DEF TypeInv, Deployments
<1>2. ASSUME UpGateway
      PROVE  /\ gateway' \subseteq GatewayPod
             /\ \/ gateway' = gateway /\ \E g \in gateway : g.hash = hash
                \/ \E h : gateway' = {h} /\ h.hash = hash
  <2>1. PICK h : h = [gen |-> deploys, hash |-> hash]
    OBVIOUS
  <2>2. h \in GatewayPod /\ h.hash = hash
    BY <1>1, <2>1, Pods
  <2>3. \/ gateway' = gateway /\ \E g \in gateway : g.hash = hash
        \/ gateway' = {h}
    BY <1>2, <2>1 DEF UpGateway
  <2> QED
    BY <1>1, <2>2, <2>3
<1>3. ASSUME StartGateway
      PROVE  /\ gateway' \subseteq GatewayPod
             /\ \A h \in gateway' :
                  \/ h \in gateway
                  \/ h.gen = wanted.gateway /\ h.hash = wanted.hash
  <2>1. PICK h : h = [gen |-> wanted.gateway, hash |-> wanted.hash]
    OBVIOUS
  <2>2. h \in GatewayPod /\ h.gen = wanted.gateway /\ h.hash = wanted.hash
    BY <1>1, <2>1, Pods
  <2>3. gateway' = gateway \cup {h}
    BY <1>3, <2>1 DEF StartGateway
  <2> QED
    BY <1>1, <2>2, <2>3
<1> QED
  BY <1>2, <1>3

(* The Deployments.                                                         *)
AreWanted(w, n, m, v) ==
  w \in Deployments /\ w.opa = n /\ w.gateway = m /\ w.hash = v

(* Each command of a deploy asks for what it is about and for nothing else. *)
LEMMA WantedEffects ==
  ASSUME TypeInv
  PROVE  /\ ApplyOPA => AreWanted(wanted', IF wanted.opa = 0 THEN 1 ELSE wanted.opa,
                                  wanted.gateway, wanted.hash)
         /\ ApplyGateway => AreWanted(wanted', wanted.opa,
                                      IF wanted.gateway = 0 THEN 1
                                      ELSE wanted.gateway, wanted.hash)
         /\ SetEnv => AreWanted(wanted', wanted.opa,
                                IF wanted.hash = hash THEN wanted.gateway
                                ELSE wanted.gateway + 1, hash)
         /\ RestartOPA => AreWanted(wanted', wanted.opa + 1, wanted.gateway,
                                    wanted.hash)
         /\ RestartGateway => AreWanted(wanted', wanted.opa, wanted.gateway + 1,
                                        wanted.hash)
<1>1. wanted \in Deployments /\ hash \in Nat
  BY DEF TypeInv
<1>2. /\ wanted.opa \in Nat /\ wanted.gateway \in Nat /\ wanted.hash \in Nat
      /\ AreWanted(wanted, wanted.opa, wanted.gateway, wanted.hash)
  BY <1>1 DEF Deployments, AreWanted
<1>3. ASSUME NEW n \in Nat
      PROVE  AreWanted([wanted EXCEPT !.opa = n], n, wanted.gateway, wanted.hash)
  <2>1. [wanted EXCEPT !.opa = n]
          = [opa |-> n, gateway |-> wanted.gateway, hash |-> wanted.hash]
    BY <1>1 DEF Deployments
  <2> QED
    BY <1>2, <2>1 DEF AreWanted, Deployments
<1>4. ASSUME NEW n \in Nat
      PROVE  AreWanted([wanted EXCEPT !.gateway = n], wanted.opa, n, wanted.hash)
  <2>1. [wanted EXCEPT !.gateway = n]
          = [opa |-> wanted.opa, gateway |-> n, hash |-> wanted.hash]
    BY <1>1 DEF Deployments
  <2> QED
    BY <1>2, <2>1 DEF AreWanted, Deployments
<1>5. ASSUME NEW n \in Nat, NEW v \in Nat
      PROVE  AreWanted([wanted EXCEPT !.hash = v, !.gateway = n], wanted.opa, n, v)
  <2>1. PICK w : w = [wanted EXCEPT !.hash = v]
    OBVIOUS
  <2>2. w = [opa |-> wanted.opa, gateway |-> wanted.gateway, hash |-> v]
    BY <1>1, <2>1 DEF Deployments
  <2>3. [w EXCEPT !.gateway = n] = [opa |-> wanted.opa, gateway |-> n, hash |-> v]
    BY <2>2
  <2>4. [wanted EXCEPT !.hash = v, !.gateway = n]
          = [opa |-> wanted.opa, gateway |-> n, hash |-> v]
    BY <2>1, <2>3
  <2> QED
    BY <1>2, <2>4 DEF AreWanted, Deployments
<1>6. ApplyOPA => AreWanted(wanted', IF wanted.opa = 0 THEN 1 ELSE wanted.opa,
                            wanted.gateway, wanted.hash)
  BY <1>2, <1>3 DEF ApplyOPA
<1>7. ApplyGateway => AreWanted(wanted', wanted.opa,
                                IF wanted.gateway = 0 THEN 1
                                ELSE wanted.gateway, wanted.hash)
  BY <1>2, <1>4 DEF ApplyGateway
<1>8. SetEnv => AreWanted(wanted', wanted.opa,
                          IF wanted.hash = hash THEN wanted.gateway
                          ELSE wanted.gateway + 1, hash)
  <2>1. PICK n \in Nat : n = wanted.gateway + 1
    BY <1>2
  <2>2. SetEnv => wanted' = IF wanted.hash = hash THEN wanted
                            ELSE [wanted EXCEPT !.hash = hash, !.gateway = n]
    BY <2>1 DEF SetEnv
  <2>3. AreWanted([wanted EXCEPT !.hash = hash, !.gateway = n], wanted.opa, n, hash)
    BY <1>1, <1>2, <1>5, <2>1
  <2> QED
    BY <1>2, <2>1, <2>2, <2>3
<1>9. RestartOPA => AreWanted(wanted', wanted.opa + 1, wanted.gateway, wanted.hash)
  <2>1. PICK n \in Nat : n = wanted.opa + 1
    BY <1>2
  <2>2. RestartOPA => wanted' = [wanted EXCEPT !.opa = n]
    BY <2>1 DEF RestartOPA
  <2>3. AreWanted([wanted EXCEPT !.opa = n], n, wanted.gateway, wanted.hash)
    BY <1>3
  <2> QED
    BY <2>1, <2>2, <2>3
<1>10. RestartGateway => AreWanted(wanted', wanted.opa, wanted.gateway + 1,
                                   wanted.hash)
  <2>1. PICK n \in Nat : n = wanted.gateway + 1
    BY <1>2
  <2>2. RestartGateway => wanted' = [wanted EXCEPT !.gateway = n]
    BY <2>1 DEF RestartGateway
  <2>3. AreWanted([wanted EXCEPT !.gateway = n], wanted.opa, n, wanted.hash)
    BY <1>4
  <2> QED
    BY <2>1, <2>2, <2>3
<1> QED
  BY <1>6, <1>7, <1>8, <1>9, <1>10

-----------------------------------------------------------------------------
(* The initial states satisfy the invariant.                                *)
LEMMA DInit == Init => DInv
<1> SUFFICES ASSUME Init PROVE DInv
  OBVIOUS
<1>1. /\ wanted \in Deployments /\ wanted.opa = 0 /\ wanted.gateway = 0
      /\ opa = {} /\ gateway = {} /\ traces = {} /\ pc = "idle"
  BY DEF Init, Deployments, LocalDev
<1>2. TypeInv
  BY <1>1 DEF Init, TypeInv, LocalDev, Place
<1>3. HashInv /\ ComposeInv /\ KindInv
  BY <1>1 DEF Init, HashInv, ComposeInv, KindInv, ComposeCommand, KindCommand,
              LocalDev, Running, MapApplied, EnvSet, OPARestarted
<1> QED
  BY <1>2, <1>3 DEF DInv

(* The variables keep their types.                                          *)
LEMMA DTypeStep == DInv /\ [Next]_vars => TypeInv'
<1> SUFFICES ASSUME TypeInv, [Next]_vars PROVE TypeInv'
  BY DEF DInv
<1> USE DEF TypeInv, cluster, servers
<1>1. /\ {"idle", "done", "failed"} \subseteq Place
      /\ ComposeCommand \subseteq Place /\ KindCommand \subseteq Place
  BY DEF Place
<1>2. /\ {"idle", "done", "failed", "up opa", "up gateway"} \subseteq Place
      /\ {"apply configmap", "apply opa", "apply gateway", "set env", "restart opa",
          "restart gateway"} \subseteq Place
  BY <1>1 DEF ComposeCommand, KindCommand
<1>3. CASE Edit
  BY <1>3 DEF Edit
<1>4. CASE Begin
  <2>1. hash' = file /\ deploys' = deploys + 1
    BY <1>4 DEF Begin
  <2>2. pc' \in Place /\ edited' \in BOOLEAN
    BY <1>2, <1>4 DEF Begin
  <2>3. UNCHANGED <<platform, file, configMap, wanted, opa, gateway, traces>>
    BY <1>4 DEF Begin
  <2> QED
    BY <2>1, <2>2, <2>3
<1>5. CASE Fail \/ Down
  BY <1>2, <1>5 DEF Fail, Down
<1>6. CASE UpOPA
  BY <1>2, <1>6, OPAEffects DEF UpOPA
<1>7. CASE UpGateway
  BY <1>2, <1>7, GatewayEffects DEF UpGateway
<1>8. CASE ApplyConfigMap
  BY <1>2, <1>8 DEF ApplyConfigMap
<1>9. CASE ApplyOPA \/ ApplyGateway \/ SetEnv \/ RestartOPA \/ RestartGateway
  <2>1. wanted' \in Deployments
    BY <1>9, WantedEffects DEF AreWanted
  <2>2. pc' \in Place
    BY <1>2, <1>9 DEF ApplyOPA, ApplyGateway, SetEnv, RestartOPA, RestartGateway
  <2> QED
    BY <1>9, <2>1, <2>2
       DEF ApplyOPA, ApplyGateway, SetEnv, RestartOPA, RestartGateway
<1>10. CASE StartOPA
  BY <1>10, OPAEffects DEF StartOPA
<1>11. CASE StartGateway
  BY <1>11, GatewayEffects DEF StartGateway
<1>12. ASSUME NEW o \in opa, StopOPA(o) \/ Sync(o) \/ Reload(o) PROVE TypeInv'
  <2>1. opa' \subseteq OPAPod
    BY <1>12, OPAEffects DEF StopOPA
  <2> QED
    BY <1>12, <2>1 DEF StopOPA, Sync, Reload
<1>13. ASSUME NEW g \in gateway, StopGateway(g) PROVE TypeInv'
  BY <1>13 DEF StopGateway
<1>14. ASSUME NEW o \in opa, NEW g \in gateway, Decide(o, g) PROVE TypeInv'
  <2>1. Settled \in BOOLEAN
    BY DEF Settled
  <2>2. o.rules \in Nat /\ g.hash \in Nat
    BY Pods
  <2>3. [rules |-> o.rules, hash |-> g.hash, settled |-> Settled] \in Trace
    BY <2>1, <2>2 DEF Trace
  <2> QED
    BY <1>14, <2>3 DEF Decide
<1>15. CASE UNCHANGED vars
  BY <1>15 DEF vars
<1> QED
  BY <1>3, <1>4, <1>5, <1>6, <1>7, <1>8, <1>9, <1>10, <1>11, <1>12, <1>13, <1>14,
     <1>15
     DEF Next, Script, Controllers

(* A system stays on its platform.                                          *)
LEMMA PlatformFixed == [Next]_vars => platform' = platform
<1>1. Edit \/ Begin \/ Fail \/ Down => platform' = platform
  BY DEF Edit, Begin, Fail, Down
<1>2. Script => platform' = platform
  BY DEF Script, UpOPA, UpGateway, ApplyConfigMap, ApplyOPA, ApplyGateway, SetEnv,
         RestartOPA, RestartGateway
<1>3. Controllers => platform' = platform
  BY DEF Controllers, StartOPA, StartGateway, StopOPA, StopGateway
<1>4. \A o : Sync(o) \/ Reload(o) => platform' = platform
  BY DEF Sync, Reload
<1>5. \A o, g : Decide(o, g) => platform' = platform
  BY DEF Decide
<1>6. UNCHANGED vars => platform' = platform
  BY DEF vars
<1> QED
  BY <1>1, <1>2, <1>3, <1>4, <1>5, <1>6 DEF Next

(* Whoever edits the file while the script runs is noticed.                 *)
LEMMA DHashStep == DInv /\ [Next]_vars => HashInv'
<1> SUFFICES ASSUME TypeInv, HashInv, [Next]_vars PROVE HashInv'
  BY DEF DInv
<1>1. file \in Nat /\ hash \in Nat
  BY DEF TypeInv
<1>2. ASSUME UNCHANGED <<file, hash, edited>>, Running' => Running PROVE HashInv'
  BY <1>2 DEF HashInv
<1>3. CASE Edit
  <2>1. file' = file + 1 /\ hash' = hash
    BY <1>3 DEF Edit
  <2>2. edited' = (edited \/ Running) /\ Running' = Running
    BY <1>3 DEF Edit, Running
  <2>3. hash' <= file'
    BY <1>1, <2>1 DEF HashInv
  <2>4. Running' => edited'
    BY <2>2
  <2> QED
    BY <2>3, <2>4 DEF HashInv
<1>4. CASE Begin
  <2>1. hash' = file /\ file' = file
    BY <1>4 DEF Begin
  <2> QED
    BY <1>1, <2>1 DEF HashInv
<1>5. CASE Fail \/ Down
  BY <1>2, <1>5 DEF Fail, Down, Running
<1>6. CASE UpOPA \/ UpGateway
  BY <1>2, <1>6 DEF UpOPA, UpGateway, Running
<1>7. CASE ApplyConfigMap \/ ApplyOPA \/ ApplyGateway
  BY <1>2, <1>7 DEF ApplyConfigMap, ApplyOPA, ApplyGateway, Running
<1>8. CASE SetEnv \/ RestartOPA \/ RestartGateway
  BY <1>2, <1>8 DEF SetEnv, RestartOPA, RestartGateway, Running
<1>9. CASE StartOPA \/ StartGateway
  BY <1>2, <1>9 DEF StartOPA, StartGateway, Running
<1>10. ASSUME NEW o \in opa, StopOPA(o) \/ Sync(o) \/ Reload(o) PROVE HashInv'
  BY <1>2, <1>10 DEF StopOPA, Sync, Reload, Running
<1>11. ASSUME NEW g \in gateway, StopGateway(g) PROVE HashInv'
  BY <1>2, <1>11 DEF StopGateway, Running
<1>12. ASSUME NEW o \in opa, NEW g \in gateway, Decide(o, g) PROVE HashInv'
  BY <1>2, <1>12 DEF Decide, Running
<1>13. CASE UNCHANGED vars
  BY <1>2, <1>13 DEF vars, Running
<1> QED
  BY <1>3, <1>4, <1>5, <1>6, <1>7, <1>8, <1>9, <1>10, <1>11, <1>12, <1>13
     DEF Next, Script, Controllers

(* Compose creates its two services and leaves them alone afterwards.       *)
LEMMA DComposeStep == DInv /\ [Next]_vars => ComposeInv'
<1> SUFFICES ASSUME TypeInv, HashInv, ComposeInv, [Next]_vars,
                    platform = "compose"
             PROVE  ComposeInv'
  BY PlatformFixed DEF DInv, ComposeInv
<1>1. /\ file \in Nat /\ hash \in Nat /\ deploys \in Nat /\ hash <= file
      /\ \A o \in opa : o.gen \in Nat
  BY Pods DEF TypeInv, HashInv
<1>2. /\ pc \notin KindCommand
      /\ "apply configmap" \in KindCommand /\ "apply opa" \in KindCommand
      /\ "apply gateway" \in KindCommand /\ "set env" \in KindCommand
      /\ "restart opa" \in KindCommand /\ "restart gateway" \in KindCommand
      /\ "idle" \notin KindCommand /\ "done" \notin KindCommand
      /\ "failed" \notin KindCommand /\ "up opa" \notin KindCommand
      /\ "up gateway" \notin KindCommand
  BY DEF ComposeInv, KindCommand
<1>3. wanted.opa = 0 /\ wanted.gateway = 0 /\ platform # "kind"
  BY DEF ComposeInv
<1>16. \A o \in opa : o.gen <= deploys + 1 /\ o.gen # deploys + 1
  <2>1. ASSUME NEW o \in opa PROVE o.gen <= deploys + 1 /\ o.gen # deploys + 1
    <3>1. o.gen \in Nat /\ o.gen <= deploys
      BY <1>1 DEF ComposeInv
    <3> QED
      BY <1>1, <3>1
  <2> QED
    BY <2>1
<1> USE DEF ComposeInv, cluster, servers
<1>4. CASE Edit
  BY <1>1, <1>4 DEF Edit
<1>5. CASE Begin
  <2>1. /\ deploys' = deploys + 1 /\ pc' = "up opa"
        /\ UNCHANGED <<platform, wanted, opa, gateway>>
    BY <1>5 DEF Begin
  <2> QED
    BY <1>2, <1>16, <2>1
<1>6. CASE Fail \/ Down
  BY <1>2, <1>6 DEF Fail, Down
<1>7. CASE UpOPA
  <2>1. \A p \in opa' : p \in opa \/ (p.gen = deploys /\ p.rules = file)
    BY <1>7, OPAEffects
  <2>2. /\ pc' = "up gateway"
        /\ UNCHANGED <<platform, file, hash, wanted, gateway, deploys>>
    BY <1>7 DEF UpOPA
  <2>3. \A p \in opa' : /\ p.gen <= deploys
                        /\ p.gen = deploys /\ file = hash => p.rules = hash
    BY <1>1, <2>1
  <2> QED
    BY <1>2, <2>2, <2>3
<1>8. CASE UpGateway
  <2>1. \/ gateway' = gateway /\ \E g \in gateway : g.hash = hash
        \/ \E h : gateway' = {h} /\ h.hash = hash
    BY <1>8, GatewayEffects
  <2>2. /\ \A g, h \in gateway' : g = h
        /\ \A g \in gateway' : g.hash = hash
    BY <2>1
  <2>3. /\ pc' = "done" /\ "done" \notin KindCommand
        /\ UNCHANGED <<platform, file, hash, wanted, opa, deploys>>
    BY <1>2, <1>8 DEF UpGateway
  <2> QED
    BY <2>2, <2>3
<1>9. ~(ApplyConfigMap \/ ApplyOPA \/ ApplyGateway \/ SetEnv \/ RestartOPA
        \/ RestartGateway)
  BY <1>2 DEF ApplyConfigMap, ApplyOPA, ApplyGateway, SetEnv, RestartOPA,
              RestartGateway
<1>10. ~StartOPA /\ ~StartGateway
  BY <1>3 DEF StartOPA, StartGateway
<1>11. ASSUME NEW o \in opa PROVE ~StopOPA(o) /\ ~Sync(o)
  BY <1>3 DEF StopOPA, Sync
<1>12. ASSUME NEW g \in gateway PROVE ~StopGateway(g)
  BY <1>3 DEF StopGateway
<1>13. ASSUME NEW o \in opa, Reload(o) PROVE ComposeInv'
  <2>1. \A p \in opa' : p \in opa \/ (p.gen = o.gen /\ p.rules = file)
    BY <1>13, OPAEffects
  <2>2. UNCHANGED <<platform, file, pc, hash, wanted, gateway, deploys>>
    BY <1>13 DEF Reload
  <2>3. \A p \in opa' : /\ p.gen <= deploys
                        /\ p.gen = deploys /\ file = hash => p.rules = hash
    BY <1>1, <2>1
  <2> QED
    BY <2>2, <2>3
<1>14. ASSUME NEW o \in opa, NEW g \in gateway, Decide(o, g) PROVE ComposeInv'
  BY <1>14 DEF Decide
<1>15. CASE UNCHANGED vars
  BY <1>15 DEF vars
<1> QED
  BY <1>4, <1>5, <1>6, <1>7, <1>8, <1>9, <1>10, <1>11, <1>12, <1>13, <1>14, <1>15
     DEF Next, Script, Controllers

(* In a cluster each command keeps what the ones before it have achieved,   *)
(* and so do the controllers and the kubelet at any time.                   *)
LEMMA DKindStep == DInv /\ [Next]_vars => KindInv'
<1> SUFFICES ASSUME TypeInv, HashInv, KindInv, [Next]_vars, platform = "kind"
             PROVE  KindInv'
  BY PlatformFixed DEF DInv, KindInv
<1>1. /\ \A o \in opa : o.gen \in Nat
      /\ \A g \in gateway : g.gen \in Nat
      /\ wanted.opa \in Nat /\ wanted.gateway \in Nat
      /\ \A o \in opa : o.gen <= wanted.opa
      /\ \A g \in gateway : g.gen <= wanted.gateway
  BY Pods DEF TypeInv, Deployments, KindInv
<1>2. /\ \A o \in opa : o.gen <= wanted.opa + 1 /\ o.gen # wanted.opa + 1
      /\ \A g \in gateway : /\ g.gen <= wanted.gateway + 1
                            /\ g.gen # wanted.gateway + 1
  <2>1. ASSUME NEW n \in Nat, NEW m \in Nat, n <= m PROVE n <= m + 1 /\ n # m + 1
    BY <2>1
  <2> QED
    BY <1>1, <2>1
<1>3. /\ pc \notin ComposeCommand
      /\ "up opa" \in ComposeCommand /\ "up gateway" \in ComposeCommand
      /\ "idle" \notin ComposeCommand /\ "done" \notin ComposeCommand
      /\ "failed" \notin ComposeCommand
      /\ "apply configmap" \notin ComposeCommand /\ "apply opa" \notin ComposeCommand
      /\ "apply gateway" \notin ComposeCommand /\ "set env" \notin ComposeCommand
      /\ "restart opa" \notin ComposeCommand /\ "restart gateway" \notin ComposeCommand
  BY DEF KindInv, ComposeCommand
<1>4. platform # "compose"
  OBVIOUS
<1> USE DEF KindInv, cluster, servers
<1>5. CASE Edit
  <2>1. /\ UNCHANGED <<platform, pc, hash, configMap, wanted, opa, gateway>>
        /\ ~edited' => ~edited
    BY <1>5 DEF Edit
  <2> QED
    BY <2>1 DEF MapApplied, EnvSet, OPARestarted
<1>6. CASE Begin
  <2>1. pc' = "apply configmap" /\ UNCHANGED <<platform, wanted, opa, gateway>>
    BY <1>4, <1>6 DEF Begin
  <2>2. ~MapApplied' /\ ~EnvSet' /\ ~OPARestarted'
    BY <2>1 DEF MapApplied, EnvSet, OPARestarted
  <2> QED
    BY <1>3, <2>1, <2>2
<1>7. CASE Fail
  <2>1. pc' = "failed" /\ UNCHANGED <<platform, wanted, opa, gateway>>
    BY <1>7 DEF Fail
  <2>2. ~MapApplied' /\ ~EnvSet' /\ ~OPARestarted'
    BY <2>1 DEF MapApplied, EnvSet, OPARestarted
  <2> QED
    BY <1>3, <2>1, <2>2
<1>8. CASE ApplyConfigMap
  <2>1. /\ pc = "apply configmap" /\ pc' = "apply opa" /\ configMap' = file
        /\ UNCHANGED <<platform, hash, wanted, opa, gateway, edited>>
    BY <1>8 DEF ApplyConfigMap
  <2>2. ~edited => configMap' = hash
    BY <2>1 DEF HashInv, Running
  <2>3. ~EnvSet' /\ ~OPARestarted'
    BY <2>1 DEF EnvSet, OPARestarted
  <2> QED
    BY <1>3, <2>1, <2>2, <2>3
<1>9. CASE ApplyOPA
  <2>1. /\ pc = "apply opa" /\ pc' = "apply gateway"
        /\ UNCHANGED <<platform, hash, configMap, opa, gateway, edited>>
    BY <1>9 DEF ApplyOPA
  <2>2. MapApplied /\ ~EnvSet' /\ ~OPARestarted'
    BY <2>1 DEF MapApplied, EnvSet, OPARestarted
  <2>3. /\ wanted'.opa = IF wanted.opa = 0 THEN 1 ELSE wanted.opa
        /\ wanted'.gateway = wanted.gateway /\ wanted'.hash = wanted.hash
    BY <1>9, WantedEffects DEF AreWanted
  <2>4. \A o \in opa : o.gen <= wanted'.opa
    BY <1>1, <1>2, <2>3
  <2> QED
    BY <1>3, <2>1, <2>2, <2>3, <2>4
<1>10. CASE ApplyGateway
  <2>1. /\ pc = "apply gateway" /\ pc' = "set env"
        /\ UNCHANGED <<platform, hash, configMap, opa, gateway, edited>>
    BY <1>10 DEF ApplyGateway
  <2>2. MapApplied /\ ~EnvSet' /\ ~OPARestarted'
    BY <2>1 DEF MapApplied, EnvSet, OPARestarted
  <2>3. /\ wanted'.gateway = IF wanted.gateway = 0 THEN wanted.gateway + 1
                             ELSE wanted.gateway
        /\ wanted'.opa = wanted.opa /\ wanted'.hash = wanted.hash
    BY <1>1, <1>10, WantedEffects DEF AreWanted
  <2>4. \A g \in gateway : /\ g.gen <= wanted'.gateway
                           /\ g.gen = wanted'.gateway => g.hash = wanted'.hash
    BY <1>1, <1>2, <2>3
  <2> QED
    BY <1>3, <2>1, <2>2, <2>3, <2>4
<1>11. CASE SetEnv
  <2>1. /\ pc = "set env" /\ pc' = "restart opa"
        /\ UNCHANGED <<platform, hash, configMap, opa, gateway, edited>>
    BY <1>11 DEF SetEnv
  <2>2. MapApplied /\ ~OPARestarted'
    BY <2>1 DEF MapApplied, OPARestarted
  <2>3. /\ wanted'.opa = wanted.opa /\ wanted'.hash = hash
        /\ wanted'.gateway = IF wanted.hash = hash THEN wanted.gateway
                             ELSE wanted.gateway + 1
    BY <1>11, WantedEffects DEF AreWanted
  <2>4. \A g \in gateway : /\ g.gen <= wanted'.gateway
                           /\ g.gen = wanted'.gateway => g.hash = wanted'.hash
    BY <1>1, <1>2, <2>3
  <2> QED
    BY <1>3, <2>1, <2>2, <2>3, <2>4
<1>12. CASE RestartOPA
  <2>1. /\ pc = "restart opa" /\ pc' = "restart gateway"
        /\ UNCHANGED <<platform, hash, configMap, opa, gateway, edited>>
    BY <1>12 DEF RestartOPA
  <2>2. MapApplied /\ EnvSet
    BY <2>1 DEF MapApplied, EnvSet
  <2>3. /\ wanted'.opa = wanted.opa + 1
        /\ wanted'.gateway = wanted.gateway /\ wanted'.hash = wanted.hash
    BY <1>12, WantedEffects DEF AreWanted
  <2> QED
    BY <1>2, <1>3, <2>1, <2>2, <2>3
<1>13. CASE RestartGateway
  <2>1. /\ pc = "restart gateway" /\ pc' = "done"
        /\ UNCHANGED <<platform, hash, configMap, opa, gateway, edited>>
    BY <1>13 DEF RestartGateway
  <2>2. MapApplied /\ EnvSet /\ OPARestarted
    BY <2>1 DEF MapApplied, EnvSet, OPARestarted
  <2>3. /\ wanted'.gateway = wanted.gateway + 1
        /\ wanted'.opa = wanted.opa /\ wanted'.hash = wanted.hash
    BY <1>13, WantedEffects DEF AreWanted
  <2> QED
    BY <1>2, <1>3, <2>1, <2>2, <2>3
<1>14. UNCHANGED pc => UNCHANGED <<OPARestarted, EnvSet, MapApplied>>
  BY DEF MapApplied, EnvSet, OPARestarted
<1>15. OPARestarted => MapApplied
  BY DEF MapApplied, EnvSet
<1>16. CASE StartOPA
  <2>1. UNCHANGED <<platform, pc, hash, configMap, wanted, gateway, edited>>
    BY <1>16 DEF StartOPA
  <2>2. \A p \in opa' : p \in opa
                       \/ (p.gen = wanted.opa /\ p.mount = configMap /\ p.rules = configMap)
    BY <1>16, OPAEffects
  <2>3. \A p \in opa' : p.gen <= wanted.opa
    BY <1>1, <2>2
  <2> QED
    BY <1>14, <1>15, <2>1, <2>2, <2>3
<1>17. CASE StartGateway
  <2>1. UNCHANGED <<platform, pc, hash, configMap, wanted, opa, edited>>
    BY <1>17 DEF StartGateway
  <2>2. \A h \in gateway' : h \in gateway \/ (h.gen = wanted.gateway
                                              /\ h.hash = wanted.hash)
    BY <1>17, GatewayEffects
  <2>3. \A h \in gateway' : h.gen <= wanted.gateway
    BY <1>1, <2>2
  <2> QED
    BY <1>14, <2>1, <2>2, <2>3
<1>18. ASSUME NEW o \in opa, StopOPA(o) PROVE KindInv'
  <2>1. /\ opa' \subseteq opa
        /\ UNCHANGED <<platform, pc, hash, configMap, wanted, gateway, edited>>
    BY <1>18 DEF StopOPA
  <2> QED
    BY <1>14, <2>1
<1>19. ASSUME NEW g \in gateway, StopGateway(g) PROVE KindInv'
  <2>1. /\ gateway' \subseteq gateway
        /\ UNCHANGED <<platform, pc, hash, configMap, wanted, opa, edited>>
    BY <1>19 DEF StopGateway
  <2> QED
    BY <1>14, <2>1
<1>20. ASSUME NEW o \in opa, Sync(o) PROVE KindInv'
  <2>1. UNCHANGED <<platform, pc, hash, configMap, wanted, gateway, edited>>
    BY <1>20 DEF Sync
  <2>2. \A p \in opa' : p \in opa
                       \/ (p.gen = o.gen /\ p.mount = configMap /\ p.rules = o.rules)
    BY <1>20, OPAEffects
  <2> QED
    BY <1>14, <1>15, <2>1, <2>2
<1>21. ASSUME NEW o \in opa, Reload(o) PROVE KindInv'
  <2>1. UNCHANGED <<platform, pc, hash, configMap, wanted, gateway, edited>>
    BY <1>21 DEF Reload
  <2>2. \A p \in opa' : p \in opa
                       \/ (p.gen = o.gen /\ p.mount = o.mount /\ p.rules = o.mount)
    BY <1>4, <1>21, OPAEffects
  <2> QED
    BY <1>14, <2>1, <2>2
<1>22. ASSUME NEW o \in opa, NEW g \in gateway, Decide(o, g) PROVE KindInv'
  <2>1. UNCHANGED <<platform, pc, hash, configMap, wanted, opa, gateway, edited>>
    BY <1>22 DEF Decide
  <2> QED
    BY <1>14, <2>1
<1>23. CASE UNCHANGED vars
  <2>1. UNCHANGED <<platform, pc, hash, configMap, wanted, opa, gateway, edited>>
    BY <1>23 DEF vars
  <2> QED
    BY <1>14, <2>1
<1>24. ~UpOPA /\ ~UpGateway /\ ~Down
  BY <1>3, <1>4 DEF UpOPA, UpGateway, Down
<1> QED
  BY <1>5, <1>6, <1>7, <1>8, <1>9, <1>10, <1>11, <1>12, <1>13, <1>16, <1>17, <1>18,
     <1>19, <1>20, <1>21, <1>22, <1>23, <1>24
     DEF Next, Script, Controllers

-----------------------------------------------------------------------------
(* The invariant is one, of every deploy and of all of them after another.  *)
THEOREM DeployInvariance == Spec => []DInv
<1>1. DInv /\ [Next]_vars => DInv'
  BY DTypeStep, DHashStep, DComposeStep, DKindStep DEF DInv
<1> QED
  BY DInit, <1>1, PTL DEF Spec, SafeSpec

(* A deploy that ran to its end, was rolled out and was not disturbed by an *)
(* edit leaves every gateway with the hash of the rules OPA decides by.     *)
THEOREM CleanDeploy == Spec => []CleanDeployIsVersioned
<1>1. DInv => CleanDeployIsVersioned
  <2> SUFFICES ASSUME DInv, Settled, ~edited,
                      platform = "compose" =>
                        file = hash /\ \A o \in opa : o.gen = deploys,
                      NEW o \in opa, NEW g \in gateway
               PROVE  o.rules = g.hash
    BY DEF CleanDeployIsVersioned, Agree
  <2>1. pc = "done" /\ RolledOut
    BY DEF Settled
  <2>2. CASE platform = "compose"
    BY <2>1, <2>2 DEF DInv, ComposeInv
  <2>3. CASE platform = "kind"
    BY <2>1, <2>3 DEF DInv, KindInv, EnvSet, OPARestarted, RolledOut
  <2> QED
    BY <2>2, <2>3 DEF DInv, TypeInv
<1> QED
  BY <1>1, DeployInvariance, PTL
=============================================================================
