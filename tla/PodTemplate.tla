----------------------------- MODULE PodTemplate -----------------------------
(***************************************************************************)
(* The pod template of Home Assistant's StatefulSet, which two controllers *)
(* write: reconcileStatefulSet in homeassistant_controller.go, which also  *)
(* takes over the hash that the ConfigMap announces (see ConfigReload),    *)
(* and homeassistantsecrets_controller.go, which annotates the template    *)
(* with the hash of the secrets.yaml it generated.                         *)
(*                                                                         *)
(* Each controller has one worker, reads the StatefulSet from a cache that *)
(* may lag, and is refused an update made from a copy that is not current. *)
(* A content stands for its own hash.                                      *)
(***************************************************************************)
EXTENDS Integers

CONSTANTS
    MaxEdits,     \* bound: changes made by users
    MaxFaults     \* bound: failed calls, restarts of the operator and the pod

ASSUME ConstantsAssumption == MaxEdits \in Nat /\ MaxFaults \in Nat

Values == {0, 1}
NoHash == -1
Hashes == Values \cup {NoHash}

VARIABLES
    sts, stsSeen, stsFresh,       \* the StatefulSet, its cached copy, which is current
    mark, image, source,          \* wanted: the hash announced, the secrets, the rest
    generated,                    \* secrets.yaml
    pod,                          \* the template and the secrets.yaml the pod started with
    hpc, want, recent,            \* HomeAssistant: next step, the rest it read, debouncing
    spc, hash,                    \* Secrets: next step, hash of what it generated
    early,                        \* history: a pod started before its secrets' hash was set
    edits, faults

stsVars == <<sts, stsSeen, stsFresh>>
users == <<mark, image, source, edits>>
hRun == <<hpc, want, recent>>
sRun == <<generated, spc, hash>>
kubelet == <<pod, early>>
vars == <<stsVars, users, kubelet, hRun, sRun, faults>>

Spend == faults < MaxFaults /\ faults' = faults + 1

Put(set) == sts' = set /\ stsFresh' = (stsFresh /\ set = sts) /\ UNCHANGED stsSeen

\* Mutation of Current: an update is made from any copy.
AnyCopy(fresh) == TRUE

\* The API server takes an update made from the current version only.
Current(fresh) == fresh

-----------------------------------------------------------------------------
(* HomeAssistant: reconcileStatefulSet.                                     *)

\* syncConfigHashFromConfigMap: the hash in the ConfigMap, unless one was taken over
\* less than two seconds ago.
Synced(set) ==
    IF mark \in {NoHash, set.conf} \/ recent THEN set ELSE [set EXCEPT !.conf = mark]
SyncTime(set) == recent' = (recent \/ Synced(set) # set)

\* Mutation of Built: the annotations of others are not kept.
BuiltAfresh(set, rest) == [set EXCEPT !.rest = rest, !.secrets = NoHash]

\* buildStatefulSet: the template's annotations are kept, the rest is as wanted.
Built(set, rest) == [set EXCEPT !.rest = rest]

\* Mutation of NeedsUpdate: only the configuration's hash is compared.
NeedsUpdateForHash(set, desired) == set.conf # desired.conf

NeedsUpdate(set, desired) == set # desired

Create ==
    /\ hpc = "Idle" /\ ~stsSeen.made
    /\ LET new == [Built(stsSeen, image) EXCEPT !.made = TRUE] IN
       /\ SyncTime(new)
       /\ \/ ~sts.made /\ Put(Synced(new)) /\ UNCHANGED faults
          \/ sts.made /\ UNCHANGED <<stsVars, faults>>
          \/ Spend /\ UNCHANGED stsVars
    /\ UNCHANGED <<hpc, want, users, kubelet, sRun>>

Compare ==
    /\ hpc = "Idle" /\ stsSeen.made
    /\ LET desired == Built(stsSeen, image) IN
       /\ SyncTime(desired)
       /\ IF NeedsUpdate(stsSeen, Synced(desired)) THEN hpc' = "Update" /\ want' = image
          ELSE UNCHANGED <<hpc, want>>
    /\ UNCHANGED <<stsVars, users, kubelet, sRun, faults>>

Done == hpc' = "Idle" /\ want' = 0

\* The update is built again for every try; after three conflicts it is given up.
Update ==
    /\ hpc = "Update" /\ SyncTime(Built(stsSeen, want))
    /\ \/ /\ Current(stsFresh) /\ Put(Synced(Built(stsSeen, want)))
          /\ Done /\ UNCHANGED faults
       \/ ~stsFresh /\ (Done \/ UNCHANGED <<hpc, want>>) /\ UNCHANGED <<stsVars, faults>>
       \/ Spend /\ Done /\ UNCHANGED stsVars
    /\ UNCHANGED <<users, kubelet, sRun>>

\* Two seconds pass.
Expire ==
    /\ recent /\ recent' = FALSE
    /\ UNCHANGED <<stsVars, users, kubelet, hpc, want, sRun, faults>>

-----------------------------------------------------------------------------
(* HomeAssistantSecrets: Reconcile, with autoRestart as by default.         *)

\* collectSecrets, generateSecretsYaml and reconcileGeneratedSecret.
Generate ==
    /\ spc = "Idle"
    /\ \/ generated' = source /\ hash' = source /\ spc' = "Annotate" /\ UNCHANGED faults
       \/ Spend /\ UNCHANGED sRun
    /\ UNCHANGED <<stsVars, users, kubelet, hRun>>

\* Mutation of NeedsAnnotation: the annotation is made once.
NeedsFirstAnnotation(set) == set.made /\ set.secrets = NoHash

NeedsAnnotation(set) == set.made /\ set.secrets # hash

\* updateStatefulSetAnnotation: a failure is only logged, and the status updated.
Annotate ==
    /\ spc = "Annotate" /\ spc' = "Idle" /\ hash' = NoHash
    /\ \/ ~NeedsAnnotation(stsSeen) /\ UNCHANGED <<stsVars, faults>>
       \/ /\ NeedsAnnotation(stsSeen) /\ Current(stsFresh)
          /\ Put([stsSeen EXCEPT !.secrets = hash]) /\ UNCHANGED faults
       \/ NeedsAnnotation(stsSeen) /\ ~stsFresh /\ UNCHANGED <<stsVars, faults>>
       \/ NeedsAnnotation(stsSeen) /\ Spend /\ UNCHANGED stsVars
    /\ UNCHANGED <<generated, users, kubelet, hRun>>

-----------------------------------------------------------------------------
(* Users, the cluster, the cache.                                           *)

Edit ==
    /\ edits < MaxEdits /\ edits' = edits + 1
    /\ \/ mark' \in Values \ {mark} /\ UNCHANGED <<image, source>>
       \/ image' = 1 - image /\ UNCHANGED <<mark, source>>
       \/ source' = 1 - source /\ UNCHANGED <<mark, image>>
    /\ UNCHANGED <<stsVars, kubelet, hRun, sRun, faults>>

\* The pod is replaced when the template changes, or on its own; the secrets.yaml it
\* mounts (as a subPath) stays as it is then.
Roll ==
    /\ sts.made /\ generated # NoHash
    /\ \/ pod.template # sts /\ UNCHANGED faults
       \/ pod.template = sts /\ Spend
    /\ pod' = [template |-> sts, secrets |-> generated]
    /\ early' = (early \/ sts.secrets # generated)
    /\ UNCHANGED <<stsVars, users, hRun, sRun>>

Observe ==
    /\ ~stsFresh /\ stsSeen' = sts /\ stsFresh' = TRUE
    /\ UNCHANGED <<sts, users, kubelet, hRun, sRun, faults>>

\* The operator restarts, and forgets the debounce window.
Crash ==
    /\ Spend /\ Done /\ recent' = FALSE /\ spc' = "Idle" /\ hash' = NoHash
    /\ UNCHANGED <<stsVars, users, kubelet, generated>>

NoSet == [made |-> FALSE, conf |-> NoHash, secrets |-> NoHash, rest |-> 0]
Init ==
    /\ sts = NoSet /\ stsSeen = sts /\ stsFresh = TRUE
    /\ mark = NoHash /\ image = 0 /\ source = 0 /\ generated = NoHash
    /\ pod = [template |-> NoSet, secrets |-> NoHash] /\ early = FALSE
    /\ hpc = "Idle" /\ want = 0 /\ recent = FALSE /\ spc = "Idle" /\ hash = NoHash
    /\ edits = 0 /\ faults = 0

Next ==
    \/ Create \/ Compare \/ Update \/ Expire \/ Generate \/ Annotate
    \/ Edit \/ Roll \/ Observe \/ Crash

Spec == Init /\ [][Next]_vars

\* Both queues serve their resource again after failures, events and resyncs, the
\* cache catches up, time passes and the cluster replaces the pod.
FairSpec ==
    /\ Spec /\ WF_vars(Update) /\ WF_vars(Annotate) /\ WF_vars(Expire) /\ WF_vars(Observe)
    /\ SF_vars((Create \/ Compare) /\ stsFresh) /\ SF_vars(Generate /\ stsFresh)
    /\ WF_vars(Roll)

-----------------------------------------------------------------------------
Sets == [made : BOOLEAN, conf : Hashes, secrets : Hashes, rest : Values]
TypeOK ==
    /\ {sts, stsSeen} \subseteq Sets /\ (stsFresh => stsSeen = sts)
    /\ {stsFresh, recent, early} \subseteq BOOLEAN
    /\ {mark, generated, hash} \subseteq Hashes /\ {image, source, want} \subseteq Values
    /\ pod \in [template : Sets, secrets : Hashes]
    /\ hpc \in {"Idle", "Update"} /\ spc \in {"Idle", "Annotate"}
    /\ edits \in 0 .. MaxEdits /\ faults \in 0 .. MaxFaults

\* No controller takes back what the other wrote into the template in the meantime.
HashesKept ==
    [][sts'.secrets # sts.secrets =>
          sts' = [sts EXCEPT !.secrets = hash] /\ spc = "Annotate"]_vars

\* The secrets reach the pod, although no failure to annotate the template is
\* reported or retried, unless a pod started between the two writes of a reconcile:
\* if the secrets then change back, the template has their hash and nothing restarts.
SecretsReachPod ==
    <>[](sts.secrets = source /\ generated = source /\ (early \/ pod.secrets = source))

\* The rest of the HomeAssistant resource reaches the pod.
RestReachesPod == <>[](pod.template.rest = image)

\* The two controllers do not update the template, and restart the pod, forever.
RolloutsEnd == <>[][sts' = sts]_vars

\* docs/development/architecture.md: each controller's hash is written "into a pod
\* template annotation on the StatefulSet.  Kubernetes detects the annotation change
\* as a pod template mutation and performs a rolling restart".
RestartsReachTemplate == <>[](mark = NoHash \/ sts.conf = mark)
=============================================================================
