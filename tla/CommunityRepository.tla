------------------------- MODULE CommunityRepository -------------------------
(***************************************************************************)
(* Extensions of Home Assistant that are installed from community          *)
(* repositories: how a HomeAssistantCommunityRepository is validated,      *)
(* listed in a ConfigMap that all repositories of an instance share, put   *)
(* in place by scripts in the pod, and removed again                       *)
(* (homeassistantcommunityrepository_controller.go,                        *)
(* community_repository_pod.go).                                           *)
(*                                                                         *)
(* The repositories of a behaviour have one category: integrations, which  *)
(* an init container installs at a restart of the pod, or one that a       *)
(* sidecar installs.  The ConfigMap is read from a cache that may lag.     *)
(* What it lists of the integrations stands for its own hash.              *)
(***************************************************************************)
EXTENDS RepositoryLayout

CONSTANTS
    Repositories,     \* HomeAssistantCommunityRepository resources of one instance
    Used,             \* bound: the categories
    Refs,             \* the refs of the source repository
    Archive,          \* its archive at each ref, for each category
    FirstRefs,        \* bound: the refs to begin with
    Targets,          \* what they resolve to
    MaxEvents         \* bound, for each category: changes and deletions of resources,
                      \* failed calls and downloads, crashes, restarts, timeouts

\* The target of a ref; or why there is none.
Outcome(c, ref) ==
    LET tree == FetchTarball(Archive[c][ref]) IN
    IF tree = NoTree THEN "unreachable" ELSE ValidateAndResolve(tree, c).target

ASSUME ConstantsAssumption ==
    /\ Used \subseteq Categories /\ MaxEvents \in [Used -> Nat]
    /\ FirstRefs \subseteq [Repositories -> Refs]
    /\ {Outcome(c, ref) : c \in Used, ref \in Refs} \subseteq Targets \cup {"unreachable", "invalid"}

VARIABLES
    chosen, found,    \* of the behaviour: the category, what each ref turns out to be
    cr,               \* the resources
    age,              \* how long each has been Installing: 0, 1 settled, 2 too long
    home,             \* the HomeAssistant resource
    cm, cmSeen,       \* the ConfigMap and its cached copy
    template, pod,    \* the StatefulSet's template, its pod
    disk, book,       \* the pod's volume: what is in place, what a script keeps of it
    pc, who, mine, valid,   \* next step, its resource, what it has read, whether that is current
    killed,           \* history: a script was killed in between
    events

setting == <<chosen, found>>
users == <<setting, home>>
map == <<cm, cmSeen>>
run == <<pc, who, mine, valid>>
volume == <<disk, book, killed>>
vars == <<users, cr, age, map, template, pod, volume, run, events>>

Spend == events < MaxEvents[chosen] /\ events' = events + 1

\* An entry of repositories.json under its key: whose it is, and the ref.
None == <<>>
Nobody == [t \in Targets |-> None]
Entry(r, ref) == <<r, ref>>
Restarts == chosen = "integration"
\* calculateIntegrationRepositoryHash.
Hash(entries) == IF Restarts THEN entries ELSE Nobody

-----------------------------------------------------------------------------
(* The resource.                                                            *)

Unread == [ref |-> 0, target |-> "", old |-> "", entries |-> Nobody]
Idle == pc' = "Idle" /\ who' = "none" /\ mine' = Unread /\ valid' = FALSE
Takes(r, label, copy) == pc' = label /\ who' = r /\ mine' = copy /\ valid' = TRUE

\* setPhase: any phase but Installing forgets since when.  "Retry" is Failed for a reason
\* that may pass.
SetPhase(r, phase) ==
    /\ cr' = [cr EXCEPT ![r].phase = phase, ![r].seen = TRUE]
    /\ age' = [age EXCEPT ![r] = IF phase = "Installing" THEN @ ELSE 0]

Present(r) == cr[r].state \in {"live", "deleting"}
Serves(r) == pc = "Idle" /\ cr[r].state = "live"
Works(r) == Serves(r) /\ cr[r].fin /\ home # "gone"

\* Without a finalizer there is nothing else to do; without HomeAssistant, neither.
Prepare(r) ==
    /\ Serves(r)
    /\ \/ ~cr[r].fin /\ cr' = [cr EXCEPT ![r].fin = TRUE] /\ UNCHANGED age
       \/ cr[r].fin /\ home = "gone" /\ SetPhase(r, "Pending")
    /\ UNCHANGED <<users, map, template, pod, volume, run, events>>

\* Reconcile: which phase leads to reconcileValidating.
Revalidates(r) ==
    \/ cr[r].phase \in {"", "Pending", "Validating", "Retry"}
    \/ cr[r].phase \in {"Installed", "Failed"} /\ ~cr[r].seen

\* Mutation of Occupies: a target is taken when it is installed only.
OccupiesWhenInstalled(phase) == phase = "Installed"

Occupies(phase) == phase \in {"Installing", "Installed"}

\* findConflictingOwner.
Conflicts(r, target) ==
    \E q \in Repositories \ {r} :
        cr[q].state = "live" /\ Occupies(cr[q].phase) /\ cr[q].target = target

\* reconcileValidating, up to the target in the status.  The phase is shown first.
Validate(r) ==
    /\ Works(r) /\ Revalidates(r)
    /\ LET ref == cr[r].ref
           target == found[ref] IN
       \/ /\ cr[r].phase # "Validating" /\ SetPhase(r, "Validating") /\ UNCHANGED <<run, events>>
       \/ /\ cr[r].phase = "Validating" /\ SetPhase(r, "Retry") /\ UNCHANGED run
          /\ \/ target = "unreachable" /\ UNCHANGED events
             \/ Spend
       \/ /\ cr[r].phase = "Validating" /\ target = "invalid" /\ SetPhase(r, "Failed") /\ UNCHANGED <<run, events>>
       \/ /\ cr[r].phase = "Validating" /\ target \in Targets /\ Conflicts(r, target)
          /\ SetPhase(r, "Retry") /\ UNCHANGED <<run, events>>
       \/ /\ cr[r].phase = "Validating" /\ target \in Targets /\ ~Conflicts(r, target)
          /\ cr' = [cr EXCEPT ![r].target = target]
          /\ Takes(r, "Upsert", [ref |-> ref, target |-> target, old |-> cr[r].target,
                                 entries |-> Nobody])
          /\ UNCHANGED <<age, events>>
    /\ UNCHANGED <<users, map, template, pod, volume>>

\* writeConfigMap: made from the cached copy, and not at all if that needs no change.
Writes(entries) ==
    \/ cmSeen.made /\ cmSeen.entries = entries /\ UNCHANGED map
    \/ ~(cmSeen.made /\ cmSeen.entries = entries) /\ cmSeen = cm
       /\ cm' = [made |-> TRUE, entries |-> entries] /\ UNCHANGED cmSeen
Refused(entries) == cmSeen # cm /\ ~(cmSeen.made /\ cmSeen.entries = entries)

\* upsertConfigMapEntry: an old target's entry goes.
Upsert ==
    /\ pc = "Upsert"
    /\ LET kept == IF mine.old = "" THEN cmSeen.entries
                   ELSE [cmSeen.entries EXCEPT ![mine.old] = None]
           entries == [kept EXCEPT ![mine.target] = Entry(who, mine.ref)] IN
       \/ Writes(entries) /\ pc' = "Phase" /\ UNCHANGED <<who, mine, valid, events>>
       \/ Refused(entries) /\ Idle /\ UNCHANGED <<map, events>>
       \/ Spend /\ Idle /\ UNCHANGED map
    /\ UNCHANGED <<users, cr, age, template, pod, volume>>

Install ==
    /\ pc = "Phase" /\ Idle
    /\ IF valid THEN SetPhase(who, "Installing") ELSE UNCHANGED <<cr, age>>
    /\ UNCHANGED <<users, map, template, pod, volume, events>>

\* bumpStatefulSetHash.
Bump(entries) ==
    template' = IF template.made THEN [template EXCEPT !.hash = Hash(entries)] ELSE template

\* Mutation of Confirmed: whatever the pod was made for.
ConfirmedByAnyPod(entries) == pod.made /\ pod.init = "done"

\* integrationMaterializationConfirmed, but for Home Assistant being ready.
Confirmed(entries) == pod.made /\ pod.template.hash = Hash(entries) /\ pod.init = "done"

\* reconcileInstalling of an integration.
Materialize(r) ==
    /\ Works(r) /\ cr[r].phase = "Installing" /\ Restarts
    /\ \/ /\ Bump(cmSeen.entries) /\ UNCHANGED events
          /\ SetPhase(r, IF Confirmed(cmSeen.entries) /\ pod.ready THEN "Installed" ELSE "Installing")
       \/ Spend /\ UNCHANGED <<cr, age, template>>
    /\ UNCHANGED <<users, map, pod, volume, run>>

\* reconcileInstalling of the others: Home Assistant's answer says nothing of the files.
Activate(r) ==
    /\ Works(r) /\ cr[r].phase = "Installing" /\ ~Restarts
    /\ \/ age[r] = 2 /\ SetPhase(r, "Failed")
       \/ age[r] = 1 /\ pod.made /\ pod.ready /\ SetPhase(r, "Installed")
    /\ UNCHANGED <<users, map, template, pod, volume, run, events>>

\* Time passes, the retries included: that takes failures.
Age(r) ==
    /\ cr[r].phase = "Installing" /\ ~Restarts /\ age' = [age EXCEPT ![r] = @ + 1]
    /\ \/ age[r] = 0 /\ UNCHANGED events
       \/ age[r] = 1 /\ Spend
    /\ UNCHANGED <<users, cr, map, template, pod, volume, run>>

\* handleDeletion: the entry of the last target goes, whoever's it is.
Gone(r) == cr' = [cr EXCEPT ![r].state = "gone", ![r].phase = "", ![r].target = ""]
           /\ age' = [age EXCEPT ![r] = 0]
HandleDeletion(r) ==
    /\ pc = "Idle" /\ cr[r].state = "deleting"
    /\ \/ /\ cr[r].target = "" \/ home = "gone"
          /\ Gone(r) /\ UNCHANGED <<map, run, events>>
       \/ /\ cr[r].target # "" /\ home # "gone" /\ UNCHANGED <<cr, age>>
          /\ LET entries == [cmSeen.entries EXCEPT ![cr[r].target] = None] IN
             \/ Writes(entries) /\ UNCHANGED events
                /\ Takes(r, "Release", [Unread EXCEPT !.entries = entries])
             \/ Spend /\ UNCHANGED <<map, run>>
    /\ UNCHANGED <<users, template, pod, volume>>

\* Mutation of Released: Home Assistant has to be ready.
ReleasedWhenReady(entries) == Confirmed(entries) /\ pod.ready

\* Mutation of Released: nobody waits for the files to be removed.
ReleasedAtOnce(entries) == TRUE

\* Removed files are enough; so is a StatefulSet that goes with its HomeAssistant.
Released(entries) ==
    IF template.made THEN Confirmed(entries) ELSE home # "live"

Release ==
    /\ pc = "Release" /\ Idle
    /\ \/ /\ IF Restarts THEN Bump(mine.entries) ELSE UNCHANGED template
          /\ IF valid /\ (Restarts => Released(mine.entries)) THEN Gone(who)
             ELSE UNCHANGED <<cr, age>>
          /\ UNCHANGED events
       \/ Spend /\ UNCHANGED <<cr, age, template>>
    /\ UNCHANGED <<users, map, pod, volume>>

-----------------------------------------------------------------------------
(* HomeAssistant's controller, the pod and its scripts.                     *)

\* hasCommunityRepositories.
HasRepositories == \E r \in Repositories : Present(r)

\* buildStatefulSet: the scripts while there are repositories, the hash of what is
\* listed; it fails when nothing was ever listed.
Build ==
    /\ home = "live" /\ (HasRepositories => cmSeen.made)
    /\ template' = [made |-> TRUE, scripts |-> HasRepositories,
                    hash |-> IF HasRepositories THEN Hash(cmSeen.entries) ELSE template.hash]
    /\ UNCHANGED <<users, cr, age, map, pod, volume, run, events>>

\* The pod is replaced when the template changes, stuck or not, or on its own.
Roll ==
    /\ template.made
    /\ \/ (pod.made => pod.template # template) /\ UNCHANGED events
       \/ pod.made /\ Spend
    /\ pod' = [made |-> TRUE, template |-> template, ready |-> FALSE,
               init |-> IF template.scripts THEN "run" ELSE "done"]
    /\ UNCHANGED <<users, cr, age, map, template, volume, run>>

\* Home Assistant starts, if nothing is wrong with it.
Ready ==
    /\ pod.made /\ pod.init = "done" /\ ~pod.ready /\ pod' = [pod EXCEPT !.ready = TRUE]
    /\ UNCHANGED <<users, cr, age, map, template, volume, run, events>>

\* fetch_and_place for some entries, after load_entries.
Placed(entries, some) == [t \in Targets |-> IF t \in some THEN entries[t] ELSE disk[t]]
Owned == [t \in Targets |-> IF Restarts THEN book[t] # None ELSE FALSE]

\* communityRepositoryInitScript.  Its list must have the hash that the pod was made for;
\* what is owned and not listed goes when all else went well; a failure is retried, and a
\* target that integration_paths refuses fails each time.
InitScript ==
    /\ pod.made /\ pod.init # "done"
    /\ LET entries == Hash(cm.entries)
           listed == {t \in Targets : entries[t] # None}
           refused == {t \in listed : Unsafe(chosen, t)}
           own(some) == [t \in Targets |-> IF t \in some THEN <<"owned">> ELSE book[t]] IN
       \/ /\ cm.made /\ pod.template.hash = entries /\ refused = {}
          /\ disk' = [t \in Targets |-> IF t \in listed THEN entries[t]
                                       ELSE IF Owned[t] THEN None ELSE disk[t]]
          /\ book' = [t \in Targets |-> IF Restarts THEN IF t \in listed THEN <<"owned">> ELSE None
                                       ELSE book[t]]
          /\ pod' = [pod EXCEPT !.init = "done"] /\ UNCHANGED <<killed, events>>
       \/ /\ ~(cm.made /\ pod.template.hash = entries) /\ pod' = [pod EXCEPT !.init = "failed"]
          /\ UNCHANGED <<volume, events>>
       \/ /\ cm.made /\ pod.template.hash = entries
          /\ \E some \in SUBSET (listed \ refused) :
                /\ disk' = Placed(entries, some)
                /\ \/ refused # {} /\ some = listed \ refused /\ UNCHANGED events
                   \/ Spend
                /\ \/ book' = own(some) /\ pod' = [pod EXCEPT !.init = "failed"] /\ UNCHANGED killed
                   \/ Spend /\ killed' = TRUE /\ UNCHANGED <<book, pod>>
    /\ UNCHANGED <<users, cr, age, map, template, run>>

\* communityRepositorySidecarScript, sync_once: what it knows and is not listed goes, what
\* is listed and has another ref is downloaded again.
Sidecar ==
    /\ ~Restarts /\ pod.made /\ pod.template.scripts /\ pod.init = "done"
    /\ LET old == {t \in Targets : cm.entries[t] # None /\ (book[t] # None => book[t][2] # cm.entries[t][2])}
           gone == {t \in Targets : cm.entries[t] = None /\ book[t] # None} IN
       \E some \in {old, {}} :
          /\ IF some = old THEN UNCHANGED events ELSE Spend
          /\ LET now(was) == [t \in Targets |-> IF t \in gone THEN None
                                  ELSE IF t \in some THEN cm.entries[t] ELSE was[t]] IN
             disk' = now(disk) /\ book' = now(book)
    /\ UNCHANGED <<users, cr, age, map, template, pod, run, killed>>

-----------------------------------------------------------------------------
(* Users, the cache, failures.                                              *)

Edit(r) ==
    /\ Present(r) /\ Spend
    /\ \/ \E ref \in Refs \ {cr[r].ref} : cr' = [cr EXCEPT ![r].ref = ref, ![r].seen = FALSE]
       \/ cr[r].state = "live"
          /\ cr' = [cr EXCEPT ![r].state = IF cr[r].fin THEN "deleting" ELSE "gone"]
    /\ valid' = (valid /\ who # r)
    /\ UNCHANGED <<setting, home, age, map, template, pod, volume, pc, who, mine>>

\* HomeAssistant is deleted, and with it what it owns.
Leave ==
    /\ home # "gone" /\ home' = (IF home = "live" THEN "deleting" ELSE "gone")
    /\ template' = [template EXCEPT !.made = FALSE] /\ pod' = [pod EXCEPT !.made = FALSE, !.ready = FALSE]
    /\ IF home = "live" THEN Spend /\ UNCHANGED map
       ELSE cm' = [made |-> FALSE, entries |-> Nobody] /\ UNCHANGED <<cmSeen, events>>
    /\ UNCHANGED <<setting, cr, age, volume, run>>

ObserveMap ==
    /\ cmSeen # cm /\ cmSeen' = cm
    /\ UNCHANGED <<users, cr, age, cm, template, pod, volume, run, events>>

Crash ==
    /\ pc # "Idle" /\ Spend /\ Idle /\ UNCHANGED <<users, cr, age, map, template, pod, volume>>

NoTemplate == [made |-> FALSE, scripts |-> FALSE, hash |-> Nobody]
Init ==
    /\ chosen \in Used /\ found = [ref \in Refs |-> Outcome(chosen, ref)]
    /\ \E refs \in FirstRefs :
           cr = [r \in Repositories |-> [state |-> "live", fin |-> FALSE, ref |-> refs[r],
                                        seen |-> FALSE, phase |-> "", target |-> ""]]
    /\ age = [r \in Repositories |-> 0] /\ home = "live"
    /\ cm = [made |-> FALSE, entries |-> Nobody] /\ cmSeen = cm
    /\ template = NoTemplate
    /\ pod = [made |-> FALSE, template |-> NoTemplate, ready |-> FALSE, init |-> "run"]
    /\ disk = Nobody /\ book = Nobody /\ killed = FALSE
    /\ pc = "Idle" /\ who = "none" /\ mine = Unread /\ valid = FALSE
    /\ events = 0

Reconcile(r) == Prepare(r) \/ Validate(r) \/ Materialize(r) \/ Activate(r) \/ HandleDeletion(r)
Step == Upsert \/ Install \/ Release
Cluster == Build \/ Roll \/ Ready \/ InitScript \/ Sidecar
Next ==
    \/ \E r \in Repositories : Reconcile(r) \/ Age(r) \/ Edit(r)
    \/ Step \/ Cluster \/ Leave \/ ObserveMap \/ Crash

Spec == Init /\ [][Next]_vars

\* Each resource is served again after failures, events and intervals; caches catch up;
\* time passes, StatefulSets get their pods and containers are started again.  Whether
\* Home Assistant becomes ready is not up to the operator.
FairSpec ==
    /\ Spec /\ WF_vars(Step) /\ WF_vars(ObserveMap) /\ WF_vars(Build) /\ WF_vars(Roll)
    /\ WF_vars(InitScript) /\ WF_vars(Sidecar)
    /\ \A r \in Repositories : SF_vars(Reconcile(r) /\ cmSeen = cm) /\ WF_vars(Age(r))

-----------------------------------------------------------------------------
Entries == {None} \cup (Repositories \X Refs)
Phases == {"", "Pending", "Validating", "Retry", "Failed", "Installing", "Installed"}
Maps == [made : BOOLEAN, entries : [Targets -> Entries]]
Templates == [made : BOOLEAN, scripts : BOOLEAN, hash : [Targets -> Entries]]
TypeOK ==
    /\ chosen \in Used /\ home \in {"live", "deleting", "gone"}
    /\ cr \in [Repositories -> [state : {"live", "deleting", "gone"}, fin : BOOLEAN, ref : Refs,
                                seen : BOOLEAN, phase : Phases, target : Targets \cup {""}]]
    /\ age \in [Repositories -> 0 .. 2] /\ {cm, cmSeen} \subseteq Maps /\ template \in Templates
    /\ pod.template \in Templates /\ pod.init \in {"run", "failed", "done"}
    /\ {pod.made, pod.ready, valid, killed} \subseteq BOOLEAN
    /\ disk \in [Targets -> Entries]
    /\ book \in [Targets -> IF Restarts THEN {None, <<"owned">>} ELSE Entries]
    /\ pc \in {"Idle", "Upsert", "Phase", "Release"} /\ who \in Repositories \cup {"none"}
    /\ events \in 0 .. MaxEvents[chosen]

\* No two resources are being installed, or installed, as the same target, whatever is
\* edited, fails and is retried; where the cache shows the resources as they are.
OneOwner ==
    \A q, r \in Repositories :
        /\ q # r /\ cr[q].state = "live" /\ cr[r].state = "live"
        /\ Occupies(cr[q].phase) /\ Occupies(cr[r].phase)
        => cr[q].target # cr[r].target

\* When an integration is called installed, a script has put in place all that was listed
\* when the operator looked, each at its ref; no older pod, and no older run of the script,
\* is taken for it.
MaterializedWhenInstalled ==
    [][\A r \in Repositories :
          Restarts /\ cr[r].phase = "Installing" /\ cr'[r].phase = "Installed"
          => \A t \in Targets : cmSeen.entries[t] \in {None, disk[t]}]_vars

\* When the resource of an integration is let go, its files are not there any more,
\* unless a script was killed before it could note what it had put in place.
NothingLeftBehind ==
    [][\A r \in Repositories :
          /\ Restarts /\ home = "live" /\ template.made /\ ~killed
          /\ cr[r].state = "deleting" /\ cr'[r].state = "gone" /\ cr[r].target # ""
          => disk[cr[r].target] = None]_vars

\* Every deletion is completed, even if Home Assistant never becomes ready, but for a script
\* that fails on the target of another resource; and no resource stays in the middle of an
\* installation, unless Home Assistant does not become ready.
Converges ==
    \A r \in Repositories :
        /\ \/ <>[](cr[r].state # "deleting")
           \/ []<>(\E q \in Repositories \ {r} : Unsafe(chosen, cr[q].target))
        /\ []<>(\/ cr[r].state = "gone" \/ cr[r].phase \in {"Pending", "Retry", "Failed", "Installed"}
               \/ ~pod.ready)
=============================================================================
