----------------------------- MODULE Dashboard -----------------------------
(***************************************************************************)
(* HomeAssistantDashboard: dashboards of Home Assistant that the operator  *)
(* makes, or takes over in the case of the default one, under the path of  *)
(* the specification, and knows by the ID that it keeps in the status      *)
(* (homeassistantdashboard_controller.go, haclient/dashboard.go).          *)
(*                                                                         *)
(* One worker reconciles the resources one at a time, on cached copies     *)
(* that may lag.  A call to Home Assistant is one step.  Home Assistant    *)
(* makes a dashboard's ID from its path, so here the path is the ID.       *)
(***************************************************************************)
EXTENDS Integers, FiniteSets

CONSTANTS
    Resources,
    Edited,       \* bound: the resource that its users change or delete
    Paths,        \* the paths of named dashboards
    MaxEdits,     \* bound: changes and deletions of resources and of the ConfigMap
    MaxFaults     \* bound: failed calls, crashes, an outage, what users do there

Default == "lovelace"
NoPath == "none"
ASSUME ConstantsAssumption ==
    /\ {Default, NoPath} \cap Paths = {} /\ Paths # {} /\ "user" \notin Resources
    /\ Edited \in Resources /\ MaxEdits \in Nat /\ MaxFaults \in Nat

VARIABLES
    cr, seen, fresh,      \* the resources, their cached copies, which of these are current
    source, sourceSeen,   \* the ConfigMap's value, 0 if there is none; its cached copy
    queue,                \* resources that are due for a reconcile
    boards, down,         \* Home Assistant's dashboards; whether it is gone
    w,                    \* the worker
    disturbed, lost,      \* history: resources whose path was changed or whose dashboard was
                          \* removed; resources with a dashboard whose ID was lost
    edits, faults

object == <<cr, seen, fresh>>
map == <<source, sourceSeen>>
ha == <<boards, down>>
vars == <<object, map, queue, ha, w, disturbed, lost, edits, faults>>

Spend == faults < MaxFaults /\ faults' = faults + 1
Failure == Spend \/ (down /\ UNCHANGED faults)

\* What a resource specifies: value 0 refers to the ConfigMap.
Spec0 == [path : Paths \cup {Default}, title : {0, 1}, value : 0 .. 1]
Values == 0 .. 2
Hash(path, title, value) == [path |-> path, title |-> title, value |-> value]
NoHash == Hash(NoPath, 0, 0)
Copy == [state : {"live", "deleting", "gone"}, fin : BOOLEAN, path : Paths \cup {Default},
         title : {0, 1}, value : 0 .. 1, id : Paths \cup {Default, NoPath},
         hash : [path : Paths \cup {Default, NoPath}, title : {0, 1}, value : Values],
         ready : {"unknown", "yes", "source", "conflict", "missing", "yaml", "failed"}]
Board == [path : Paths \cup {Default}, title : {0, 1}, value : Values, storage : BOOLEAN,
          by : Resources \cup {"user"}]

-----------------------------------------------------------------------------
(* Reconcile.                                                               *)

\* A write without a change makes no version.
Put(r, copy) ==
    /\ cr' = [cr EXCEPT ![r] = copy]
    /\ fresh' = [fresh EXCEPT ![r] = @ /\ copy = cr[r]] /\ UNCHANGED seen

Idle == [pc |-> "Idle", who |-> "none"]
Goto(label) == w' = [w EXCEPT !.pc = label]
Concluded(copy, ready) == [w EXCEPT !.pc = "Status", !.mine = [copy EXCEPT !.ready = ready]]
Conclude(copy, ready) == w' = Concluded(copy, ready)
At(path) == {b \in boards : b.path = path}

\* An update that fails, or is made from a copy that is not current, is an error.
Update(copy) ==
    /\ w' = Idle
    /\ \/ w.valid /\ Put(w.who, copy) /\ UNCHANGED <<queue, faults>>
       \/ /\ IF w.valid THEN Spend ELSE UNCHANGED faults
          /\ queue' = queue \cup {w.who} /\ UNCHANGED object

\* The cached copy decides.  A deleted resource that knows no ID has nothing to remove.
Take(r) ==
    LET copy == seen[r] IN
    /\ w.pc = "Idle" /\ r \in queue /\ copy.state # "gone" /\ queue' = queue \ {r}
    /\ w' = [who |-> r, mine |-> copy, valid |-> fresh[r], value |-> 0,
             pc |-> IF copy.state = "deleting"
                    THEN IF copy.fin /\ copy.id # NoPath THEN "Remove" ELSE "Finalize"
                    ELSE IF copy.fin THEN "Source" ELSE "AddFinalizer"]
    /\ UNCHANGED <<object, map, ha, disturbed, lost, edits, faults>>

AddFinalizer ==
    /\ w.pc = "AddFinalizer" /\ Update([w.mine EXCEPT !.fin = TRUE])
    /\ UNCHANGED <<map, ha, disturbed, lost, edits>>

\* resolveConfig, then the instance and its token.
ResolveConfig ==
    /\ w.pc = "Source"
    /\ LET value == IF w.mine.value = 0 THEN sourceSeen ELSE w.mine.value IN
       \/ value = 0 /\ Conclude(w.mine, "source") /\ UNCHANGED faults
       \/ value # 0 /\ w' = [w EXCEPT !.pc = "List", !.value = value] /\ UNCHANGED faults
       \/ value # 0 /\ Failure /\ Conclude(w.mine, "failed")
    /\ UNCHANGED <<object, map, queue, ha, disturbed, lost, edits>>

\* Mutation of Conflicts: any dashboard is taken over.
ConflictsNever(copy) == FALSE

\* A dashboard at the path is in the way, unless it is the default one.
Conflicts(copy) == copy.id = NoPath /\ copy.path # Default

\* findDashboard: by the ID, if there is one, or else by the path.
Found(copy) == At(IF copy.id = NoPath THEN copy.path ELSE copy.id)
Outdated(copy, board) ==
    copy.hash # Hash(copy.path, copy.title, w.value) \/ board.title # copy.title

\* ListDashboards.
List ==
    /\ w.pc = "List"
    /\ LET copy == w.mine  found == Found(copy) IN
       \/ Failure /\ Conclude(copy, "failed")
       \/ /\ ~down /\ UNCHANGED faults
          /\ \/ found = {} /\ copy.id = NoPath /\ Goto("Create")
             \/ found = {} /\ copy.id # NoPath /\ Conclude(copy, "missing")
             \/ found # {} /\ Conflicts(copy) /\ Conclude(copy, "conflict")
             \/ /\ ~Conflicts(copy)
                /\ \E b \in found :
                      w' = IF ~b.storage THEN Concluded(copy, "yaml")
                           ELSE [w EXCEPT !.pc = IF Outdated(copy, b) THEN "Update" ELSE "Compare",
                                          !.mine = [copy EXCEPT !.id = IF Outdated(copy, b) THEN @ ELSE b.path]]
    /\ UNCHANGED <<object, map, queue, ha, disturbed, lost, edits>>

\* Mutation of Identified: the ID is kept when everything else is done.
IdentifiedLater(copy) == copy

Identified(copy) == [copy EXCEPT !.id = copy.path]

\* CreateDashboard; the answer may be lost.  A path that is taken is refused.
Create ==
    /\ w.pc = "Create"
    /\ \/ /\ ~down /\ At(w.mine.path) = {}
          /\ boards' = boards \cup {[path |-> w.mine.path, title |-> w.mine.title, value |-> 0,
                                     storage |-> TRUE, by |-> w.who]}
          /\ \/ w' = [w EXCEPT !.pc = "Save", !.mine = Identified(@)] /\ UNCHANGED <<lost, faults>>
             \/ Spend /\ Conclude(w.mine, "failed") /\ lost' = lost \cup {w.who}
       \/ /\ Failure \/ (~down /\ At(w.mine.path) # {} /\ UNCHANGED faults)
          /\ Conclude(w.mine, "failed") /\ UNCHANGED <<boards, lost>>
    /\ UNCHANGED <<object, map, queue, down, disturbed, edits>>

\* UpdateDashboard: the title of the dashboard with the ID; a path is never changed.
UpdateBoard ==
    /\ w.pc = "Update"
    /\ LET id == IF w.mine.id = NoPath THEN w.mine.path ELSE w.mine.id IN
       \/ /\ ~down /\ At(id) # {} /\ UNCHANGED faults
          /\ boards' = {IF b.path = id THEN [b EXCEPT !.title = w.mine.title] ELSE b : b \in boards}
          /\ w' = [w EXCEPT !.pc = "Compare", !.mine.id = id]
       \/ /\ Failure \/ (~down /\ At(id) = {} /\ UNCHANGED faults)
          /\ Conclude(w.mine, "failed") /\ UNCHANGED boards
    /\ UNCHANGED <<object, map, queue, down, disturbed, lost, edits>>

\* GetDashboardConfig, of the path of the specification.
Compare ==
    /\ w.pc = "Compare"
    /\ \/ Failure /\ Conclude(w.mine, "failed")
       \/ ~down /\ At(w.mine.path) = {} /\ Conclude(w.mine, "failed") /\ UNCHANGED faults
       \/ /\ ~down /\ UNCHANGED faults
          /\ \E b \in At(w.mine.path) : Goto(IF b.value = w.value THEN "Done" ELSE "Save")
    /\ UNCHANGED <<object, map, queue, ha, disturbed, lost, edits>>

\* SaveDashboardConfig, under that path as well.
Save ==
    /\ w.pc = "Save"
    /\ \/ /\ ~down /\ At(w.mine.path) # {}
          /\ boards' = {IF b.path = w.mine.path THEN [b EXCEPT !.value = w.value] ELSE b : b \in boards}
          /\ \/ Goto("Done") /\ UNCHANGED faults
             \/ Spend /\ Conclude(w.mine, "failed")
       \/ /\ Failure \/ (~down /\ At(w.mine.path) = {} /\ UNCHANGED faults)
          /\ Conclude(w.mine, "failed") /\ UNCHANGED boards
    /\ UNCHANGED <<object, map, queue, down, disturbed, lost, edits>>

\* The dashboard whose ID would be lost with the worker's copy.
Forgotten == IF w.pc # "Idle" /\ w.mine.id \notin {NoPath, cr[w.who].id} THEN {w.who} ELSE {}

\* Success, or what `failed` reports; that is tried again.
Configured(copy) ==
    [copy EXCEPT !.id = IF @ = NoPath THEN copy.path ELSE @, !.ready = "yes",
                 !.hash = Hash(copy.path, copy.title, w.value)]
Report ==
    /\ w.pc \in {"Done", "Status"} /\ w' = Idle
    /\ LET copy == IF w.pc = "Done" THEN Configured(w.mine) ELSE w.mine IN
       \/ /\ w.valid /\ Put(w.who, copy) /\ UNCHANGED <<lost, faults>>
          /\ queue' = IF copy.ready = "yes" THEN queue ELSE queue \cup {w.who}
       \/ /\ IF w.valid THEN Spend ELSE UNCHANGED faults
          /\ queue' = queue \cup {w.who} /\ lost' = lost \cup Forgotten /\ UNCHANGED object
    /\ UNCHANGED <<map, ha, disturbed, edits>>

\* reconcileDeletion, the call; to remove a dashboard that is not there is no failure.
Owners(path) == {r \in Resources : path = cr[r].id \/ (w.who = r /\ path \in {w.mine.id, w.mine.path})}
Remove ==
    /\ w.pc = "Remove"
    /\ \/ /\ ~down /\ boards' = boards \ At(w.mine.id)
          /\ disturbed' = disturbed \cup Owners(w.mine.id)
          /\ \/ Goto("Finalize") /\ UNCHANGED faults
             \/ Spend /\ Conclude(w.mine, "failed")
       \/ Failure /\ Conclude(w.mine, "failed") /\ UNCHANGED <<boards, disturbed>>
    /\ UNCHANGED <<object, map, queue, down, lost, edits>>

Finalize ==
    /\ w.pc = "Finalize" /\ Update([w.mine EXCEPT !.fin = FALSE, !.state = "gone"])
    /\ UNCHANGED <<map, ha, disturbed, lost, edits>>

-----------------------------------------------------------------------------
(* Users, the caches, failures.                                             *)

Touch(r, copy) ==
    /\ edits < MaxEdits /\ edits' = edits + 1 /\ cr[r].state = "live" /\ Put(r, copy)
    /\ w' = IF w.who = r THEN [w EXCEPT !.valid = FALSE] ELSE w
    /\ disturbed' = IF copy.path # cr[r].path THEN disturbed \cup {r} ELSE disturbed
    /\ UNCHANGED <<map, queue, ha, lost, faults>>
Edit(r) ==
    \E s \in Spec0 :
        \/ s.path # cr[r].path /\ Touch(r, [cr[r] EXCEPT !.path = s.path])
        \/ s.title # cr[r].title /\ Touch(r, [cr[r] EXCEPT !.title = s.title])
        \/ s.value # cr[r].value /\ Touch(r, [cr[r] EXCEPT !.value = s.value])
Delete(r) == Touch(r, [cr[r] EXCEPT !.state = IF cr[r].fin THEN "deleting" ELSE "gone"])

EditSource ==
    /\ edits < MaxEdits /\ edits' = edits + 1 /\ source' \in Values \ {source}
    /\ UNCHANGED <<object, sourceSeen, queue, ha, w, disturbed, lost, faults>>

\* A new version of a resource reaches the cache, and queues it.
Observe(r) ==
    /\ ~fresh[r] /\ queue' = queue \cup {r}
    /\ seen' = [seen EXCEPT ![r] = cr[r]] /\ fresh' = [fresh EXCEPT ![r] = TRUE]
    /\ UNCHANGED <<cr, map, ha, w, disturbed, lost, edits, faults>>

\* findDashboardsForChangedConfigMap: what refers to it is queued.
ObserveSource ==
    /\ sourceSeen # source /\ sourceSeen' = source
    /\ queue' = queue \cup {r \in Resources : seen[r].state # "gone" /\ seen[r].value = 0}
    /\ UNCHANGED <<object, source, ha, w, disturbed, lost, edits, faults>>

\* The cache hands out every resource again from time to time.
Resync(r) ==
    /\ cr[r].state # "gone" /\ fresh[r] /\ r \notin queue /\ w = Idle /\ queue' = queue \cup {r}
    /\ UNCHANGED <<object, map, ha, w, disturbed, lost, edits, faults>>

\* A user makes a dashboard, changes one or removes one.
UserActs ==
    /\ ~down /\ Spend
    /\ \/ \E path \in Paths, storage \in BOOLEAN :
              /\ At(path) = {} /\ UNCHANGED disturbed
              /\ boards' = boards \cup {[path |-> path, title |-> 0, value |-> 0,
                                         storage |-> storage, by |-> "user"]}
       \/ \E b \in boards : /\ boards' = boards \ {b} /\ disturbed' = disturbed \cup Owners(b.path)
       \/ \E b \in boards : /\ boards' = (boards \ {b}) \cup {[b EXCEPT !.value = 0]}
                            /\ UNCHANGED disturbed
    /\ UNCHANGED <<object, map, queue, down, w, lost, edits>>

\* For good, or its resource is deleted.
GoDown ==
    /\ ~down /\ Spend /\ down' = TRUE
    /\ UNCHANGED <<object, map, queue, boards, w, disturbed, lost, edits>>

Crash ==
    /\ w.pc # "Idle" /\ Spend /\ w' = Idle /\ lost' = lost \cup Forgotten
    /\ queue' = {r \in Resources : seen[r].state # "gone"}
    /\ UNCHANGED <<object, map, ha, disturbed, edits>>

\* One named dashboard is specified twice, or one and the default one.  That one may be
\* there, and be kept in a file.
New(path, value) ==
    [state |-> "live", fin |-> FALSE, path |-> path, title |-> 0, value |-> value,
     id |-> NoPath, hash |-> NoHash, ready |-> "unknown"]
Init ==
    /\ \E default \in BOOLEAN :
          /\ cr = [r \in Resources |->
                     IF r = Edited THEN New(IF default THEN Default ELSE CHOOSE path \in Paths : TRUE, 0)
                     ELSE New(CHOOSE path \in Paths : TRUE, 1)]
          /\ \E storage \in BOOLEAN :
                boards \in SUBSET {b \in Board : b = [path |-> Default, title |-> 0, value |-> 0,
                                                     storage |-> storage, by |-> "user"] /\ default}
    /\ seen = cr /\ fresh = [r \in Resources |-> TRUE] /\ queue = Resources
    /\ source = 1 /\ sourceSeen = 1
    /\ down = FALSE /\ w = Idle /\ disturbed = {} /\ lost = {} /\ edits = 0 /\ faults = 0

Step == \/ AddFinalizer \/ ResolveConfig \/ List \/ Create \/ UpdateBoard \/ Compare \/ Save \/ Report
        \/ Remove \/ Finalize \/ \E r \in Resources : Take(r)
Next == \/ Step \/ EditSource \/ ObserveSource \/ UserActs \/ GoDown \/ Crash
        \/ Edit(Edited) \/ Delete(Edited) \/ \E r \in Resources : Observe(r) \/ Resync(r)
Spec == Init /\ [][Next]_vars

\* The worker goes on and takes the resources in turn, the caches catch up and hand the
\* resources out again.
FairSpec ==
    /\ Spec /\ WF_vars(Step) /\ WF_vars(ObserveSource)
    /\ \A r \in Resources : SF_vars(Take(r)) /\ WF_vars(Observe(r)) /\ SF_vars(Resync(r))

-----------------------------------------------------------------------------
TypeOK ==
    /\ cr \in [Resources -> Copy] /\ seen \in [Resources -> Copy] /\ fresh \in [Resources -> BOOLEAN]
    /\ {source, sourceSeen} \subseteq Values /\ queue \subseteq Resources /\ boards \subseteq Board
    /\ w.pc # "Idle" => w.who \in Resources /\ w.mine \in Copy /\ w.value \in Values
    /\ disturbed \cup lost \subseteq Resources /\ edits \in 0 .. MaxEdits /\ faults \in 0 .. MaxFaults

\* The operator neither changes nor removes a named dashboard that somebody else made,
\* another resource included, unless the path of the resource was changed or its dashboard
\* was removed before: a removal that is tried again takes what has the path by then.  The
\* default dashboard is taken over.
OthersKept ==
    [][\A b \in boards :
          (Step /\ b.path # Default /\ b \notin boards') => b.by = w.who \/ w.who \in disturbed]_vars

\* In the end a resource is gone and has left no dashboard behind, or has the one it
\* specifies, or says what is in the way.  A deletion ends, but not without Home Assistant.
\* A resource that was disturbed may fail for ever, and may share the dashboard of another
\* one, each of them undoing what the other has done.
Disturbed == \E r \in disturbed : cr[r].state = "live"
InTheWay(r) ==
    LET value == IF cr[r].value = 0 THEN source ELSE cr[r].value IN
    CASE cr[r].ready = "yes" ->
             \E b \in At(cr[r].path) : b.title = cr[r].title /\ b.value = value /\ b.path = cr[r].id
      [] cr[r].ready = "source" -> value = 0
      [] cr[r].ready = "conflict" -> \E b \in At(cr[r].path) : b.by # r \/ r \in lost
      [] cr[r].ready = "yaml" -> \E b \in At(cr[r].path) : ~b.storage
      [] OTHER -> FALSE
Converges ==
    \A r \in Resources : <>[](\/ down
                              \/ cr[r].state = "live" /\ (Disturbed \/ InTheWay(r))
                              \/ cr[r].state = "gone" /\ (r \in lost \/ \A b \in boards : b.by # r))
=============================================================================
