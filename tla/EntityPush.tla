----------------------------- MODULE EntityPush -----------------------------
(***************************************************************************)
(* HomeAssistantAutomation, HomeAssistantScene and HomeAssistantScript:    *)
(* resources pushed to Home Assistant under an ID (Reconcile and           *)
(* reconcile*ViaAPI of the three controllers, and the admission webhook    *)
(* that refuses two resources with one ID).                                *)
(*                                                                         *)
(* One worker of a kind reconciles the resources one at a time, on cached  *)
(* copies that may lag.  Status and finalizer updates need a current copy; *)
(* the patch of the last-applied-id annotation does not, and returns the   *)
(* resource as the API server then has it.  The generation of a resource   *)
(* stands for its content, and for the hash of it.                         *)
(***************************************************************************)
EXTENDS Integers, FiniteSets

CONSTANTS
    Resources, Ids,
    Outages,      \* Home Assistant may go away for good
    Off,          \* bound: the generations in which an automation is switched off
    MaxEdits,     \* bound: generations of a resource
    MaxFaults     \* bound: failures, crashes, admissions without the webhook

ASSUME ConstantsAssumption ==
    /\ Resources \cap Ids = {} /\ "none" \notin Resources \cup Ids /\ Ids # {}
    /\ Outages \in BOOLEAN /\ Off \subseteq Nat
    /\ MaxEdits \in Nat \ {0} /\ MaxFaults \in Nat

VARIABLES
    kind,                \* the kind of the resources
    cr, cached, fresh,   \* the resources, their cached copies, which are current
    ha,                  \* what Home Assistant has under each ID, who wrote it, and whether
                         \* it is switched on
    down,                \* Home Assistant is gone
    pc, cur,             \* the running reconcile's next step and its resource
    mine, valid,         \* its copy, and whether that is current
    pushed,              \* the generation it hashed and the ID it uses
    lost,                \* history: resources with an ID that nobody remembers
    faults

vars == <<kind, cr, cached, fresh, ha, down, pc, cur, mine, valid, pushed, lost, faults>>
object == <<cr, cached, fresh>>
run == <<pc, cur, mine, valid, pushed>>

NoOne == "none"
IsScene == kind = "Scene"
Nothing == [by |-> NoOne, value |-> 0, on |-> TRUE]
NoPush == [value |-> 0, id |-> NoOne]
Copy == [phase : {"absent", "live", "deleting", "gone"}, finalizer : BOOLEAN,
         id : Ids, value : 1 .. MaxEdits, applied : Ids \cup {NoOne},
         hash : 0 .. MaxEdits, observed : 0 .. MaxEdits, ready : BOOLEAN,
         reload : {"none", "ok", "failed", "noToken"}]
Blank == [phase |-> "absent", finalizer |-> FALSE, id |-> CHOOSE i \in Ids : TRUE,
          value |-> 1, applied |-> NoOne, hash |-> 0, observed |-> 0, ready |-> FALSE,
          reload |-> "none"]

Spend == faults < MaxFaults /\ faults' = faults + 1
\* A call to Home Assistant fails.
Failure == Spend \/ (down /\ UNCHANGED faults)

-----------------------------------------------------------------------------
(* The API server and the admission webhook.                                *)

\* findIdentifierCollision, on the cached siblings.
Collides(r, id) ==
    \E s \in Resources \ {r} : cached[s].phase = "live" /\ cached[s].id = id

\* A write without a change makes no new version.
Put(r, copy) ==
    /\ cr' = [cr EXCEPT ![r] = copy]
    /\ fresh' = [fresh EXCEPT ![r] = @ /\ copy = cr[r]]
    /\ UNCHANGED cached
Idle == /\ pc' = "Idle" /\ cur' = NoOne /\ mine' = Blank /\ valid' = FALSE /\ pushed' = NoPush
Goto(label) == pc' = label /\ UNCHANGED <<cur, mine, valid, pushed>>

\* An update of the resource itself passes admission; one of its status does not
\* need to.  A refusal ends the reconcile with an error.
UpdateObject(copy) ==
    /\ Idle
    /\ \/ valid /\ ~Collides(cur, copy.id) /\ Put(cur, copy) /\ UNCHANGED faults
       \/ (~valid \/ Collides(cur, copy.id)) /\ UNCHANGED <<object, faults>>
       \/ Spend /\ UNCHANGED object

\* A failure is reported if the copy is current.
Failed(copy, reload) == [copy EXCEPT !.ready = FALSE, !.reload = reload]
Report(reload) ==
    /\ Idle
    /\ IF valid THEN Put(cur, Failed(mine, reload)) ELSE UNCHANGED object

-----------------------------------------------------------------------------
(* Reconcile.                                                               *)

\* Mutation of Renamed: the annotation is taken for the ID.
NeverRenamed(copy) == FALSE

Renamed(copy) == copy.applied \notin {NoOne, copy.id}

\* Mutation of NeedsPush: only a change is pushed.
NeedsPushIfChanged(copy) == copy.hash # copy.value

\* Every reconcile pushes, so that drift is repaired.
NeedsPush(copy) == TRUE

\* The copy decides; without an API token the failure is reported at once.
Start(r) ==
    LET copy == cached[r] IN
    /\ pc = "Idle" /\ copy.phase \in {"live", "deleting"} /\ cr[r].phase # "gone"
    /\ copy.phase = "deleting" => copy.finalizer
    /\ \/ /\ cur' = r /\ mine' = copy /\ valid' = fresh[r]
          /\ pushed' = [value |-> copy.value, id |-> copy.id]
          /\ pc' = IF copy.phase = "deleting" THEN "Remove"
                   ELSE IF ~copy.finalizer THEN "AddFinalizer"
                   ELSE IF Renamed(copy) THEN "Unrename"
                   ELSE IF NeedsPush(copy) THEN "Push" ELSE "Report"
          /\ UNCHANGED <<object, faults>>
       \/ /\ copy.phase = "live" /\ copy.finalizer /\ Spend /\ Idle
          /\ IF fresh[r] THEN Put(r, Failed(copy, "noToken")) ELSE UNCHANGED object
    /\ UNCHANGED <<ha, down, lost>>

AddFinalizer ==
    /\ pc = "AddFinalizer" /\ UpdateObject([mine EXCEPT !.finalizer = TRUE])
    /\ UNCHANGED <<ha, down, lost>>

\* The entity with the previous ID is deleted, or, when that fails, forgotten.
Unrename ==
    /\ pc = "Unrename" /\ Goto("Push")
    /\ \/ ~down /\ ha' = [ha EXCEPT ![mine.applied] = Nothing] /\ UNCHANGED <<lost, faults>>
       \/ Failure /\ lost' = lost \cup {cur} /\ UNCHANGED ha
    /\ UNCHANGED <<object, down>>

\* The definition is posted; the answer may be lost.  A new entity is switched on, one that
\* there was stays as it is.
Push ==
    /\ pc = "Push"
    /\ \/ /\ ~down /\ ha' = [ha EXCEPT ![mine.id] = [@ EXCEPT !.by = cur, !.value = mine.value]]
          /\ \/ Goto("Annotate") /\ UNCHANGED <<object, lost, faults>>
             \/ Spend /\ Report("failed") /\ lost' = lost \cup {cur}
       \/ Failure /\ Report("failed") /\ UNCHANGED <<ha, lost>>
    /\ UNCHANGED down

\* The patch holds the annotation only if it differs from the copy's.
Annotated == [cr[cur] EXCEPT !.applied = IF mine.applied = mine.id THEN @ ELSE mine.id]

\* An ID that the annotation does not show or no longer shows.
Forgotten == IF Annotated.applied = mine.id /\ cr[cur].applied \in {NoOne, mine.applied, mine.id}
             THEN {} ELSE {cur}

\* An automation is switched off when the copy, which the patch may have renewed, says so.
Settle(copy) == IF kind = "Automation" /\ copy.value \in Off THEN "Disable" ELSE "Report"

\* The annotation is patched, whatever the copy's age, and the copy replaced by
\* the answer.  Only a scene's reconcile fails with the patch.
Annotate ==
    /\ pc = "Annotate"
    /\ \/ /\ ~Collides(cur, cr[cur].id)
          /\ Put(cur, Annotated) /\ mine' = Annotated /\ valid' = TRUE
          /\ pc' = Settle(Annotated) /\ lost' = lost \cup Forgotten
          /\ UNCHANGED <<cur, pushed, faults>>
       \/ /\ IF Collides(cur, cr[cur].id) THEN UNCHANGED faults ELSE Spend
          /\ lost' = lost \cup {cur}
          /\ \/ IsScene /\ Report("failed")
             \/ ~IsScene /\ Goto(Settle(mine)) /\ UNCHANGED object
    /\ UNCHANGED <<ha, down>>

\* Whatever comes of it; nothing switches an automation on.
Disable ==
    /\ pc = "Disable" /\ Goto("Report")
    /\ \/ ~down /\ ha' = [ha EXCEPT ![pushed.id].on = FALSE] /\ UNCHANGED faults
       \/ Failure /\ UNCHANGED ha
    /\ UNCHANGED <<object, down, lost>>

\* ReloadReady turns true with a new hash, for a scene always.
ReloadAfter(copy) == IF IsScene \/ copy.hash # pushed.value THEN "ok" ELSE copy.reload

\* The status records the hash of what was pushed and the copy's generation.
Succeed ==
    /\ pc = "Report" /\ Idle
    /\ \/ /\ valid /\ UNCHANGED faults
          /\ Put(cur, [mine EXCEPT !.hash = pushed.value, !.observed = mine.value, !.ready = TRUE,
                                   !.reload = ReloadAfter(mine)])
       \/ ~valid /\ UNCHANGED <<object, faults>>
       \/ Spend /\ UNCHANGED object
    /\ UNCHANGED <<ha, down, lost>>

AfterRemoval(removed) == "Finalize"

\* Deletion: the entity with the ID of the spec, if Home Assistant lets it.
Remove ==
    /\ pc = "Remove"
    /\ \/ /\ ~down /\ ha' = [ha EXCEPT ![mine.id] = Nothing]
          /\ Goto(AfterRemoval(TRUE)) /\ UNCHANGED <<lost, faults>>
       \/ /\ Failure /\ lost' = lost \cup {cur}
          /\ Goto(AfterRemoval(FALSE)) /\ UNCHANGED ha
    /\ UNCHANGED <<object, down>>

Finalize ==
    /\ pc = "Finalize" /\ UpdateObject([mine EXCEPT !.finalizer = FALSE, !.phase = "gone"])
    /\ UNCHANGED <<ha, down, lost>>

-----------------------------------------------------------------------------
(* Users, the cache, failures.                                              *)

\* A user's change passes admission, or meets no webhook.
Touch(r, copy) ==
    /\ \/ ~Collides(r, copy.id) /\ UNCHANGED faults
       \/ Collides(r, copy.id) /\ Spend     \* failurePolicy=ignore
    /\ Put(r, copy) /\ valid' = (valid /\ cur # r)
    /\ UNCHANGED <<pc, cur, mine, pushed, ha, down, lost>>

Create(r, id) ==
    /\ cr[r].phase = "absent"
    /\ Touch(r, [Blank EXCEPT !.phase = "live", !.id = id])

\* The content changes, or the ID as well.
Edit(r, id) ==
    /\ cr[r].phase = "live" /\ cr[r].value < MaxEdits
    /\ Touch(r, [cr[r] EXCEPT !.value = @ + 1, !.id = id])

Delete(r) ==
    /\ cr[r].phase = "live"
    /\ Put(r, [cr[r] EXCEPT !.phase = IF cr[r].finalizer THEN "deleting" ELSE "gone"])
    /\ valid' = (valid /\ cur # r)
    /\ UNCHANGED <<pc, cur, mine, pushed, ha, down, lost, faults>>

Observe(r) ==
    /\ ~fresh[r]
    /\ cached' = [cached EXCEPT ![r] = cr[r]] /\ fresh' = [fresh EXCEPT ![r] = TRUE]
    /\ UNCHANGED <<cr, run, ha, down, lost, faults>>

\* Somebody edits or deletes the entity in Home Assistant's own editor.
Drift(id) ==
    /\ ~down /\ Spend /\ ha' = [ha EXCEPT ![id] = Nothing]
    /\ UNCHANGED <<object, run, down, lost>>

GoDown ==
    /\ Outages /\ ~down /\ down' = TRUE
    /\ UNCHANGED <<object, run, ha, lost, faults>>

Crash ==
    /\ pc # "Idle" /\ Spend /\ Idle
    /\ lost' = IF pc = "Annotate" THEN lost \cup {cur} ELSE lost
    /\ UNCHANGED <<object, ha, down>>

Init ==
    /\ kind \in {"Scene", "Automation"}     \* a script is like an automation that is on
    /\ cr = [r \in Resources |-> Blank] /\ cached = cr
    /\ fresh = [r \in Resources |-> TRUE]
    /\ ha = [id \in Ids |-> Nothing] /\ down = FALSE
    /\ pc = "Idle" /\ cur = NoOne /\ mine = Blank /\ valid = FALSE /\ pushed = NoPush
    /\ lost = {} /\ faults = 0

Step == AddFinalizer \/ Unrename \/ Push \/ Annotate \/ Disable \/ Succeed \/ Remove \/ Finalize
Environment ==
    \/ Crash \/ GoDown
    \/ \E r \in Resources : Delete(r) \/ \E id \in Ids : Create(r, id) \/ Edit(r, id)
    \/ \E id \in Ids : Drift(id)
Next ==
    /\ kind' = kind
    /\ Step \/ Environment \/ \E r \in Resources : Start(r) \/ Observe(r)

Spec == Init /\ [][Next]_vars

\* The queue serves every resource: failures are queued again, and every change
\* of the HomeAssistant resource queues them all.  The cache catches up.
FairSpec ==
    /\ Spec /\ WF_vars(Step /\ kind' = kind)
    /\ \A r \in Resources : /\ SF_vars(Start(r) /\ fresh[r] /\ kind' = kind)
                           /\ WF_vars(Observe(r) /\ kind' = kind)

-----------------------------------------------------------------------------
Labels == {"Idle", "AddFinalizer", "Unrename", "Push", "Annotate", "Disable", "Report", "Remove",
           "Finalize"}
TypeOK ==
    /\ kind \in {"Scene", "Automation"}
    /\ cr \in [Resources -> Copy] /\ cached \in [Resources -> Copy]
    /\ fresh \in [Resources -> BOOLEAN] /\ \A r \in Resources : fresh[r] => cached[r] = cr[r]
    /\ ha \in [Ids -> [by : Resources \cup {NoOne}, value : 0 .. MaxEdits, on : BOOLEAN]]
    /\ down \in BOOLEAN /\ pc \in Labels /\ cur \in Resources \cup {NoOne}
    /\ mine \in Copy /\ valid \in BOOLEAN /\ pushed \in [value : 0 .. MaxEdits, id : Ids \cup {NoOne}]
    /\ lost \subseteq Resources /\ faults \in 0 .. MaxFaults

Settled(r) == cr[r].phase = "live" /\ cr[r].hash = cr[r].value /\ pc = "Idle"

\* A rename leaves nothing behind: a resource whose last content was pushed has no
\* entity under another ID, unless the old one could not be deleted or its ID was
\* not recorded, or recorded and overwritten by a reconcile with an older copy.
RenamesCleanedUp ==
    \A r \in Resources : Settled(r) /\ r \notin lost =>
        \A id \in Ids \ {cr[r].id} : ha[id].by # r

\* Whatever drifts, fails or is read late, a Home Assistant that stays reachable ends up
\* with the last content of every resource whose ID no other resource has, and with an
\* automation that is to be off switched off (one that is to be on again stays off); a scene's
\* ReloadReady does not keep the reason TokenNotAvailable, which docs/reference/conditions.md
\* calls transient (an automation's does when the content was pushed before).  A deleted
\* resource goes away, even if Home Assistant does not come back.
Pushed(r) ==
    /\ ha[cr[r].id].by = r /\ ha[cr[r].id].value = cr[r].value
    /\ kind = "Automation" /\ cr[r].value \in Off => ~ha[cr[r].id].on
    /\ IsScene => cr[r].reload # "noToken"
Converges ==
    \A r \in Resources : <>[](\/ cr[r].phase \in {"absent", "gone"}
                              \/ cr[r].phase = "live" /\ (down \/ Pushed(r)))
=============================================================================
