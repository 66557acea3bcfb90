---------------------------- MODULE Integration ----------------------------
(***************************************************************************)
(* HomeAssistantIntegration resources and the config entries they stand    *)
(* for (Reconcile, handleDeletion, handleCreateEntry, uploadFiles and the  *)
(* status setters of homeassistantintegration_controller.go).              *)
(*                                                                         *)
(* One worker reconciles the resources one at a time.  It works on the     *)
(* copy in its cache, which may lag behind the API server; an update made  *)
(* from a copy that is no longer current is refused, after the calls to    *)
(* Home Assistant have had their effect.  A call to Home Assistant is one  *)
(* step.  The configuration of a resource is the number of the edit that   *)
(* made it, and its hash is that number.                                   *)
(***************************************************************************)
EXTENDS Integers, FiniteSets

CONSTANTS
    Resources,    \* the HomeAssistantIntegration resources, all of one domain
    MaxEdits,     \* bound: versions of a configuration
    MaxEntries,   \* bound: config entries ever made
    MaxFaults     \* bound: failures, crashes, entries removed by users

ASSUME ConstantsAssumption ==
    /\ Resources \cap {"user", "none"} = {}
    /\ MaxEdits \in Nat \ {0} /\ MaxEntries \in Nat
    /\ MaxFaults \in Nat \ {0}

VARIABLES
    alone,     \* one resource, with a file to upload, of an instance that may go away
    cr,        \* the resources as the API server has them
    cached,    \* the operator's cached copies
    fresh,     \* which cached copies are current
    entries,   \* Home Assistant's config entries
    made,      \* how many it has ever made
    down,      \* Home Assistant is gone
    pc,        \* the running reconcile's next step, or "Idle"
    cur,       \* the resource it is for, or none
    mine,      \* its copy
    valid,     \* that copy is still current
    temp,      \* Home Assistant holds an uploaded file no entry uses
    lost,      \* history: resources whose entry's ID was lost, or not removed
    leaky,     \* history: a clean-up was prevented
    faults     \* how much of the fault budget is spent

moving == <<cr, cached, fresh, entries, made, down, pc, cur, mine, valid, temp, lost, leaky, faults>>
vars == <<alone, moving>>
world == <<entries, made, down, temp>>
object == <<cr, cached, fresh>>
run == <<pc, cur, mine, valid>>

None == 0
NoOne == "none"
Copy == [phase : {"live", "deleting", "gone"}, finalizer : BOOLEAN, value : 1 .. MaxEdits,
         entry : 0 .. MaxEntries, hash : 0 .. MaxEdits,
         reason : {"none", "failed", "configured", "adopted"}]
Blank == [phase |-> "live", finalizer |-> FALSE, value |-> 1, entry |-> None,
          hash |-> 0, reason |-> "none"]

HasFile == alone
Spend == faults < MaxFaults /\ faults' = faults + 1

-----------------------------------------------------------------------------
(* Writing to the API server.                                               *)

\* A write without a change makes no new version.
Put(r, copy) ==
    /\ cr' = [cr EXCEPT ![r] = copy]
    /\ fresh' = [fresh EXCEPT ![r] = @ /\ copy = cr[r]]
    /\ UNCHANGED cached
Idle == pc' = "Idle" /\ cur' = NoOne /\ mine' = Blank /\ valid' = FALSE
Goto(label) == pc' = label /\ UNCHANGED <<object, cur, mine, valid, lost, faults>>

\* The entry that the copy knows of and the API server does not.
Forgotten(copy) == IF copy.entry # None /\ cr[cur].entry # copy.entry THEN {cur} ELSE {}

\* A reconcile ends with an update, which a newer version or a failure refuses.
Save(copy) ==
    /\ Idle
    /\ \/ valid /\ Put(cur, copy) /\ UNCHANGED <<lost, faults>>
       \/ ~valid /\ lost' = lost \cup Forgotten(copy) /\ UNCHANGED <<object, faults>>
       \/ Spend /\ lost' = lost \cup Forgotten(copy) /\ UNCHANGED object

\* Mutation of Hashed: the hash is recorded by failures, too.
HashedAlways(copy, ready) == [copy EXCEPT !.hash = copy.value]

\* setReadyCondition records the hash of the configuration, setFailedCondition
\* leaves the one there is.
Hashed(copy, ready) == IF ready THEN [copy EXCEPT !.hash = copy.value] ELSE copy

SetReady(copy, reason) == Save([Hashed(copy, TRUE) EXCEPT !.reason = reason])
SetFailed(copy) == Save([Hashed(copy, FALSE) EXCEPT !.reason = "failed"])

\* A call that fails, because Home Assistant is gone or for a reason of its own.
Failure == Spend \/ (down /\ UNCHANGED faults)
CallFails == Failure /\ Idle /\ UNCHANGED lost
             /\ \/ valid /\ Put(cur, [Hashed(mine, FALSE) EXCEPT !.reason = "failed"])
                \/ ~valid /\ UNCHANGED object

-----------------------------------------------------------------------------
(* Reconcile, up to the calls to Home Assistant.                            *)

Outdated(copy) == copy.entry # None /\ copy.hash # copy.value

\* Mutation of NeedsCleanup: a resource that is not ready is not cleaned up.
NeedsCleanupIfReady(copy) == copy.entry # None /\ copy.reason # "failed"

NeedsCleanup(copy) == copy.entry # None

\* The copy decides what there is to do.  A missing token, instance or Secret is
\* a failed call.
Start(r) ==
    LET copy == cached[r] IN
    /\ pc = "Idle" /\ copy.phase # "gone" /\ cr[r].phase # "gone"
    /\ cur' = r /\ mine' = copy /\ valid' = fresh[r]
    /\ pc' = IF copy.phase = "deleting"
             THEN IF NeedsCleanup(copy) THEN "Cleanup" ELSE "Finalize"
             ELSE IF ~copy.finalizer THEN "AddFinalizer"
             ELSE IF Outdated(copy) THEN "Remove"
             ELSE IF copy.entry # None THEN "Verify" ELSE "Check"
    /\ UNCHANGED <<object, world, lost, leaky, faults>>

AddFinalizer ==
    /\ pc = "AddFinalizer" /\ Save([mine EXCEPT !.finalizer = TRUE])
    /\ UNCHANGED <<world, leaky>>

-----------------------------------------------------------------------------
(* Deletion.                                                                *)

\* Mutation of AfterCleanup: a removal that failed is tried again.
AfterCleanupOf(removed) == IF removed THEN "Finalize" ELSE "Cleanup"

AfterCleanup(removed) == "Finalize"

\* handleDeletion: the entry is removed if Home Assistant lets it.
Cleanup ==
    /\ pc = "Cleanup"
    /\ \/ /\ ~down /\ entries' = {e \in entries : e.id # mine.entry}
          /\ pc' = AfterCleanup(TRUE) /\ UNCHANGED <<lost, faults>>
       \/ /\ Failure /\ lost' = lost \cup {cur} /\ UNCHANGED entries
          /\ pc' = AfterCleanup(FALSE)
    /\ UNCHANGED <<object, cur, mine, valid, made, down, temp, leaky>>

\* Without its finalizer the resource is gone.
Finalize ==
    /\ pc = "Finalize" /\ Idle
    /\ \/ valid /\ Put(cur, [mine EXCEPT !.finalizer = FALSE, !.phase = "gone"]) /\ UNCHANGED faults
       \/ ~valid /\ UNCHANGED <<object, faults>>
       \/ Spend /\ UNCHANGED object
    /\ UNCHANGED <<world, lost, leaky>>

-----------------------------------------------------------------------------
(* Reconfiguration, verification, adoption.                                 *)

\* A changed configuration: the entry is removed, which is forgotten at once in
\* the copy and with the next update in the status.
Remove ==
    /\ pc = "Remove"
    /\ \/ /\ ~down /\ entries' = {e \in entries : e.id # mine.entry}
          /\ mine' = [mine EXCEPT !.entry = None]
          /\ pc' = "Check" /\ UNCHANGED <<object, cur, valid, lost, faults>>
       \/ CallFails /\ UNCHANGED entries
    /\ UNCHANGED <<made, down, temp, leaky>>

\* verifyEntryExists.
Verify ==
    /\ pc = "Verify"
    /\ \/ /\ ~down /\ \E e \in entries : e.id = mine.entry
          /\ SetReady(mine, "configured")
       \/ /\ ~down /\ \A e \in entries : e.id # mine.entry
          /\ mine' = [mine EXCEPT !.entry = None]
          /\ pc' = "Check" /\ UNCHANGED <<object, cur, valid, lost, faults>>
       \/ CallFails
    /\ UNCHANGED <<world, leaky>>

\* Mutation of Configured: only the resource's own status is asked.
ConfiguredInStatus(r) == cr[r].entry # None

Configured(r) == entries # {}

\* IsIntegrationConfigured.
Check ==
    /\ pc = "Check"
    /\ \/ ~down /\ Configured(cur) /\ Goto("Adopt")
       \/ ~down /\ ~Configured(cur) /\ Goto("StartFlow")
       \/ CallFails
    /\ UNCHANGED <<world, leaky>>

\* findEntryID: an entry of the domain, whoever made it.
Adopt ==
    /\ pc = "Adopt"
    /\ \/ \E e \in entries :
              /\ ~down /\ SetReady([mine EXCEPT !.entry = e.id], "adopted")
       \/ ~down /\ entries = {} /\ SetFailed(mine)
       \/ CallFails
    /\ UNCHANGED <<world, leaky>>

-----------------------------------------------------------------------------
(* The config flow.                                                         *)

\* A new entry of the configuration the copy has.
Make ==
    /\ ~down /\ made < MaxEntries /\ made' = made + 1
    /\ entries' = entries \cup {[id |-> made + 1, by |-> cur, value |-> mine.value]}

\* handleCreateEntry; an answer without an ID counts as a success without one.
CreateEntry ==
    /\ Make
    /\ \/ SetReady([mine EXCEPT !.entry = made + 1], "configured")
       \/ Spend /\ Idle /\ lost' = lost \cup {cur}
          /\ IF valid THEN Put(cur, [Hashed(mine, TRUE) EXCEPT !.reason = "configured"])
                      ELSE UNCHANGED object

\* StartConfigFlow: a form, an entry at once, or an abort, which means adoption
\* when there is an entry already.
StartFlow ==
    /\ pc = "StartFlow"
    /\ \/ ~down /\ Goto(IF HasFile THEN "Upload" ELSE "Submit") /\ UNCHANGED <<entries, made>>
       \/ ~HasFile /\ CreateEntry
       \/ ~down /\ Configured(cur) /\ UNCHANGED <<entries, made>>
          /\ IF HasFile THEN SetFailed(mine) ELSE Goto("Adopt")
       \/ CallFails /\ UNCHANGED <<entries, made>>
    /\ UNCHANGED <<down, temp, leaky>>

\* Mutation of Cleaned: an error path without the clean-up.
LeftBehind(t) == t

Cleaned(t) == FALSE

\* cleanupUploadedFiles, which may fail, and the failure that called for it.
CleanUpAndFail ==
    /\ CallFails
    /\ \/ ~down /\ temp' = Cleaned(temp) /\ UNCHANGED leaky
       \/ leaky' = TRUE /\ UNCHANGED temp

\* uploadFiles.
Upload ==
    /\ pc = "Upload"
    /\ \/ ~down /\ temp' = TRUE /\ Goto("Submit") /\ UNCHANGED leaky
       \/ CleanUpAndFail
    /\ UNCHANGED <<entries, made, down>>

\* SubmitConfigFlow and, for a camera, its confirmation: an entry, which takes
\* the file over, or a refusal; an entry may be made and the answer lost.
Submit ==
    /\ pc = "Submit"
    /\ \/ CreateEntry /\ temp' = FALSE /\ UNCHANGED leaky
       \/ CleanUpAndFail /\ UNCHANGED <<entries, made>>
       \/ /\ Make /\ Spend /\ Idle /\ temp' = FALSE /\ UNCHANGED leaky
          /\ lost' = lost \cup {cur}
          /\ IF valid THEN Put(cur, [Hashed(mine, FALSE) EXCEPT !.reason = "failed"])
                      ELSE UNCHANGED object
    /\ UNCHANGED down

-----------------------------------------------------------------------------
(* Around the operator.                                                     *)

\* A change that the running reconcile has not seen makes its copy outdated.
Touch(r, copy) == Put(r, copy) /\ valid' = (valid /\ cur # r) /\ UNCHANGED <<pc, cur, mine>>

Edit(r) ==
    /\ cr[r].phase = "live" /\ cr[r].value < MaxEdits
    /\ Touch(r, [cr[r] EXCEPT !.value = @ + 1])
    /\ UNCHANGED <<world, lost, leaky, faults>>

Delete(r) ==
    /\ cr[r].phase = "live"
    /\ Touch(r, [cr[r] EXCEPT !.phase = IF cr[r].finalizer THEN "deleting" ELSE "gone"])
    /\ UNCHANGED <<world, lost, leaky, faults>>

Observe(r) ==
    /\ ~fresh[r]
    /\ cached' = [cached EXCEPT ![r] = cr[r]] /\ fresh' = [fresh EXCEPT ![r] = TRUE]
    /\ UNCHANGED <<cr, world, run, lost, leaky, faults>>

UserAdds ==
    /\ ~down /\ made < MaxEntries /\ Spend /\ made' = made + 1
    /\ entries' = entries \cup {[id |-> made + 1, by |-> "user", value |-> 0]}
    /\ UNCHANGED <<object, run, down, temp, lost, leaky>>

UserRemoves(e) ==
    /\ ~down /\ Spend /\ entries' = entries \ {e}
    /\ UNCHANGED <<object, run, made, down, temp, lost, leaky>>

GoDown ==
    /\ alone /\ ~down /\ down' = TRUE
    /\ UNCHANGED <<object, run, entries, made, temp, lost, leaky, faults>>

Crash ==
    /\ pc # "Idle" /\ Spend /\ Idle
    /\ leaky' = (leaky \/ temp)
    /\ UNCHANGED <<object, world, lost>>

\* The bounds of a behaviour: one resource may be edited and meet every fault, several
\* may be edited or meet one fault.
Init ==
    /\ alone \in BOOLEAN
    /\ IF alone
       THEN /\ cr = [r \in Resources |->
                   IF r = CHOOSE q \in Resources : TRUE THEN Blank ELSE [Blank EXCEPT !.phase = "gone"]]
            /\ faults = 0
       ELSE \/ cr = [r \in Resources |-> Blank] /\ faults = MaxFaults
            \/ /\ cr = [r \in Resources |-> [Blank EXCEPT !.value = MaxEdits]]
               /\ faults = MaxFaults - 1
    /\ cached = cr
    /\ fresh = [r \in Resources |-> TRUE]
    /\ entries = {} /\ made = 0 /\ down = FALSE /\ temp = FALSE
    /\ pc = "Idle" /\ cur = NoOne
    /\ mine = Blank /\ valid = FALSE
    /\ lost = {} /\ leaky = FALSE

Step == \/ AddFinalizer \/ Cleanup \/ Finalize \/ Remove \/ Verify \/ Check \/ Adopt
        \/ StartFlow \/ Upload \/ Submit
Act ==
    \/ Step \/ Crash \/ GoDown \/ UserAdds
    \/ \E r \in Resources : Start(r) \/ Edit(r) \/ Delete(r) \/ Observe(r)
    \/ \E e \in entries : UserRemoves(e)

Next == Act /\ UNCHANGED alone
Spec == Init /\ [][Next]_vars

\* The queue serves every resource, a failed reconcile is queued again, a quiet
\* one with the next event or resync, and the cache catches up.
FairSpec == /\ Spec /\ WF_moving(Step)
            /\ \A r \in Resources : SF_moving(Start(r) /\ fresh[r]) /\ WF_moving(Observe(r))

-----------------------------------------------------------------------------
Labels == {"Idle", "AddFinalizer", "Cleanup", "Finalize", "Remove", "Verify", "Check",
           "Adopt", "StartFlow", "Upload", "Submit"}
TypeOK ==
    /\ alone \in BOOLEAN /\ cr \in [Resources -> Copy] /\ cached \in [Resources -> Copy]
    /\ fresh \in [Resources -> BOOLEAN] /\ \A r \in Resources : fresh[r] => cached[r] = cr[r]
    /\ entries \subseteq [id : 1 .. MaxEntries, by : Resources \cup {"user"}, value : 0 .. MaxEdits]
    /\ made \in 0 .. MaxEntries /\ down \in BOOLEAN /\ temp \in BOOLEAN
    /\ pc \in Labels /\ cur \in Resources \cup {NoOne} /\ mine \in Copy /\ valid \in BOOLEAN
    /\ lost \subseteq Resources /\ leaky \in BOOLEAN /\ faults \in 0 .. MaxFaults

\* The operator never has two entries of its own in the domain, whatever answers,
\* updates and cached copies were lost or late.
OneEntryPerDomain ==
    Cardinality({e \in entries : e.by # "user"}) <= 1

\* A resource that is gone leaves no entry it made behind, unless the entry's ID
\* never reached the status or Home Assistant refused the removal.
DeletionRemoves ==
    \A r \in Resources : cr[r].phase = "gone" /\ r \notin lost =>
        \A e \in entries : e.by # r

\* The hash in the status is that of the entry's configuration, as long as the
\* entry is one the resource made and no ID was lost.
HashIsApplied ==
    \A r \in Resources : r \notin lost =>
        \A e \in entries : e.id = cr[r].entry /\ e.by = r => e.value = cr[r].hash

\* An uploaded file is used or deleted by the time the reconcile ends, unless a
\* crash or Home Assistant prevented it.
UploadsCleanedUp == pc = "Idle" /\ ~leaky => ~temp

\* Every resource ends up with an entry and with the hash of its last edit, unless
\* Home Assistant goes away; and one that is deleted ends up gone, even then.
Converges ==
    \A r \in Resources :
        <>[](\/ cr[r].phase = "gone"
             \/ cr[r].phase = "live" /\ (down \/ (cr[r].hash = cr[r].value /\ cr[r].entry # None)))
=============================================================================
