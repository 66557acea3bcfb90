------------------------------ MODULE Registry ------------------------------
(***************************************************************************)
(* Floors, labels and areas: custom resources and the entries of Home      *)
(* Assistant's registries that they stand for (the three controllers       *)
(* homeassistantfloor_controller.go, homeassistantlabel_controller.go and  *)
(* homeassistantarea_controller.go).                                       *)
(*                                                                         *)
(* The controllers run beside each other, each with one worker.  What they *)
(* do is the same up to the contents of an entry, except that an area      *)
(* first looks up the floor and the labels it names; so the steps are      *)
(* written once, for a kind, and each controller is put together from them.*)
(* A call to Home Assistant is one step.                                   *)
(***************************************************************************)
EXTENDS Integers, FiniteSets

CONSTANTS
    Floors, Labels, Areas,   \* the resources of each kind
    Refs,                    \* the names that areas refer to
    Together,                \* bound: how many of the resources there are at first, areas included
    MaxNames,                \* bound: names, and entries of a kind at a time
    MaxEdits,                \* bound: changes of a spec, deletions
    MaxFaults                \* bound: failed calls, outages, crashes, what users do there

NoOne == "none"
NoId == 0
NoName == 0
Names == 1 .. MaxNames
Kinds == {"floor", "label", "area"}
Resources == Floors \cup Labels \cup Areas

ASSUME ConstantsAssumption ==
    /\ Floors \cap Labels = {} /\ (Floors \cup Labels) \cap Areas = {}
    /\ Refs \subseteq Names /\ Refs # {} /\ {NoOne, "user"} \cap Resources = {}
    /\ Together \in Nat /\ MaxNames \in Nat /\ MaxEdits \in Nat /\ MaxFaults \in Nat

VARIABLES
    cr, seen, fresh,   \* the resources, their cached copies, which of these are current
    queue,             \* resources that are due for a reconcile
    entries,           \* Home Assistant's registries
    down,              \* Home Assistant is gone
    w,                 \* the worker of each kind
    lost,              \* history: resources with an entry whose ID was lost, or not removed
    edits, faults

object == <<cr, seen, fresh>>
vars == <<object, queue, entries, down, w, lost, edits, faults>>

KindOf(r) == IF r \in Floors THEN "floor" ELSE IF r \in Labels THEN "label" ELSE "area"
Ids == 1 .. MaxNames
Copy == [state : {"live", "deleting", "gone"}, fin : BOOLEAN, name : Names, icon : {0, 1},
         floor : Names \cup {NoName}, labels : SUBSET Names,
         id : Ids \cup {NoId}, ready : {"unknown", "yes", "nofloor", "failed"}]
Entry == [id : Ids, name : Names, icon : {0, 1}, floor : Ids \cup {NoId}, labels : SUBSET Ids,
          by : Resources \cup {"user"}]
NoEntry == [id |-> NoId]
Idle == [pc |-> "Idle", who |-> NoOne]

Spend == faults < MaxFaults /\ faults' = faults + 1
Failure == Spend \/ (down /\ UNCHANGED faults)

-----------------------------------------------------------------------------
(* Writing to the API server.  A write without a change makes no version.   *)

Put(r, copy) ==
    /\ cr' = [cr EXCEPT ![r] = copy]
    /\ fresh' = [fresh EXCEPT ![r] = @ /\ copy = cr[r]]
    /\ UNCHANGED seen

\* An update from a copy that is not current, or that fails, is an error: once more.
Refused(k) ==
    /\ IF w[k].valid THEN Spend ELSE UNCHANGED faults
    /\ queue' = queue \cup {w[k].who} /\ UNCHANGED object

Goto(k, label) == w' = [w EXCEPT ![k].pc = label]
Finish(k) == w' = [w EXCEPT ![k] = Idle]

\* The condition that a reconcile ends with is its copy's, written by Save.
Conclude(k, copy) ==
    w' = [w EXCEPT ![k].pc = "Save", ![k].mine = copy,
                   ![k].found = NoEntry, ![k].floor = NoId, ![k].labels = {}]

-----------------------------------------------------------------------------
(* The steps of a reconcile.                                                *)

\* The copy in the cache decides.  An area begins with its lookups.
Take(r) ==
    LET k == KindOf(r)  copy == seen[r] IN
    /\ w[k].pc = "Idle" /\ r \in queue /\ cr[r].state # "gone"
    /\ queue' = queue \ {r}
    /\ w' = [w EXCEPT ![k] =
             [who |-> r, mine |-> copy, valid |-> fresh[r], floor |-> NoId, labels |-> {},
              found |-> NoEntry,
              pc |-> IF copy.state = "deleting" THEN "Remove"
                     ELSE IF ~copy.fin THEN "AddFinalizer"
                     ELSE IF k = "area" THEN "Floor" ELSE "List"]]
    /\ UNCHANGED <<object, entries, down, lost, edits, faults>>

AddFinalizer(k) ==
    /\ w[k].pc = "AddFinalizer" /\ Finish(k)
    /\ \/ /\ w[k].valid /\ Put(w[k].who, [w[k].mine EXCEPT !.fin = TRUE])
          /\ UNCHANGED <<queue, faults>>
       \/ Refused(k)
    /\ UNCHANGED <<entries, down, lost, edits>>

\* No instance, no token, or a list that fails: reported, and tried again.
LookupFails(k) ==
    /\ w[k].pc \in {"Floor", "Labels", "List"} /\ Failure
    /\ Conclude(k, [w[k].mine EXCEPT !.ready = "failed"])
    /\ UNCHANGED <<object, queue, entries, down, lost, edits>>

\* Mutation of Adopted: an entry is only ever looked for by its ID.
AdoptedNever(k, copy) == {}

\* The entry of that name, if the status has no ID.
Adopted(k, copy) == {e \in entries[k] : e.name = copy.name}

\* The entry of the ID in the status; when it has been deleted, the ID is given up.
Found(k, copy) ==
    LET known == {e \in entries[k] : e.id = copy.id} IN
    IF known # {} THEN known ELSE Adopted(k, copy)

List(k) ==
    /\ w[k].pc = "List" /\ ~down
    /\ LET copy == w[k].mine  found == Found(k, copy) IN
       \/ \E e \in found :
              w' = [w EXCEPT ![k].pc = "Update", ![k].found = e, ![k].mine = [copy EXCEPT !.id = e.id]]
       \/ /\ found = {}
          /\ w' = [w EXCEPT ![k].pc = "Create", ![k].mine = [copy EXCEPT !.id = NoId]]
    /\ UNCHANGED <<object, queue, entries, down, lost, edits, faults>>

\* What the worker wants an entry to hold.
Data(k) == [name |-> w[k].mine.name, icon |-> w[k].mine.icon,
            floor |-> w[k].floor, labels |-> w[k].labels]
DataOf(e) == [name |-> e.name, icon |-> e.icon, floor |-> e.floor, labels |-> e.labels]
WithData(e, d) == [e EXCEPT !.name = d.name, !.icon = d.icon, !.floor = d.floor, !.labels = d.labels]

\* Home Assistant has no two entries of one name in a registry, and does not ask
\* whether the floor or the labels of an area exist.
NameFree(k, name, id) == \A e \in entries[k] : e.name = name => e.id = id

NeedsUpdate(found, d) == DataOf(found) # d

\* An update is refused for an entry that has gone, or a name that is taken.
Update(k) ==
    /\ w[k].pc = "Update"
    /\ LET d == Data(k)  id == w[k].mine.id
           target == {e \in entries[k] : e.id = id}
           done == Conclude(k, [w[k].mine EXCEPT !.ready = "yes"])
           refused == Conclude(k, [w[k].mine EXCEPT !.ready = "failed"]) IN
       \/ ~NeedsUpdate(w[k].found, d) /\ done /\ UNCHANGED <<entries, faults>>
       \/ /\ NeedsUpdate(w[k].found, d) /\ ~down /\ target # {} /\ NameFree(k, d.name, id)
          /\ entries' = [entries EXCEPT ![k] =
                         {IF e.id = id THEN WithData(e, d) ELSE e : e \in @}]
          /\ done /\ UNCHANGED faults
       \/ /\ NeedsUpdate(w[k].found, d) /\ ~down /\ (target = {} \/ ~NameFree(k, d.name, id))
          /\ refused /\ UNCHANGED <<entries, faults>>
       \/ NeedsUpdate(w[k].found, d) /\ Failure /\ refused /\ UNCHANGED entries
    /\ UNCHANGED <<object, queue, down, lost, edits>>

\* Mutation of Recorded: the ID of a new entry is left to the next lookup.
RecordedLater(copy, id) == copy

Recorded(copy, id) == [copy EXCEPT !.id = id]

\* Home Assistant makes an entry's ID from its name, and another one when that is in
\* use because the entry that got it has been renamed.
NewId(k, name) ==
    LET free == {id \in Ids : \A e \in entries[k] : e.id # id} IN
    IF name \in free THEN {name} ELSE free

\* createFloor and its like; the answer may be lost.
Create(k) ==
    /\ w[k].pc = "Create"
    /\ LET d == Data(k)  copy == w[k].mine
           refused == Conclude(k, [copy EXCEPT !.ready = "failed"]) IN
       \/ /\ ~down /\ NameFree(k, d.name, NoId)
          /\ \E id \in NewId(k, d.name) :
                 /\ entries' = [entries EXCEPT ![k] = @ \cup
                        {[id |-> id, name |-> d.name, icon |-> d.icon, floor |-> d.floor,
                          labels |-> d.labels, by |-> w[k].who]}]
                 /\ \/ Conclude(k, [Recorded(copy, id) EXCEPT !.ready = "yes"])
                       /\ UNCHANGED <<lost, faults>>
                    \/ Spend /\ refused /\ lost' = lost \cup {w[k].who}
       \/ /\ ~down /\ ~NameFree(k, d.name, NoId) /\ refused /\ UNCHANGED <<entries, lost, faults>>
       \/ Failure /\ refused /\ UNCHANGED <<entries, lost>>
    /\ UNCHANGED <<object, queue, down, edits>>

\* The entry that the copy knows of and the API server does not.
Forgotten(k) == IF w[k].mine.id \notin {NoId, cr[w[k].who].id} THEN {w[k].who} ELSE {}

\* Whatever is not ready is reconciled again after thirty seconds.
Requeued(copy) == copy.ready # "yes"

\* setCondition: the condition and the ID in one update of the status.
Save(k) ==
    /\ w[k].pc = "Save" /\ Finish(k)
    /\ LET r == w[k].who  copy == w[k].mine IN
       \/ /\ w[k].valid /\ Put(r, copy) /\ UNCHANGED <<lost, faults>>
          /\ queue' = queue \cup IF Requeued(copy) THEN {r} ELSE {}
       \/ Refused(k) /\ lost' = lost \cup Forgotten(k)
    /\ UNCHANGED <<entries, down, edits>>

-----------------------------------------------------------------------------
(* Deletion.                                                                *)

\* Home Assistant drops the references to an entry that is removed.
Without(k, gone) ==
    [q \in Kinds |->
        IF q = k THEN entries[k] \ gone
        ELSE IF q # "area" THEN entries[q]
        ELSE {[e EXCEPT !.floor = IF k = "floor" /\ \E g \in gone : g.id = e.floor THEN NoId ELSE @,
                        !.labels = IF k = "label" THEN @ \ {g.id : g \in gone} ELSE @]
              : e \in entries["area"]}]

\* handleDeletion: the entry of the ID in the status, if Home Assistant can be reached.
Remove(k) ==
    /\ w[k].pc = "Remove"
    /\ LET id == w[k].mine.id  target == {e \in entries[k] : e.id = id} IN
       \/ /\ id = NoId \/ ~down
          /\ entries' = Without(k, target) /\ Goto(k, "Finalize") /\ UNCHANGED <<lost, faults>>
       \/ /\ id # NoId /\ Failure /\ Goto(k, "Finalize")
          /\ lost' = lost \cup {w[k].who}
          /\ UNCHANGED entries
    /\ UNCHANGED <<object, queue, down, edits>>

\* The finalizer goes, and the resource with it.
Finalize(k) ==
    /\ w[k].pc = "Finalize" /\ Finish(k)
    /\ \/ /\ w[k].valid /\ UNCHANGED <<queue, faults>>
          /\ Put(w[k].who, [w[k].mine EXCEPT !.fin = FALSE, !.state = "gone"])
       \/ Refused(k)
    /\ UNCHANGED <<entries, down, lost, edits>>

-----------------------------------------------------------------------------
(* What an area looks up first.                                             *)

\* listFloors and findFloorByName: without its floor, an area is left as it is.
LookUpFloor ==
    /\ w["area"].pc = "Floor"
    /\ LET copy == w["area"].mine
           floors == {f \in entries["floor"] : f.name = copy.floor} IN
       \/ copy.floor = NoName /\ Goto("area", "Labels")
       \/ ~down /\ \E f \in floors : w' = [w EXCEPT !["area"].floor = f.id, !["area"].pc = "Labels"]
       \/ /\ copy.floor # NoName /\ ~down /\ floors = {}
          /\ Conclude("area", [copy EXCEPT !.ready = "nofloor"])
    /\ UNCHANGED <<object, queue, entries, down, lost, edits, faults>>

\* A label that does not exist is left out.
Resolved(names) == {l.id : l \in {e \in entries["label"] : e.name \in names}}

LookUpLabels ==
    /\ w["area"].pc = "Labels" /\ (~down \/ w["area"].mine.labels = {})
    /\ w' = [w EXCEPT !["area"].labels = Resolved(w["area"].mine.labels), !["area"].pc = "List"]
    /\ UNCHANGED <<object, queue, entries, down, lost, edits, faults>>

-----------------------------------------------------------------------------
(* The three controllers.                                                   *)

Apply(k) == AddFinalizer(k) \/ LookupFails(k) \/ List(k) \/ Update(k) \/ Create(k)
Withdraw(k) == Remove(k) \/ Finalize(k)

FloorReconcile == Apply("floor") \/ \E r \in Floors : Take(r)
FloorDeletion == Withdraw("floor")
FloorCondition == Save("floor")

LabelReconcile == Apply("label") \/ \E r \in Labels : Take(r)
LabelDeletion == Withdraw("label")
LabelCondition == Save("label")

AreaReconcile == \/ Apply("area") \/ LookUpFloor \/ LookUpLabels
                 \/ \E r \in Areas : Take(r)
AreaDeletion == Withdraw("area")
AreaCondition == Save("area")

-----------------------------------------------------------------------------
(* Users, the cache, failures.                                              *)

\* The spec of a resource.  Floors and labels name nothing else.
Specs(r) == IF r \in Areas
            THEN [name : Names, icon : {0}, floor : Refs \cup {NoName}, labels : SUBSET Refs]
            ELSE [name : Names, icon : {0, 1}, floor : {NoName}, labels : {{}}]

Touch(r, copy) ==
    /\ edits < MaxEdits /\ edits' = edits + 1 /\ copy # cr[r]
    /\ Put(r, copy) /\ UNCHANGED queue
    /\ w' = [k \in Kinds |-> IF w[k].who = r THEN [w[k] EXCEPT !.valid = FALSE] ELSE w[k]]
    /\ UNCHANGED <<entries, down, lost, faults>>

\* One field at a time.
Edit(r) == /\ cr[r].state = "live"
           /\ \E s \in Specs(r) :
                  \/ Touch(r, [cr[r] EXCEPT !.name = s.name]) \/ Touch(r, [cr[r] EXCEPT !.icon = s.icon])
                  \/ Touch(r, [cr[r] EXCEPT !.floor = s.floor]) \/ Touch(r, [cr[r] EXCEPT !.labels = s.labels])

Delete(r) == /\ cr[r].state = "live"
             /\ Touch(r, [cr[r] EXCEPT !.state = IF cr[r].fin THEN "deleting" ELSE "gone"])

\* A new version reaches the cache, and queues the resource.
Observe(r) ==
    /\ ~fresh[r] /\ queue' = queue \cup {r}
    /\ seen' = [seen EXCEPT ![r] = cr[r]] /\ fresh' = [fresh EXCEPT ![r] = TRUE]
    /\ UNCHANGED <<cr, entries, down, w, lost, edits, faults>>

\* The cache hands out every resource again from time to time: every ten hours,
\* much later than anything that is going on takes.
Resync(r) ==
    /\ cr[r].state # "gone" /\ fresh[r] /\ r \notin queue
    /\ w = [k \in Kinds |-> Idle]
    /\ queue' = queue \cup {r}
    /\ UNCHANGED <<object, entries, down, w, lost, edits, faults>>

\* A user of Home Assistant adds, removes or renames an entry.
UserActs(k) ==
    /\ ~down /\ Spend
    /\ \/ \E name \in Names : \E id \in NewId(k, name) :
              /\ NameFree(k, name, NoId)
              /\ entries' = [entries EXCEPT ![k] = @ \cup
                     {[id |-> id, name |-> name, icon |-> 0, floor |-> NoId, labels |-> {},
                       by |-> "user"]}]
       \/ \E e \in entries[k] : entries' = Without(k, {e})
       \/ \E e \in entries[k], name \in Names :
              /\ NameFree(k, name, NoId)
              /\ entries' = [entries EXCEPT ![k] = (@ \ {e}) \cup {[e EXCEPT !.name = name]}]
    /\ UNCHANGED <<object, queue, down, w, lost, edits>>

GoDown ==
    /\ ~down /\ Spend /\ down' = TRUE
    /\ UNCHANGED <<object, queue, entries, w, lost, edits>>

\* The operator starts again: every resource is due.
Crash ==
    /\ \E k \in Kinds : w[k].pc # "Idle"
    /\ Spend /\ w' = [k \in Kinds |-> Idle]
    /\ lost' = lost \cup UNION {Forgotten(k) : k \in {q \in Kinds : w[q].pc = "Save"}}
    /\ queue' = {r \in Resources : cr[r].state # "gone"}
    /\ UNCHANGED <<object, entries, down, edits>>

\* At first everything has one name, and areas refer to what there will be.
First(r) == CHOOSE s \in Specs(r) : s.name \in Refs /\ s.icon = 0
                                    /\ (r \in Areas => s.floor \in Refs /\ s.labels = Refs)
New == [state |-> "live", fin |-> FALSE, name |-> 1, icon |-> 0, floor |-> NoName,
        labels |-> {}, id |-> NoId, ready |-> "unknown"]
Init ==
    /\ \E there \in SUBSET Resources :
           /\ Areas \subseteq there /\ Cardinality(there) = Together
           /\ cr = [r \in Resources |->
                     [WithData(New, First(r)) EXCEPT !.state = IF r \in there THEN @ ELSE "gone"]]
    /\ seen = cr /\ fresh = [r \in Resources |-> TRUE] /\ queue = {r \in Resources : cr[r].state # "gone"}
    /\ entries = [k \in Kinds |-> {}] /\ down = FALSE
    /\ w = [k \in Kinds |-> Idle] /\ lost = {} /\ edits = 0 /\ faults = 0

Step == \/ FloorReconcile \/ FloorDeletion \/ FloorCondition
        \/ LabelReconcile \/ LabelDeletion \/ LabelCondition
        \/ AreaReconcile \/ AreaDeletion \/ AreaCondition
Next == \/ Step \/ Crash \/ GoDown
        \/ \E r \in Resources : Edit(r) \/ Delete(r) \/ Observe(r) \/ Resync(r)
        \/ \E k \in Kinds : UserActs(k)
Spec == Init /\ [][Next]_vars

\* Each controller goes on (and takes its resources in turn, where it has several), the
\* cache catches up and hands the resources out again.
FairSpec ==
    /\ Spec
    /\ WF_vars(FloorReconcile \/ FloorDeletion \/ FloorCondition)
    /\ WF_vars(LabelReconcile \/ LabelDeletion \/ LabelCondition)
    /\ WF_vars(AreaReconcile \/ AreaDeletion \/ AreaCondition)
    /\ WF_vars(\E r \in Resources : Observe(r))
    /\ \A r \in Resources : SF_vars(Resync(r))

-----------------------------------------------------------------------------
TypeOK ==
    /\ cr \in [Resources -> Copy] /\ seen \in [Resources -> Copy] /\ fresh \in [Resources -> BOOLEAN]
    /\ queue \subseteq Resources /\ \A k \in Kinds : entries[k] \subseteq Entry
    /\ \A k \in Kinds : w[k].pc # "Idle" => KindOf(w[k].who) = k /\ w[k].mine \in Copy
    /\ down \in BOOLEAN /\ lost \subseteq Resources /\ edits \in 0 .. MaxEdits /\ faults \in 0 .. MaxFaults

\* An entry that a resource made is the one of its status, or of the reconcile that is
\* about to write it there: renaming or deleting the resource leaves no second entry
\* behind, unless an ID was lost before the status had it, or a removal failed.
NothingLeftBehind ==
    \A k \in Kinds : \A e \in entries[k] :
        e.by \in Resources \ lost =>
            \/ cr[e.by].state # "gone" /\ cr[e.by].id = e.id
            \/ w[k].who = e.by /\ w[k].pc = "Save" /\ w[k].mine.id = e.id

\* The entry holds what the spec says, with the floor and the labels that exist.
Settled(r) ==
    \/ /\ cr[r].ready = "yes"
       /\ \E e \in entries[KindOf(r)] :
              /\ e.id = cr[r].id /\ e.name = cr[r].name /\ e.icon = cr[r].icon
              /\ IF cr[r].floor = NoName THEN e.floor = NoId
                 ELSE \E f \in entries["floor"] : f.name = cr[r].floor /\ e.floor = f.id
              /\ e.labels = {l.id : l \in {x \in entries["label"] : x.name \in cr[r].labels}}
    \/ /\ cr[r].ready = "nofloor" /\ \A f \in entries["floor"] : f.name # cr[r].floor
    \/ /\ cr[r].ready = "failed" /\ cr[r].id # NoId /\ ~NameFree(KindOf(r), cr[r].name, cr[r].id)

\* In the end every resource is gone, or its entry holds what the spec says with
\* references to what exists, or its condition says that the floor is missing, or that
\* another entry has the name its own should get.  A deletion ends even if Home Assistant is gone.
Converges ==
    \A r \in Resources :
        <>[](cr[r].state = "gone" \/ Settled(r) \/ (down /\ cr[r].state = "live"))
=============================================================================
