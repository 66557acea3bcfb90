----------------------------- MODULE PushProofs -----------------------------
(***************************************************************************)
(* What the controllers that push to Home Assistant keep, for any number   *)
(* of resources, of edits and of faults.  Automations, scenes and scripts: *)
(* the types, and that a rename leaves no entity behind.  Dashboards: the  *)
(* types, and that a dashboard of somebody else is neither changed nor     *)
(* removed.                                                                *)
(***************************************************************************)
EXTENDS EntityPush, TLAPS

Busy == pc # "Idle"

-----------------------------------------------------------------------------
(* Types.                                                                   *)

LEMMA BlankTyped == Blank \in Copy /\ NoPush \in [value : 0 .. MaxEdits, id : Ids \cup {NoOne}]
<1>1. (CHOOSE i \in Ids : TRUE) \in Ids
  BY ConstantsAssumption
<1>2. 1 \in 1 .. MaxEdits /\ 0 \in 0 .. MaxEdits
  BY ConstantsAssumption
<1> QED  BY <1>1, <1>2 DEF Blank, Copy, NoPush

\* The part of the type invariant about the resources and their cached copies.
ObjectTyped ==
    /\ cr \in [Resources -> Copy] /\ cached \in [Resources -> Copy]
    /\ fresh \in [Resources -> BOOLEAN] /\ \A r \in Resources : fresh[r] => cached[r] = cr[r]
RunTyped ==
    /\ pc \in Labels /\ cur \in Resources \cup {NoOne} /\ mine \in Copy /\ valid \in BOOLEAN
    /\ pushed \in [value : 0 .. MaxEdits, id : Ids \cup {NoOne}]
HaTyped == ha \in [Ids -> [by : Resources \cup {NoOne}, value : 0 .. MaxEdits, on : BOOLEAN]]
RestTyped ==
    /\ kind \in {"Scene", "Automation"} /\ down \in BOOLEAN
    /\ lost \subseteq Resources /\ faults \in 0 .. MaxFaults

\* The reconcile under way is about a resource that exists, its copy is the resource while
\* it is valid, and what it pushes is what the copy says until the copy is replaced.
Running ==
    /\ Busy => cur \in Resources /\ pushed.value \in 1 .. MaxEdits /\ pushed.id \in Ids
    /\ Busy => cr[cur].phase # "absent"
    /\ valid => Busy /\ mine = cr[cur]
    /\ pc \in {"Unrename", "Push", "Annotate"} => pushed.value = mine.value /\ pushed.id = mine.id
    /\ pc = "Unrename" => Renamed(mine)
\* A resource that was never created has no past.
Absent == \A r \in Resources : cr[r].phase = "absent" => cr[r] = Blank /\ cached[r] = Blank
Base == ObjectTyped /\ RunTyped /\ HaTyped /\ RestTyped /\ Running /\ Absent

LEMMA BaseTypeOK == Base => TypeOK
  BY DEF Base, ObjectTyped, RunTyped, HaTyped, RestTyped, TypeOK

\* How a step changes the resources: it leaves them alone, or makes one of them a copy.
Puts(r, copy) == r \in Resources /\ copy \in Copy /\ Put(r, copy)

LEMMA PutTyped ==
    ASSUME ObjectTyped, NEW r, NEW copy, Puts(r, copy)
    PROVE  /\ ObjectTyped' /\ cached' = cached /\ cr'[r] = copy
           /\ \A q \in Resources \ {r} : cr'[q] = cr[q]
<1>1. cr' = [cr EXCEPT ![r] = copy] /\ fresh' = [fresh EXCEPT ![r] = fresh[r] /\ copy = cr[r]]
      /\ cached' = cached /\ r \in Resources /\ copy \in Copy
  BY DEF Puts, Put
<1>2. cr'[r] = copy /\ \A q \in Resources \ {r} : cr'[q] = cr[q]
  BY <1>1 DEF ObjectTyped
<1>3. cr' \in [Resources -> Copy] /\ fresh' \in [Resources -> BOOLEAN]
  BY <1>1 DEF ObjectTyped
<1>4. \A q \in Resources : fresh'[q] => fresh[q] /\ cr'[q] = cr[q]
  BY <1>1, <1>2 DEF ObjectTyped
<1> QED  BY <1>1, <1>2, <1>3, <1>4 DEF ObjectTyped

LEMMA IdleTyped == ASSUME Idle PROVE RunTyped' /\ ~Busy' /\ ~valid'
  BY BlankTyped DEF Idle, RunTyped, Busy, Labels

LEMMA SpendTyped ==
    ASSUME faults \in 0 .. MaxFaults, Spend PROVE faults' \in 0 .. MaxFaults
  BY ConstantsAssumption DEF Spend
LEMMA FailureTyped ==
    ASSUME faults \in 0 .. MaxFaults, Failure PROVE faults' \in 0 .. MaxFaults
  BY SpendTyped DEF Failure

\* The fields that an update changes.
LEMMA Fields ==
    ASSUME NEW c \in Copy
    PROVE  /\ c.phase \in {"absent", "live", "deleting", "gone"} /\ c.id \in Ids
           /\ c.value \in 1 .. MaxEdits /\ c.hash \in 0 .. MaxEdits /\ c.applied \in Ids \cup {NoOne}
           /\ c.value \in Int /\ c.hash \in Int
  BY DEF Copy

-----------------------------------------------------------------------------
(* Steps that change nothing of a resource the invariant is about.          *)

Alike(c, d) ==
    /\ d.id = c.id /\ d.value = c.value /\ d.applied = c.applied /\ d.hash = c.hash
    /\ d.phase # "absent" /\ (d.phase = "live" => c.phase = "live")
\* The resources are alike before and after the step.
Light ==
    /\ cached' = cached
    /\ \A q \in Resources : \/ cr'[q] = cr[q]
                            \/ cr[q].phase # "absent" /\ Alike(cr[q], cr'[q])

LEMMA LightPut ==
    ASSUME ObjectTyped, NEW r, NEW copy, Puts(r, copy), cr[r].phase # "absent", Alike(cr[r], copy)
    PROVE  Light /\ ObjectTyped'
  BY PutTyped DEF Light, Puts

LEMMA LightStutter == ASSUME ObjectTyped, UNCHANGED object PROVE Light /\ ObjectTyped'
  BY DEF Light, object, ObjectTyped

LEMMA ReportLight ==
    ASSUME Base, Busy, NEW reload \in {"failed", "noToken"}, Report(reload)
    PROVE  Light /\ ObjectTyped' /\ Idle
<1>1. CASE valid
  <2>1. Put(cur, Failed(mine, reload)) /\ mine = cr[cur] /\ cur \in Resources /\ mine \in Copy
        /\ cr[cur].phase # "absent"
    BY <1>1 DEF Report, Base, Running, RunTyped
  <2>2. Failed(mine, reload) \in Copy /\ Alike(mine, Failed(mine, reload))
    BY <2>1 DEF Failed, Copy, Alike
  <2> QED  BY <2>1, <2>2, LightPut DEF Puts, Base, Report
<1>2. CASE ~valid
  BY <1>2, LightStutter DEF Report, Base
<1> QED  BY <1>1, <1>2

LEMMA UpdateLight ==
    ASSUME Base, Busy, NEW copy \in Copy, valid => Alike(mine, copy), UpdateObject(copy)
    PROVE  Light /\ ObjectTyped' /\ Idle /\ faults' \in 0 .. MaxFaults
<1>1. CASE valid /\ Put(cur, copy) /\ UNCHANGED faults
  <2>1. mine = cr[cur] /\ cur \in Resources /\ cr[cur].phase # "absent"
    BY <1>1 DEF Base, Running
  <2> QED  BY <1>1, <2>1, LightPut DEF Puts, Base, RestTyped, UpdateObject
<1>2. CASE UNCHANGED <<object, faults>>
  BY <1>2, LightStutter DEF UpdateObject, Base, RestTyped
<1>3. CASE Spend /\ UNCHANGED object
  BY <1>3, LightStutter, SpendTyped DEF UpdateObject, Base, RestTyped
<1> QED  BY <1>1, <1>2, <1>3 DEF UpdateObject

LEMMA LightAbsent == ASSUME Absent, Light PROVE Absent'
  BY DEF Absent, Light, Alike

\* A reconcile that ends, and one that only moves on.
MovesOn == Busy /\ UNCHANGED <<cr, cur, mine, valid, pushed>> /\ pc' \in Labels \ {"Idle", "Unrename"}

LEMMA IdleRunning == ASSUME Idle PROVE Running'
  BY DEF Idle, Running, Busy

LEMMA MovesOnRunning ==
    ASSUME Base, MovesOn, pc' \in {"Push", "Annotate"} => pc \in {"Unrename", "Push"}
    PROVE  Running' /\ RunTyped'
  BY DEF MovesOn, Running, Busy, Base, RunTyped

\* The whole of a step's effect on the types, from its parts.
LEMMA BaseKept ==
    ASSUME Base, ObjectTyped', Absent', Running', RunTyped', HaTyped', RestTyped'
    PROVE  Base'
  BY DEF Base

-----------------------------------------------------------------------------
(* What Home Assistant has.                                                 *)

\* The writers of Home Assistant's entities stay, or their entities go.
Shrinks == \A id \in Ids : ha'[id].by = ha[id].by \/ ha'[id].by = NoOne

LEMMA HaSame == ASSUME HaTyped, UNCHANGED ha PROVE HaTyped' /\ Shrinks
  BY DEF HaTyped, Shrinks

LEMMA HaCleared ==
    ASSUME HaTyped, NEW i \in Ids, ha' = [ha EXCEPT ![i] = Nothing]
    PROVE  HaTyped' /\ Shrinks /\ ha'[i].by = NoOne
<1>1. /\ Nothing \in [by : Resources \cup {NoOne}, value : 0 .. MaxEdits, on : BOOLEAN]
      /\ Nothing.by = NoOne
  BY ConstantsAssumption DEF Nothing
<1> QED  BY <1>1 DEF HaTyped, Shrinks

LEMMA HaSwitched ==
    ASSUME HaTyped, NEW i \in Ids, ha' = [ha EXCEPT ![i].on = FALSE]
    PROVE  HaTyped' /\ Shrinks
  BY DEF HaTyped, Shrinks

LEMMA HaPosted ==
    ASSUME HaTyped, NEW i \in Ids, NEW r \in Resources, NEW v \in 1 .. MaxEdits,
           ha' = [ha EXCEPT ![i] = [@ EXCEPT !.by = r, !.value = v]]
    PROVE  HaTyped' /\ ha'[i].by = r /\ \A id \in Ids \ {i} : ha'[id] = ha[id]
<1>1. v \in 0 .. MaxEdits
  OBVIOUS
<1>2. [ha[i] EXCEPT !.by = r, !.value = v] \in [by : Resources \cup {NoOne}, value : 0 .. MaxEdits, on : BOOLEAN]
      /\ [ha[i] EXCEPT !.by = r, !.value = v].by = r
  BY <1>1 DEF HaTyped
<1> QED  BY <1>2 DEF HaTyped

-----------------------------------------------------------------------------
(* The invariant.                                                           *)

\* A cached copy lies between what the status records and the resource, and one of the same
\* generation as the resource has its ID; so does what the reconcile pushes.
Aging ==
    \A r \in Resources :
        /\ cr[r].hash <= cached[r].value /\ cached[r].value <= cr[r].value
        /\ cached[r].phase # "absent" /\ cached[r].value = cr[r].value => cached[r].id = cr[r].id
Pushing ==
    Busy => /\ cr[cur].hash <= pushed.value /\ pushed.value <= cached[cur].value
            /\ pushed.value = cr[cur].value => pushed.id = cr[cur].id
\* Home Assistant has a resource under the ID of its annotation only, and under the one
\* that is about to be annotated.
Known ==
    \A r \in Resources \ lost : \A id \in Ids :
        ha[id].by = r => id = cr[r].applied \/ (pc = "Annotate" /\ cur = r /\ id = mine.id)
\* A previous ID is given up before the new one is used.
Unrenamed ==
    pc \in {"Push", "Annotate"} /\ cur \notin lost /\ Renamed(mine) => ha[mine.applied].by # cur
\* The status is written after the annotation.
Noted == pc \in {"Disable", "Report"} /\ cur \notin lost => cr[cur].applied = pushed.id
\* A recorded content was pushed under the ID it has.
Agreed ==
    \A r \in Resources \ lost :
        cr[r].phase = "live" /\ cr[r].hash = cr[r].value => cr[r].applied = cr[r].id
IInv == Base /\ Aging /\ Pushing /\ Known /\ Unrenamed /\ Noted /\ Agreed

\* The parts a light step keeps.
LEMMA LightAging == ASSUME Aging, Light PROVE Aging'
  BY DEF Aging, Light, Alike

LEMMA LightAgreed == ASSUME Agreed, Light, lost \subseteq lost' PROVE Agreed'
  BY DEF Agreed, Light, Alike

LEMMA LightPushing ==
    ASSUME Base, Pushing, Light, Idle \/ (Busy /\ UNCHANGED <<cur, pushed>>) PROVE Pushing'
<1>1. CASE Idle
  BY <1>1 DEF Idle, Pushing, Busy
<1>2. CASE Busy /\ UNCHANGED <<cur, pushed>>
  BY <1>2 DEF Pushing, Busy, Light, Alike, Base, Running
<1> QED  BY <1>1, <1>2

LEMMA LightKnown ==
    ASSUME Known, Light, HaTyped, Shrinks, lost \subseteq lost',
           \/ pc # "Annotate"
           \/ cur \in lost'
           \/ UNCHANGED <<pc, cur, mine>>
    PROVE  Known'
<1> SUFFICES ASSUME NEW r \in Resources \ lost', NEW id \in Ids, ha'[id].by = r
             PROVE  (id = cr[r].applied \/ (pc = "Annotate" /\ cur = r /\ id = mine.id))'
  BY DEF Known
<1>1. r # NoOne /\ cr'[r].applied = cr[r].applied
  BY ConstantsAssumption DEF NoOne, Light, Alike
<1>2. ha[id].by = r
  BY <1>1 DEF Shrinks
<1> QED  BY <1>1, <1>2 DEF Known

LEMMA IdleRest == ASSUME Idle PROVE Unrenamed' /\ Noted'
  BY DEF Idle, Unrenamed, Noted

\* A light step that ends the reconcile keeps the whole.
LEMMA LightIdle ==
    ASSUME IInv, Light, ObjectTyped', Idle, HaTyped', Shrinks, RestTyped', lost \subseteq lost',
           pc # "Annotate" \/ cur \in lost'
    PROVE  IInv'
<1>1. Base'
  BY LightAbsent, IdleTyped, IdleRunning, BaseKept DEF IInv, Base
<1>2. Aging' /\ Pushing' /\ Agreed' /\ Known'
  BY LightAging, LightPushing, LightAgreed, LightKnown DEF IInv, Base
<1> QED  BY <1>1, <1>2, IdleRest DEF IInv

\* And so does one that moves on, if the parts about the reconcile hold after it.
LEMMA LightMove ==
    ASSUME IInv, UNCHANGED object, MovesOn, pc' \in {"Push", "Annotate"} => pc \in {"Unrename", "Push"},
           HaTyped', RestTyped', lost \subseteq lost', Known', Unrenamed', Noted'
    PROVE  IInv'
<1>1. Light /\ ObjectTyped'
  BY LightStutter DEF IInv, Base
<1>2. Base'
  BY <1>1, LightAbsent, MovesOnRunning, BaseKept DEF IInv, Base
<1>3. Aging' /\ Pushing' /\ Agreed'
  BY <1>1, LightAging, LightPushing, LightAgreed DEF IInv, Base, MovesOn
<1> QED  BY <1>2, <1>3 DEF IInv

-----------------------------------------------------------------------------
(* The steps of the reconcile.                                              *)

LEMMA StartStep == ASSUME IInv, kind' = kind, NEW r \in Resources, Start(r) PROVE IInv'
<1> DEFINE copy == cached[r]
<1>1. /\ pc = "Idle" /\ copy \in Copy /\ copy.phase \in {"live", "deleting"} /\ cr[r].phase # "absent"
      /\ UNCHANGED <<ha, down, lost>> /\ (fresh[r] => copy = cr[r])
  BY DEF Start, IInv, Base, ObjectTyped, Absent, Blank
<1>2. HaTyped' /\ Shrinks
  BY <1>1, HaSame DEF IInv, Base
<1>3. CASE /\ cur' = r /\ mine' = copy /\ valid' = fresh[r]
           /\ pushed' = [value |-> copy.value, id |-> copy.id]
           /\ pc' = IF copy.phase = "deleting" THEN "Remove"
                    ELSE IF ~copy.finalizer THEN "AddFinalizer"
                    ELSE IF Renamed(copy) THEN "Unrename" ELSE "Push"
           /\ UNCHANGED <<object, faults>>
  <2>1. Light /\ ObjectTyped' /\ UNCHANGED cr
    BY <1>3, LightStutter DEF IInv, Base, object
  <2>2. pc' \in {"Remove", "AddFinalizer", "Unrename", "Push"} /\ (pc' = "Unrename" => Renamed(copy))
        /\ (pc' = "Push" => ~Renamed(copy))
    BY <1>3
  <2>3. copy.value \in 1 .. MaxEdits /\ copy.value \in 0 .. MaxEdits /\ copy.id \in Ids
    BY <1>1, Fields
  <2>4. pushed'.value = copy.value /\ pushed'.id = copy.id /\ RunTyped'
    BY <1>1, <1>3, <2>2, <2>3 DEF RunTyped, Labels, IInv, Base, ObjectTyped
  <2>5. Running'
    BY <1>1, <1>3, <2>1, <2>2, <2>3, <2>4 DEF Running, Busy
  <2>6. Base'
    BY <1>1, <1>2, <1>3, <2>1, <2>4, <2>5, LightAbsent, BaseKept DEF IInv, Base, RestTyped
  <2>7. Aging' /\ Agreed' /\ Known'
    BY <1>1, <1>2, <2>1, LightAging, LightAgreed, LightKnown DEF IInv, Base
  <2>8. Pushing'
    <3>1. cr[r].hash <= copy.value /\ (copy.value = cr[r].value => copy.id = cr[r].id)
      BY <1>1 DEF IInv, Aging
    <3>2. copy.value <= cached'[r].value
      BY <1>1, <1>3, Fields DEF object
    <3> QED  BY <1>3, <2>1, <2>4, <3>1, <3>2 DEF Pushing
  <2>9. Unrenamed' /\ Noted'
    BY <1>3, <2>2 DEF Unrenamed, Noted, Renamed
  <2> QED  BY <2>6, <2>7, <2>8, <2>9 DEF IInv
<1>4. CASE /\ copy.phase = "live" /\ copy.finalizer /\ Spend /\ Idle
           /\ IF fresh[r] THEN Put(r, Failed(copy, "noToken")) ELSE UNCHANGED object
  <2>1. RestTyped'
    BY <1>1, <1>4, SpendTyped DEF IInv, Base, RestTyped
  <2>2. Light /\ ObjectTyped'
    <3>1. CASE fresh[r]
      <4>1. Failed(copy, "noToken") \in Copy /\ Alike(copy, Failed(copy, "noToken"))
        BY <1>1 DEF Failed, Copy, Alike
      <4> QED  BY <1>1, <1>4, <3>1, <4>1, LightPut DEF Puts, IInv, Base
    <3>2. CASE ~fresh[r]
      BY <1>4, <3>2, LightStutter DEF IInv, Base
    <3> QED  BY <3>1, <3>2
  <2> QED  BY <1>1, <1>2, <1>4, <2>1, <2>2, LightIdle
<1> QED  BY <1>3, <1>4 DEF Start, NeedsPush

LEMMA AddFinalizerStep == ASSUME IInv, kind' = kind, AddFinalizer PROVE IInv'
<1> DEFINE copy == [mine EXCEPT !.finalizer = TRUE]
<1>1. pc = "AddFinalizer" /\ Busy /\ UpdateObject(copy) /\ UNCHANGED <<ha, down, lost>>
  BY DEF AddFinalizer, Busy
<1>2. copy \in Copy /\ (valid => Alike(mine, copy))
  BY <1>1 DEF IInv, Base, RunTyped, Running, Copy, Alike
<1>3. Light /\ ObjectTyped' /\ Idle /\ faults' \in 0 .. MaxFaults
  BY <1>1, <1>2, UpdateLight DEF IInv
<1> QED  BY <1>1, <1>3, HaSame, LightIdle DEF IInv, Base, RestTyped

LEMMA FinalizeStep == ASSUME IInv, kind' = kind, Finalize PROVE IInv'
<1> DEFINE copy == [mine EXCEPT !.finalizer = FALSE, !.phase = "gone"]
<1>1. pc = "Finalize" /\ Busy /\ UpdateObject(copy) /\ UNCHANGED <<ha, down, lost>>
  BY DEF Finalize, Busy
<1>2. copy \in Copy /\ (valid => Alike(mine, copy))
  BY <1>1 DEF IInv, Base, RunTyped, Running, Copy, Alike
<1>3. Light /\ ObjectTyped' /\ Idle /\ faults' \in 0 .. MaxFaults
  BY <1>1, <1>2, UpdateLight DEF IInv
<1> QED  BY <1>1, <1>3, HaSame, LightIdle DEF IInv, Base, RestTyped

\* A history that grows by the resource of the reconcile.
LEMMA LostCur ==
    ASSUME Base, Busy, kind' = kind, lost' = lost \cup {cur}, UNCHANGED down, faults' \in 0 .. MaxFaults
    PROVE  RestTyped' /\ lost \subseteq lost' /\ cur \in lost'
  BY DEF Base, Running, RestTyped

LEMMA UnrenameStep == ASSUME IInv, kind' = kind, Unrename PROVE IInv'
<1>1. pc = "Unrename" /\ Busy /\ MovesOn /\ pc' = "Push" /\ UNCHANGED <<object, down>> /\ Renamed(mine)
  BY DEF Unrename, Busy, MovesOn, Goto, Labels, object, IInv, Base, Running
<1>2. mine.applied \in Ids /\ cur \in Resources /\ cur # NoOne
  BY <1>1, ConstantsAssumption DEF Renamed, IInv, Base, RunTyped, Running, Copy, NoOne
<1>3. Noted' /\ cur' = cur /\ mine' = mine
  BY <1>1 DEF Noted, MovesOn
<1>4. Light
  BY <1>1, LightStutter DEF IInv, Base
<1>5. CASE ~down /\ ha' = [ha EXCEPT ![mine.applied] = Nothing] /\ UNCHANGED <<lost, faults>>
  <2>1. HaTyped' /\ Shrinks /\ ha'[mine.applied].by = NoOne
    BY <1>2, <1>5, HaCleared DEF IInv, Base
  <2>2. Unrenamed'
    BY <1>2, <1>3, <2>1 DEF Unrenamed
  <2>3. Known'
    BY <1>1, <1>4, <1>5, <2>1, LightKnown DEF IInv, Base
  <2> QED  BY <1>1, <1>3, <1>5, <2>1, <2>2, <2>3, LightMove DEF IInv, Base, RestTyped
<1>6. CASE Failure /\ lost' = lost \cup {cur} /\ UNCHANGED ha
  <2>1. HaTyped' /\ Shrinks /\ RestTyped' /\ lost \subseteq lost' /\ cur \in lost'
    BY <1>1, <1>6, HaSame, FailureTyped, LostCur DEF IInv, Base, RestTyped
  <2>2. Unrenamed'
    BY <1>3, <2>1 DEF Unrenamed
  <2>3. Known'
    BY <1>1, <1>4, <2>1, LightKnown DEF IInv, Base
  <2> QED  BY <1>1, <1>3, <2>1, <2>2, <2>3, LightMove
<1> QED  BY <1>5, <1>6 DEF Unrename

LEMMA PushStep == ASSUME IInv, kind' = kind, Push PROVE IInv'
<1>1. pc = "Push" /\ Busy /\ UNCHANGED down /\ cur \in Resources /\ cur # NoOne /\ mine \in Copy
  BY ConstantsAssumption DEF Push, Busy, IInv, Base, Running, RunTyped, NoOne
<1>2. mine.id \in Ids /\ mine.value \in 1 .. MaxEdits
  BY <1>1, Fields
<1>3. CASE /\ ha' = [ha EXCEPT ![mine.id] = [@ EXCEPT !.by = cur, !.value = mine.value]]
           /\ \/ Goto("Annotate") /\ UNCHANGED <<object, lost, faults>>
              \/ Spend /\ Report("failed") /\ lost' = lost \cup {cur}
  <2>1. HaTyped' /\ ha'[mine.id].by = cur /\ \A id \in Ids \ {mine.id} : ha'[id] = ha[id]
    BY <1>1, <1>2, <1>3, HaPosted DEF IInv, Base
  <2>2. CASE Goto("Annotate") /\ UNCHANGED <<object, lost, faults>>
    <3>1. MovesOn /\ pc' = "Annotate" /\ cur' = cur /\ mine' = mine /\ UNCHANGED <<object, cr, lost>>
      BY <1>1, <2>2 DEF Goto, MovesOn, object, Labels
    <3>2. Known'
      <4> SUFFICES ASSUME NEW r \in Resources \ lost, NEW id \in Ids, ha'[id].by = r
                   PROVE  id = cr[r].applied \/ (cur = r /\ id = mine.id)
        BY <3>1 DEF Known
      <4>1. CASE id = mine.id
        BY <2>1, <4>1
      <4>2. CASE id # mine.id
        BY <1>1, <2>1, <4>2 DEF IInv, Known
      <4> QED  BY <4>1, <4>2
    <3>3. Unrenamed'
      <4> SUFFICES ASSUME cur \notin lost, Renamed(mine) PROVE ha'[mine.applied].by # cur
        BY <3>1 DEF Unrenamed
      <4>1. mine.applied \in Ids \ {mine.id}
        BY <1>1, Fields DEF Renamed
      <4> QED  BY <1>1, <2>1, <4>1 DEF IInv, Unrenamed
    <3>4. Noted'
      BY <3>1 DEF Noted
    <3> QED  BY <1>1, <2>1, <2>2, <3>1, <3>2, <3>3, <3>4, LightMove DEF IInv, Base, RestTyped
  <2>3. CASE Spend /\ Report("failed") /\ lost' = lost \cup {cur}
    <3>1. RestTyped' /\ lost \subseteq lost' /\ cur \in lost'
      BY <1>1, <2>3, SpendTyped, LostCur DEF IInv, Base, RestTyped
    <3>2. Light /\ ObjectTyped' /\ Idle
      BY <1>1, <2>3, ReportLight DEF IInv
    <3>3. Base'
      BY <2>1, <3>1, <3>2, LightAbsent, IdleTyped, IdleRunning, BaseKept DEF IInv, Base
    <3>4. Aging' /\ Pushing' /\ Agreed'
      BY <3>1, <3>2, LightAging, LightPushing, LightAgreed DEF IInv, Base
    <3>5. Known'
      <4> SUFFICES ASSUME NEW r \in Resources \ lost', NEW id \in Ids, ha'[id].by = r
                   PROVE  id = cr'[r].applied
        BY DEF Known
      <4>1. ha'[id] = ha[id] /\ r \notin lost
        BY <2>1, <3>1
      <4> QED  BY <1>1, <3>2, <4>1 DEF IInv, Known, Light, Alike
    <3> QED  BY <3>2, <3>3, <3>4, <3>5, IdleRest DEF IInv
  <2> QED  BY <1>3, <2>2, <2>3
<1>4. CASE Failure /\ Report("failed") /\ UNCHANGED <<ha, lost>>
  <2>1. Light /\ ObjectTyped' /\ Idle
    BY <1>1, <1>4, ReportLight DEF IInv
  <2>2. RestTyped' /\ HaTyped' /\ Shrinks
    BY <1>1, <1>4, FailureTyped, HaSame DEF IInv, Base, RestTyped
  <2> QED  BY <1>1, <1>4, <2>1, <2>2, LightIdle
<1> QED  BY <1>3, <1>4 DEF Push

LEMMA SettleRange == ASSUME NEW c PROVE Settle(c) \in {"Disable", "Report"}
  BY DEF Settle

LEMMA AnnotatedFields ==
    ASSUME Base, pc = "Annotate"
    PROVE  /\ Annotated \in Copy /\ cr[cur] \in Copy
           /\ Annotated.applied = (IF mine.applied = mine.id THEN cr[cur].applied ELSE mine.id)
           /\ Annotated.id = cr[cur].id /\ Annotated.value = cr[cur].value
           /\ Annotated.hash = cr[cur].hash /\ Annotated.phase = cr[cur].phase
<1>1. cr[cur] \in Copy /\ mine \in Copy
  BY DEF Base, Running, Busy, ObjectTyped, RunTyped
<1> QED  BY <1>1 DEF Annotated, Copy

\* The patch: the resource has the annotation, and the reconcile a current copy.
LEMMA PatchStep ==
    ASSUME IInv, kind' = kind, pc = "Annotate", Put(cur, Annotated), mine' = Annotated, valid' = TRUE,
           pc' = Settle(Annotated), lost' = lost \cup Forgotten,
           UNCHANGED <<cur, pushed, faults, ha, down>>
    PROVE  IInv'
<1>1. /\ Busy /\ cur \in Resources /\ cr[cur].phase # "absent" /\ mine \in Copy
      /\ pushed.value = mine.value /\ pushed.id = mine.id /\ pushed.value \in 1 .. MaxEdits
      /\ cr[cur] \in Copy /\ cur # NoOne
  BY ConstantsAssumption DEF Busy, IInv, Base, Running, RunTyped, ObjectTyped, NoOne
<1>2. /\ Annotated \in Copy
      /\ Annotated.applied = (IF mine.applied = mine.id THEN cr[cur].applied ELSE mine.id)
      /\ Annotated.id = cr[cur].id /\ Annotated.value = cr[cur].value
      /\ Annotated.hash = cr[cur].hash /\ Annotated.phase = cr[cur].phase
  BY AnnotatedFields DEF IInv
<1>3. /\ ObjectTyped' /\ cached' = cached /\ cr'[cur] = Annotated
      /\ \A q \in Resources \ {cur} : cr'[q] = cr[q]
  BY <1>1, <1>2, PutTyped DEF Puts, IInv, Base
<1>4. pc' \in {"Disable", "Report"}
  BY SettleRange
<1>5. lost \subseteq lost' /\ lost' \subseteq Resources
  BY <1>1 DEF Forgotten, IInv, Base, RestTyped
<1>6. ASSUME cur \notin lost'
      PROVE  /\ Annotated.applied = mine.id /\ cr[cur].applied \in {NoOne, mine.applied, mine.id}
             /\ cur \notin lost
  BY <1>6 DEF Forgotten
<1>7. Absent' /\ Running' /\ RunTyped'
  <2>1. RunTyped'
    BY <1>2, <1>4 DEF RunTyped, Labels, IInv, Base
  <2>2. Running'
    BY <1>1, <1>2, <1>3, <1>4 DEF Running, Busy, IInv, Base
  <2>3. Absent'
    BY <1>1, <1>2, <1>3 DEF Absent, IInv, Base
  <2> QED  BY <2>1, <2>2, <2>3
<1>8. Base'
  BY <1>3, <1>5, <1>7, BaseKept, HaSame DEF IInv, Base, RestTyped
<1>9. Aging'
  BY <1>2, <1>3 DEF IInv, Aging
<1>10. Pushing'
  BY <1>1, <1>2, <1>3 DEF IInv, Pushing
<1>11. Known'
  <2> SUFFICES ASSUME NEW r \in Resources \ lost', NEW id \in Ids, ha[id].by = r
               PROVE  id = cr'[r].applied
    BY DEF Known
  <2>1. id = cr[r].applied \/ (cur = r /\ id = mine.id)
    BY <1>5 DEF IInv, Known
  <2>2. CASE r # cur
    BY <1>3, <2>1, <2>2
  <2>3. CASE r = cur
    <3>1. CASE id = mine.id
      BY <1>3, <1>6, <2>3, <3>1
    <3>2. CASE id # mine.id
      <4>1. id = cr[cur].applied /\ id # NoOne
        BY <2>1, <2>3, <3>2, ConstantsAssumption DEF NoOne
      <4>2. id = mine.applied /\ Renamed(mine)
        BY <1>6, <2>3, <3>2, <4>1 DEF Renamed
      <4>3. ha[mine.applied].by # cur
        BY <1>6, <2>3, <4>2 DEF IInv, Unrenamed
      <4> QED  BY <2>3, <4>2, <4>3
    <3> QED  BY <3>1, <3>2
  <2> QED  BY <2>2, <2>3
<1>12. Unrenamed' /\ Noted'
  BY <1>1, <1>3, <1>4, <1>6 DEF Unrenamed, Noted
<1>13. Agreed'
  <2> SUFFICES ASSUME NEW r \in Resources \ lost', cr'[r].phase = "live", cr'[r].hash = cr'[r].value
               PROVE  cr'[r].applied = cr'[r].id
    BY DEF Agreed
  <2>1. CASE r # cur
    BY <1>3, <1>5, <2>1 DEF IInv, Agreed
  <2>2. CASE r = cur
    <3>1. cr[cur].hash = cr[cur].value /\ cr[cur].value \in Int /\ pushed.value \in Int
      BY <1>1, <1>2, <1>3, <2>2, Fields
    <3>2. cr[cur].hash <= pushed.value /\ pushed.value <= cached[cur].value
          /\ cached[cur].value <= cr[cur].value
          /\ (pushed.value = cr[cur].value => pushed.id = cr[cur].id)
      BY <1>1 DEF IInv, Pushing, Aging
    <3>3. cached[cur].value \in Int
      BY <1>1, Fields DEF IInv, Base, ObjectTyped
    <3>4. pushed.value = cr[cur].value
      BY <3>1, <3>2, <3>3
    <3> QED  BY <1>1, <1>2, <1>3, <1>6, <2>2, <3>2, <3>4
  <2> QED  BY <2>1, <2>2
<1> QED  BY <1>8, <1>9, <1>10, <1>11, <1>12, <1>13 DEF IInv

LEMMA AnnotateStep == ASSUME IInv, kind' = kind, Annotate PROVE IInv'
<1>1. pc = "Annotate" /\ Busy /\ UNCHANGED <<ha, down>>
  BY DEF Annotate, Busy
<1>2. CASE /\ Put(cur, Annotated) /\ mine' = Annotated /\ valid' = TRUE
           /\ pc' = Settle(Annotated) /\ lost' = lost \cup Forgotten
           /\ UNCHANGED <<cur, pushed, faults>>
  BY <1>1, <1>2, PatchStep
<1>3. CASE /\ IF Collides(cur, cr[cur].id) THEN UNCHANGED faults ELSE Spend
           /\ lost' = lost \cup {cur}
           /\ \/ IsScene /\ Report("failed")
              \/ ~IsScene /\ Goto(Settle(mine)) /\ UNCHANGED object
  <2>1. faults' \in 0 .. MaxFaults
    BY <1>3, SpendTyped DEF IInv, Base, RestTyped
  <2>2. RestTyped' /\ lost \subseteq lost' /\ cur \in lost' /\ HaTyped' /\ Shrinks
    BY <1>1, <1>3, <2>1, LostCur, HaSame DEF IInv, Base
  <2>3. CASE Report("failed")
    BY <1>1, <2>2, <2>3, ReportLight, LightIdle DEF IInv
  <2>4. CASE Goto(Settle(mine)) /\ UNCHANGED object
    <3>1. MovesOn /\ pc' \in {"Disable", "Report"} /\ cur' = cur
      BY <1>1, <2>4, SettleRange DEF Goto, MovesOn, object, Labels
    <3>2. Unrenamed' /\ Noted'
      BY <2>2, <3>1 DEF Unrenamed, Noted
    <3>3. Known'
      BY <2>2, <2>4, LightStutter, LightKnown DEF IInv, Base
    <3> QED  BY <2>2, <2>4, <3>1, <3>2, <3>3, LightMove
  <2> QED  BY <1>3, <2>3, <2>4
<1> QED  BY <1>2, <1>3 DEF Annotate

LEMMA DisableStep == ASSUME IInv, kind' = kind, Disable PROVE IInv'
<1>1. pc = "Disable" /\ MovesOn /\ pc' = "Report" /\ UNCHANGED <<object, down, lost>>
      /\ UNCHANGED <<cr, cur, pushed>>
  BY DEF Disable, Busy, MovesOn, Goto, Labels, object
<1>2. pushed.id \in Ids
  BY <1>1 DEF IInv, Base, Running, MovesOn
<1>3. HaTyped' /\ Shrinks
  BY <1>2, HaSwitched, HaSame DEF Disable, IInv, Base
<1>4. RestTyped'
  BY <1>1, FailureTyped DEF Disable, IInv, Base, RestTyped
<1>5. Known'
  BY <1>1, <1>3, LightStutter, LightKnown DEF IInv, Base
<1>6. Unrenamed' /\ Noted'
  BY <1>1 DEF IInv, Unrenamed, Noted
<1> QED  BY <1>1, <1>3, <1>4, <1>5, <1>6, LightMove

LEMMA RemoveStep == ASSUME IInv, kind' = kind, Remove PROVE IInv'
<1>1. pc = "Remove" /\ Busy /\ MovesOn /\ pc' = "Finalize" /\ UNCHANGED <<object, down>>
  BY DEF Remove, Busy, MovesOn, Goto, Labels, object, AfterRemoval
<1>2. mine.id \in Ids
  BY Fields DEF IInv, Base, RunTyped
<1>3. HaTyped' /\ Shrinks
  BY <1>2, HaCleared, HaSame DEF Remove, IInv, Base
<1>4. RestTyped' /\ lost \subseteq lost'
  BY <1>1, FailureTyped, LostCur DEF Remove, IInv, Base, RestTyped
<1>5. Known'
  BY <1>1, <1>3, <1>4, LightStutter, LightKnown DEF IInv, Base
<1>6. Unrenamed' /\ Noted'
  BY <1>1 DEF Unrenamed, Noted
<1> QED  BY <1>1, <1>3, <1>4, <1>5, <1>6, LightMove

LEMMA SucceedStep == ASSUME IInv, kind' = kind, Succeed PROVE IInv'
<1> DEFINE copy == [mine EXCEPT !.hash = pushed.value, !.observed = mine.value, !.ready = TRUE,
                                !.reload = ReloadAfter(mine)]
<1>1. pc = "Report" /\ Busy /\ Idle /\ UNCHANGED <<ha, down, lost>> /\ HaTyped' /\ Shrinks
  BY HaSame DEF Succeed, Busy, IInv, Base
<1>2. CASE UNCHANGED object /\ (UNCHANGED faults \/ Spend)
  <2>1. RestTyped'
    BY <1>1, <1>2, SpendTyped DEF IInv, Base, RestTyped
  <2> QED  BY <1>1, <1>2, <2>1, LightStutter, LightIdle DEF IInv, Base
<1>3. CASE valid /\ UNCHANGED faults /\ Put(cur, copy)
  <2>1. /\ mine = cr[cur] /\ mine \in Copy /\ cur \in Resources /\ cr[cur].phase # "absent"
        /\ pushed.value \in 0 .. MaxEdits
    BY <1>1, <1>3 DEF IInv, Base, Running, RunTyped
  <2>2. ReloadAfter(mine) \in {"none", "ok", "failed", "noToken"} /\ mine.value \in 0 .. MaxEdits
    BY <2>1 DEF ReloadAfter, Copy
  <2>3. /\ copy \in Copy /\ copy.hash = pushed.value /\ copy.phase = cr[cur].phase
        /\ copy.id = cr[cur].id
        /\ copy.value = cr[cur].value /\ copy.applied = cr[cur].applied
    BY <2>1, <2>2 DEF Copy
  <2> HIDE DEF copy
  <2>4. /\ ObjectTyped' /\ cached' = cached /\ cr'[cur] = copy
        /\ \A q \in Resources \ {cur} : cr'[q] = cr[q]
    BY <1>3, <2>1, <2>3, PutTyped DEF Puts, IInv, Base
  <2>5. cr[cur].hash <= pushed.value /\ pushed.value <= cached[cur].value
        /\ (pushed.value = cr[cur].value => pushed.id = cr[cur].id)
    BY <1>1 DEF IInv, Pushing
  <2>6. Absent'
    BY <2>1, <2>3, <2>4 DEF IInv, Base, Absent
  <2>7. Base'
    BY <1>1, <1>3, <2>4, <2>6, IdleTyped, IdleRunning, BaseKept DEF IInv, Base, RestTyped
  <2>8. Aging'
    BY <2>3, <2>4, <2>5 DEF IInv, Aging
  <2>9. Pushing'
    BY <1>1, IdleTyped DEF Pushing
  <2>10. Known'
    BY <1>1, <2>3, <2>4 DEF IInv, Known
  <2>11. Agreed'
    BY <1>1, <2>3, <2>4, <2>5 DEF IInv, Agreed, Noted
  <2> QED  BY <1>1, <2>7, <2>8, <2>9, <2>10, <2>11, IdleRest DEF IInv
<1> QED  BY <1>2, <1>3 DEF Succeed

-----------------------------------------------------------------------------
(* Users, the cache, failures.                                              *)

\* The reconcile's own state under a step of a user on resource r.
Aside(r) == UNCHANGED <<pc, cur, mine, pushed, ha, down, lost>> /\ valid' = (valid /\ cur # r)

\* What a user's step on a resource keeps; the rest is about the resource itself.
LEMMA AsideBase ==
    ASSUME IInv, kind' = kind, NEW r \in Resources, NEW copy, Puts(r, copy), Aside(r),
           faults' \in 0 .. MaxFaults, copy.phase # "absent"
    PROVE  Base' /\ cr'[r] = copy /\ cached' = cached /\ \A q \in Resources \ {r} : cr'[q] = cr[q]
<1>1. ObjectTyped' /\ cached' = cached /\ cr'[r] = copy /\ \A q \in Resources \ {r} : cr'[q] = cr[q]
  BY PutTyped DEF IInv, Base
<1>2. RunTyped' /\ HaTyped' /\ RestTyped'
  BY DEF Aside, RunTyped, HaTyped, RestTyped, IInv, Base
<1>3. Absent'
  BY <1>1 DEF Absent, IInv, Base
<1>4. Running'
  BY <1>1 DEF Aside, Running, Busy, IInv, Base
<1> QED  BY <1>1, <1>2, <1>3, <1>4, BaseKept DEF IInv, Base

LEMMA CreateStep ==
    ASSUME IInv, kind' = kind, NEW r \in Resources, NEW id \in Ids, Create(r, id)
    PROVE  IInv'
<1> DEFINE copy == [Blank EXCEPT !.phase = "live", !.id = id]
<1>1. /\ cr[r] = Blank /\ cached[r] = Blank /\ cr[r].phase = "absent"
  BY DEF Create, IInv, Base, Absent
<1>2. Put(r, copy) /\ Aside(r) /\ faults' \in 0 .. MaxFaults
  BY SpendTyped DEF Create, Touch, Aside, IInv, Base, RestTyped
<1>3. /\ copy \in Copy /\ copy.phase = "live" /\ copy.value = 1 /\ copy.hash = 0 /\ copy.applied = NoOne
      /\ Blank.value = 1 /\ Blank.applied = NoOne /\ Blank.phase = "absent"
  BY BlankTyped DEF Blank, Copy
<1> HIDE DEF copy
<1>4. Base' /\ cr'[r] = copy /\ cached' = cached /\ \A q \in Resources \ {r} : cr'[q] = cr[q]
  BY <1>2, <1>3, AsideBase DEF Puts
<1>5. Busy => cur # r
  BY <1>1 DEF IInv, Base, Running
<1>6. Aging'
  BY <1>1, <1>3, <1>4 DEF IInv, Aging
<1>7. Pushing'
  BY <1>2, <1>4, <1>5 DEF IInv, Pushing, Busy, Aside, Base, Running
<1>8. Known'
  <2> SUFFICES ASSUME NEW q \in Resources \ lost, NEW i \in Ids, ha[i].by = q
               PROVE  i = cr'[q].applied \/ (pc = "Annotate" /\ cur = q /\ i = mine.id)
    BY <1>2 DEF Known, Aside
  <2>1. i = cr[q].applied \/ (pc = "Annotate" /\ cur = q /\ i = mine.id)
    BY DEF IInv, Known
  <2> QED  BY <1>1, <1>3, <1>4, <2>1
<1>9. Unrenamed' /\ Noted'
  BY <1>2, <1>4, <1>5 DEF IInv, Unrenamed, Noted, Aside, Busy, Base, Running
<1>10. Agreed'
  BY <1>2, <1>3, <1>4 DEF IInv, Agreed, Aside
<1> QED  BY <1>4, <1>6, <1>7, <1>8, <1>9, <1>10 DEF IInv

LEMMA EditStep ==
    ASSUME IInv, kind' = kind, NEW r \in Resources, NEW id \in Ids, Edit(r, id)
    PROVE  IInv'
<1> DEFINE copy == [cr[r] EXCEPT !.value = @ + 1, !.id = id]
<1>1. cr[r] \in Copy /\ cr[r].phase = "live" /\ cr[r].value < MaxEdits /\ cr[r].value \in Int
      /\ cr[r].hash \in Int /\ cached[r].value \in Int
  BY Fields DEF Edit, IInv, Base, ObjectTyped
<1>2. Put(r, copy) /\ Aside(r) /\ faults' \in 0 .. MaxFaults
  BY SpendTyped DEF Edit, Touch, Aside, IInv, Base, RestTyped
<1>3. cr[r].value + 1 \in 1 .. MaxEdits
  BY <1>1, Fields, ConstantsAssumption
<1>4. /\ copy \in Copy /\ copy.phase = "live" /\ copy.value = cr[r].value + 1 /\ copy.hash = cr[r].hash
      /\ copy.applied = cr[r].applied
  BY <1>1, <1>3 DEF Copy
<1> HIDE DEF copy
<1>5. Base' /\ cr'[r] = copy /\ cached' = cached /\ \A q \in Resources \ {r} : cr'[q] = cr[q]
  BY <1>2, <1>4, AsideBase DEF Puts
<1>6. cr[r].hash <= cached[r].value /\ cached[r].value <= cr[r].value
  BY DEF IInv, Aging
<1>7. Aging'
  <2>1. cached[r].value <= cr[r].value + 1 /\ cached[r].value # cr[r].value + 1
    BY <1>1, <1>6
  <2> QED  BY <1>4, <1>5, <1>6, <2>1 DEF IInv, Aging
<1>8. Pushing'
  <2> SUFFICES ASSUME Busy PROVE (cr[cur].hash <= pushed.value /\ pushed.value <= cached[cur].value)'
                 /\ (pushed.value = cr'[cur].value => pushed.id = cr'[cur].id)
    BY <1>2 DEF Pushing, Busy, Aside
  <2>1. cr[cur].hash <= pushed.value /\ pushed.value <= cached[cur].value
        /\ (pushed.value = cr[cur].value => pushed.id = cr[cur].id)
        /\ cur \in Resources /\ pushed.value \in Int
    BY DEF IInv, Pushing, Base, Running
  <2>2. CASE cur # r
    BY <1>2, <1>5, <2>1, <2>2 DEF Aside
  <2>3. CASE cur = r
    <3>1. pushed.value # cr[r].value + 1
      BY <1>1, <1>6, <2>1, <2>3
    <3> QED  BY <1>2, <1>4, <1>5, <2>1, <2>3, <3>1 DEF Aside
  <2> QED  BY <2>2, <2>3
<1>9. Known'
  BY <1>2, <1>4, <1>5 DEF IInv, Known, Aside
<1>10. Unrenamed' /\ Noted'
  BY <1>2, <1>4, <1>5 DEF IInv, Unrenamed, Noted, Aside, Busy, Base, Running
<1>11. Agreed'
  <2>1. cr[r].hash # cr[r].value + 1
    BY <1>1, <1>6
  <2> QED  BY <1>2, <1>4, <1>5, <2>1 DEF IInv, Agreed, Aside
<1> QED  BY <1>5, <1>7, <1>8, <1>9, <1>10, <1>11 DEF IInv

LEMMA DeleteStep == ASSUME IInv, kind' = kind, NEW r \in Resources, Delete(r) PROVE IInv'
<1> DEFINE copy == [cr[r] EXCEPT !.phase = IF cr[r].finalizer THEN "deleting" ELSE "gone"]
<1>1. cr[r] \in Copy /\ cr[r].phase = "live" /\ Put(r, copy) /\ Aside(r) /\ faults' \in 0 .. MaxFaults
  BY DEF Delete, Aside, IInv, Base, ObjectTyped, RestTyped
<1>2. copy \in Copy /\ Alike(cr[r], copy) /\ copy.phase # "absent"
  BY <1>1 DEF Copy, Alike
<1> HIDE DEF copy
<1>3. Base' /\ Light
  BY <1>1, <1>2, AsideBase, LightPut DEF Puts, IInv, Base
<1>4. Aging' /\ Agreed' /\ UNCHANGED <<pc, cur, mine, pushed, ha, lost>>
  BY <1>1, <1>3, LightAging, LightAgreed DEF IInv, Aside
<1>5. Pushing'
  BY <1>3, <1>4 DEF IInv, Pushing, Busy, Light, Alike, Base, Running
<1>6. Known' /\ Unrenamed'
  BY <1>3, <1>4 DEF IInv, Known, Unrenamed, Light, Alike
<1>7. Noted'
  BY <1>3, <1>4 DEF IInv, Noted, Light, Alike, Base, Running, Busy
<1> QED  BY <1>3, <1>4, <1>5, <1>6, <1>7 DEF IInv

LEMMA ObserveStep == ASSUME IInv, kind' = kind, NEW r \in Resources, Observe(r) PROVE IInv'
<1>1. /\ UNCHANGED <<cr, pc, cur, mine, valid, pushed, ha, down, lost, faults>>
      /\ cached' = [cached EXCEPT ![r] = cr[r]] /\ fresh' = [fresh EXCEPT ![r] = TRUE]
  BY DEF Observe, run
<1>2. ObjectTyped' /\ cached'[r] = cr[r] /\ \A q \in Resources \ {r} : cached'[q] = cached[q]
  BY <1>1 DEF IInv, Base, ObjectTyped
<1>3. cr[r].hash \in Int /\ cr[r].value \in Int /\ cached[r].value \in Int
      /\ cr[r].hash <= cached[r].value /\ cached[r].value <= cr[r].value
  BY Fields DEF IInv, Base, ObjectTyped, Aging
<1>4. cr[r].hash <= cr[r].value /\ cr[r].value <= cr[r].value
  BY <1>3
<1>5. Base'
  BY <1>1, <1>2 DEF IInv, Base, RunTyped, HaTyped, RestTyped, Running, Busy, Absent
<1>6. Aging'
  BY <1>1, <1>2, <1>4 DEF IInv, Aging
<1>7. Pushing'
  <2> SUFFICES ASSUME Busy PROVE pushed.value <= cached'[cur].value
    BY <1>1 DEF IInv, Pushing, Busy
  <2>1. pushed.value <= cached[cur].value /\ cur \in Resources /\ pushed.value \in Int
    BY DEF IInv, Pushing, Base, Running
  <2>2. cur = r => pushed.value <= cr[r].value
    BY <1>3, <2>1
  <2> QED  BY <1>2, <2>1, <2>2
<1>8. Known' /\ Unrenamed' /\ Noted' /\ Agreed'
  BY <1>1 DEF IInv, Known, Unrenamed, Noted, Agreed
<1> QED  BY <1>5, <1>6, <1>7, <1>8 DEF IInv

LEMMA OutsideStep ==
    ASSUME IInv, UNCHANGED <<object, run, lost, kind>>, HaTyped', Shrinks, RestTyped'
    PROVE  IInv'
<1>1. UNCHANGED <<cr, cached, fresh, pc, cur, mine, valid, pushed, lost>>
  BY DEF object, run
<1>2. Base'
  BY <1>1 DEF IInv, Base, ObjectTyped, RunTyped, Running, Busy, Absent
<1>3. Aging' /\ Pushing' /\ Noted' /\ Agreed'
  BY <1>1 DEF IInv, Aging, Pushing, Busy, Noted, Agreed
<1>4. Known'
  BY <1>1, LightStutter, LightKnown DEF IInv, Base
<1>5. Unrenamed'
  <2> SUFFICES ASSUME pc \in {"Push", "Annotate"}, cur \notin lost, Renamed(mine)
               PROVE  ha'[mine.applied].by # cur
    BY <1>1 DEF Unrenamed
  <2>1. mine.applied \in Ids /\ cur # NoOne
    BY ConstantsAssumption, Fields DEF Renamed, IInv, Base, RunTyped, Running, Busy, NoOne
  <2> QED  BY <2>1 DEF IInv, Unrenamed, Shrinks
<1> QED  BY <1>2, <1>3, <1>4, <1>5 DEF IInv

LEMMA DriftStep == ASSUME IInv, kind' = kind, NEW id \in Ids, Drift(id) PROVE IInv'
<1>1. HaTyped' /\ Shrinks /\ RestTyped'
  BY HaCleared, SpendTyped DEF Drift, IInv, Base, RestTyped
<1> QED  BY <1>1, OutsideStep DEF Drift

LEMMA GoDownStep == ASSUME IInv, kind' = kind, GoDown PROVE IInv'
<1>1. HaTyped' /\ Shrinks /\ RestTyped'
  BY HaSame DEF GoDown, IInv, Base, RestTyped
<1> QED  BY <1>1, OutsideStep DEF GoDown

LEMMA CrashStep == ASSUME IInv, kind' = kind, Crash PROVE IInv'
<1>1. Busy /\ Idle /\ UNCHANGED <<object, ha, down>> /\ faults' \in 0 .. MaxFaults
      /\ lost' = IF pc = "Annotate" THEN lost \cup {cur} ELSE lost
  BY SpendTyped DEF Crash, Busy, IInv, Base, RestTyped
<1>2. RestTyped' /\ lost \subseteq lost' /\ (pc # "Annotate" \/ cur \in lost')
  BY <1>1, LostCur DEF IInv, Base, RestTyped
<1> QED  BY <1>1, <1>2, HaSame, LightStutter, LightIdle DEF IInv, Base

-----------------------------------------------------------------------------
LEMMA InitInv == Init => IInv
<1> SUFFICES ASSUME Init PROVE IInv
  OBVIOUS
<1>1. /\ Blank.phase = "absent" /\ Blank.hash = 0 /\ Blank.value = 1 /\ Nothing.by = NoOne
      /\ NoOne \notin Resources
      /\ Nothing \in [by : Resources \cup {NoOne}, value : 0 .. MaxEdits, on : BOOLEAN]
  BY ConstantsAssumption DEF Blank, Nothing, NoOne
<1>2. \A r \in Resources : cr[r] = Blank /\ cached[r] = Blank
  BY DEF Init
<1>3. \A id \in Ids : ha[id] = Nothing
  BY DEF Init
<1>4. ~Busy /\ pc = "Idle" /\ ~valid
  BY DEF Init, Busy
<1>5. ObjectTyped /\ RunTyped
  BY BlankTyped DEF Init, ObjectTyped, RunTyped, Labels
<1>6. HaTyped /\ RestTyped
  <2>1. HaTyped
    BY <1>1 DEF Init, HaTyped
  <2>2. 0 \in 0 .. MaxFaults
    BY ConstantsAssumption
  <2> QED  BY <2>1, <2>2 DEF Init, RestTyped
<1>7. Base
  BY <1>2, <1>4, <1>5, <1>6 DEF Base, Running, Absent
<1>8. Aging /\ Pushing
  BY <1>1, <1>2, <1>4 DEF Aging, Pushing
<1>9. Known /\ Unrenamed /\ Noted /\ Agreed
  BY <1>1, <1>2, <1>3, <1>4 DEF Known, Unrenamed, Noted, Agreed
<1> QED  BY <1>7, <1>8, <1>9 DEF IInv

LEMMA NextInv == IInv /\ [Next]_vars => IInv'
<1> SUFFICES ASSUME IInv, [Next]_vars PROVE IInv'
  OBVIOUS
<1>1. CASE UNCHANGED vars
  BY <1>1, OutsideStep, HaSame DEF vars, object, run, IInv, Base, RestTyped
<1>2. CASE Next
  <2>1. kind' = kind
    BY <1>2 DEF Next
  <2>2. CASE Step
    BY <2>1, <2>2, AddFinalizerStep, UnrenameStep, PushStep, AnnotateStep, DisableStep, SucceedStep,
       RemoveStep, FinalizeStep DEF Step
  <2>3. CASE Environment
    BY <2>1, <2>3, CrashStep, GoDownStep, DeleteStep, CreateStep, EditStep, DriftStep DEF Environment
  <2>4. CASE \E r \in Resources : Start(r) \/ Observe(r)
    BY <2>1, <2>4, StartStep, ObserveStep
  <2> QED  BY <1>2, <2>2, <2>3, <2>4 DEF Next
<1> QED  BY <1>1, <1>2

LEMMA Invariant == Spec => []IInv
  BY InitInv, NextInv, PTL DEF Spec

\* The state of the entity controllers always has its type, for any number of resources, IDs,
\* edits and faults.
THEOREM TypeTheorem == Spec => []TypeOK
<1>1. IInv => TypeOK
  BY BaseTypeOK DEF IInv
<1> QED  BY <1>1, Invariant, PTL

\* A rename leaves no entity behind: a resource whose last content was pushed is in Home
\* Assistant under its own ID only, unless a previous ID was not recorded, or its entity could
\* not be removed.
THEOREM RenamesTheorem == Spec => []RenamesCleanedUp
<1>1. IInv => RenamesCleanedUp
  <2> SUFFICES ASSUME IInv, NEW r \in Resources, Settled(r), r \notin lost, NEW id \in Ids \ {cr[r].id}
               PROVE  ha[id].by # r
    BY DEF RenamesCleanedUp
  <2>1. cr[r].applied = cr[r].id /\ pc = "Idle"
    BY DEF Settled, IInv, Agreed
  <2> QED  BY <2>1 DEF IInv, Known
<1> QED  BY <1>1, Invariant, PTL

-----------------------------------------------------------------------------
(* Dashboards.  Their specification and that of the entities have nothing in   *)
(* common but the names of some variables.                                     *)

CONSTANTS Dashboards, Edited, Paths, DashEdits, DashFaults
VARIABLES seen, source, sourceSeen, queue, boards, w, disturbed, edits
Dash == INSTANCE Dashboard WITH Resources <- Dashboards, MaxEdits <- DashEdits,
                                MaxFaults <- DashFaults

-----------------------------------------------------------------------------
(* Types.                                                                   *)

Working == w.pc # "Idle"
Calls == {"AddFinalizer", "Source", "List", "Create", "Update", "Compare", "Save", "Done",
          "Status", "Remove", "Finalize"}
Runs == [pc : Calls, who : Dashboards, mine : Dash!Copy, valid : BOOLEAN, value : Dash!Values]
WorkerTyped == w = Dash!Idle \/ w \in Runs
CopiesTyped ==
    /\ cr \in [Dashboards -> Dash!Copy] /\ seen \in [Dashboards -> Dash!Copy]
    /\ fresh \in [Dashboards -> BOOLEAN]
    /\ \A r \in Dashboards : fresh[r] => seen[r] = cr[r]
OutsideTyped ==
    /\ {source, sourceSeen} \subseteq Dash!Values /\ queue \subseteq Dashboards
    /\ boards \subseteq Dash!Board
    /\ disturbed \subseteq Dashboards /\ lost \subseteq Dashboards
    /\ edits \in 0 .. DashEdits /\ faults \in 0 .. DashFaults
AllTyped == WorkerTyped /\ CopiesTyped /\ OutsideTyped

LEMMA RunFields ==
    ASSUME WorkerTyped, Working
    PROVE  /\ w \in Runs /\ w.pc \in Calls /\ w.who \in Dashboards /\ w.mine \in Dash!Copy
           /\ w.valid \in BOOLEAN
           /\ w.value \in Dash!Values
<1>1. Dash!Idle.pc = "Idle"
  BY DEF Dash!Idle
<1> QED  BY <1>1 DEF WorkerTyped, Working, Runs

LEMMA IdleWorker == ASSUME w' = Dash!Idle PROVE ~Working' /\ WorkerTyped'
  BY DEF Working, Dash!Idle, WorkerTyped

LEMMA AllTypedMeans == AllTyped => Dash!TypeOK
<1> SUFFICES ASSUME AllTyped PROVE Dash!TypeOK
  OBVIOUS
<1>1. w.pc # "Idle" => w.who \in Dashboards /\ w.mine \in Dash!Copy /\ w.value \in Dash!Values
  BY RunFields DEF AllTyped, Working
<1> QED  BY <1>1 DEF AllTyped, CopiesTyped, OutsideTyped, Dash!TypeOK

LEMMA CopyFields ==
    ASSUME Dash!ConstantsAssumption, NEW c \in Dash!Copy
    PROVE  /\ c.path \in Paths \cup {Dash!Default} /\ c.path # Dash!NoPath
           /\ c.id \in Paths \cup {Dash!Default, Dash!NoPath}
           /\ c.title \in {0, 1}
<1>1. Dash!Default # Dash!NoPath
  BY DEF Dash!Default, Dash!NoPath
<1> QED  BY <1>1 DEF Dash!Copy, Dash!ConstantsAssumption

LEMMA SpendCounts == ASSUME Dash!ConstantsAssumption, faults \in 0 .. DashFaults,
   Dash!Spend PROVE faults' \in 0 .. DashFaults
  BY DEF Dash!Spend, Dash!ConstantsAssumption
LEMMA FailureCounts == ASSUME Dash!ConstantsAssumption, faults \in 0 .. DashFaults,
   Dash!Failure PROVE faults' \in 0 .. DashFaults
  BY SpendCounts DEF Dash!Failure

\* A write to a resource.
LEMMA WriteTyped ==
    ASSUME CopiesTyped, NEW r \in Dashboards, NEW copy \in Dash!Copy, Dash!Put(r, copy)
    PROVE  /\ CopiesTyped' /\ seen' = seen /\ cr'[r] = copy
           /\ \A q \in Dashboards \ {r} : cr'[q] = cr[q]
<1>1. /\ cr' = [cr EXCEPT ![r] = copy] /\ fresh' = [fresh EXCEPT ![r] = fresh[r] /\ copy = cr[r]]
      /\ seen' = seen
  BY DEF Dash!Put
<1>2. cr'[r] = copy /\ \A q \in Dashboards \ {r} : cr'[q] = cr[q]
  BY <1>1 DEF CopiesTyped
<1>3. cr' \in [Dashboards -> Dash!Copy] /\ fresh' \in [Dashboards -> BOOLEAN]
  BY <1>1 DEF CopiesTyped
<1>4. \A q \in Dashboards : fresh'[q] => fresh[q] /\ cr'[q] = cr[q]
  BY <1>1, <1>2 DEF CopiesTyped
<1> QED  BY <1>1, <1>2, <1>3, <1>4 DEF CopiesTyped

LEMMA NoWrite ==
    ASSUME CopiesTyped, UNCHANGED Dash!object
    PROVE  CopiesTyped' /\ UNCHANGED <<cr, seen, fresh>>
  BY DEF CopiesTyped, Dash!object

\* The moves of a worker: the next call, with its copy as it is; the report of a failure.
LEMMA GotoTyped ==
    ASSUME w \in Runs, NEW label \in Calls, Dash!Goto(label)
    PROVE  /\ w' \in Runs /\ w'.pc = label /\ w'.who = w.who /\ w'.mine = w.mine /\ w'.valid = w.valid
           /\ w'.value = w.value
  BY DEF Dash!Goto, Runs

LEMMA ConcludedTyped ==
    ASSUME w \in Runs, NEW copy \in Dash!Copy,
           NEW ready \in {"unknown", "yes", "source", "conflict", "missing", "yaml", "failed"}
    PROVE  LET v == Dash!Concluded(copy, ready) IN
           /\ v \in Runs /\ v.pc = "Status" /\ v.who = w.who /\ v.valid = w.valid
           /\ v.mine.path = copy.path /\ v.mine.id = copy.id
<1>1. [copy EXCEPT !.ready = ready] \in Dash!Copy /\ [copy EXCEPT !.ready = ready].path = copy.path
      /\ [copy EXCEPT !.ready = ready].id = copy.id
  BY DEF Dash!Copy
<1> QED  BY <1>1 DEF Dash!Concluded, Runs, Calls

-----------------------------------------------------------------------------
(* The invariant.                                                           *)

\* As long as nobody changed its path or removed its dashboard, a resource and all copies of
\* it have one path, and an ID, where there is one, that is this path; the cached copy and a
\* reconcile with a current copy know no other ID than the resource.
Named ==
    \A r \in Dashboards \ disturbed :
        /\ seen[r].path = cr[r].path /\ cr[r].id \in {Dash!NoPath, cr[r].path}
        /\ seen[r].id \in {Dash!NoPath, cr[r].id}
        /\ Working /\ w.who = r =>
              /\ w.mine.path = cr[r].path /\ w.mine.id \in {Dash!NoPath, cr[r].path}
              /\ w.valid /\ cr[r].id # Dash!NoPath => w.mine.id = cr[r].id
\* A resource knows an ID, in its status or in the reconcile that is about to record it.
Holds(r) == cr[r].id # Dash!NoPath \/ (Working /\ w.who = r /\ w.mine.id # Dash!NoPath)
\* Then the dashboard is there, and its own.
Owned ==
    \A r \in Dashboards \ disturbed : cr[r].path # Dash!Default /\ Holds(r) =>
        Dash!At(cr[r].path) # {} /\ \A b \in Dash!At(cr[r].path) : b.by = r
\* A reconcile that is about to change a dashboard knows its ID, unless it is the default one.
Knows ==
    w.pc \in {"Update", "Compare", "Save", "Done", "Remove"} =>
        w.mine.id # Dash!NoPath \/ w.mine.path = Dash!Default
Kept == AllTyped /\ Named /\ Owned /\ Knows

\* The dashboards at each path are the same ones.
SameBoards ==
    /\ \A b \in boards : \E c \in boards' : c.path = b.path /\ c.by = b.by
    /\ \A c \in boards' : \E b \in boards : c.path = b.path /\ c.by = b.by

\* What a resource has at its path, before and after a step.
LEMMA SameOwned ==
    ASSUME NEW r, NEW p, SameBoards, Dash!At(p) # {}, \A b \in Dash!At(p) : b.by = r
    PROVE  Dash!At(p)' # {} /\ \A b \in Dash!At(p)' : b.by = r
<1>1. PICK b \in boards : b.path = p
  BY DEF Dash!At
<1>2. PICK c \in boards' : c.path = b.path
  BY <1>1 DEF SameBoards
<1>3. c \in Dash!At(p)'
  BY <1>1, <1>2 DEF Dash!At
<1>4. ASSUME NEW d \in Dash!At(p)' PROVE d.by = r
  <2>1. d \in boards' /\ d.path = p
    BY <1>4 DEF Dash!At
  <2>2. PICK e \in boards : d.path = e.path /\ d.by = e.by
    BY <2>1 DEF SameBoards
  <2>3. e \in Dash!At(p)
    BY <2>1, <2>2 DEF Dash!At
  <2> QED  BY <2>2, <2>3
<1> QED  BY <1>3, <1>4

LEMMA BoardsStay == ASSUME UNCHANGED boards PROVE SameBoards
  BY DEF SameBoards

\* The reconcile ends, goes on with what it knows, or learns the ID of the default dashboard.
Learns(v) ==
    /\ v.mine.path = w.mine.path
    /\ \/ v.mine.id = w.mine.id
       \/ w.mine.id = Dash!NoPath /\ w.mine.path = Dash!Default /\ v.mine.id = Dash!Default
GoesOn ==
    \/ w' = Dash!Idle
    \/ w' = w
    \/ w \in Runs /\ Working /\ w' \in Runs /\ w'.who = w.who /\ w'.valid = w.valid /\ Learns(w')

\* What such a step keeps by itself: no resource comes to know an ID, but of the default one.
LEMMA GoesOnMeans ==
    ASSUME Kept, UNCHANGED Dash!object, disturbed \subseteq disturbed', GoesOn
    PROVE  /\ CopiesTyped' /\ WorkerTyped' /\ UNCHANGED <<cr, seen, fresh>> /\ Named'
           /\ \A r \in Dashboards \ disturbed' : cr[r].path # Dash!Default /\ Holds(r)' => Holds(r)
<1>1. CopiesTyped' /\ UNCHANGED <<cr, seen, fresh>>
  BY NoWrite DEF Kept, AllTyped
<1>2. WorkerTyped'
  BY DEF GoesOn, WorkerTyped, Kept, AllTyped
<1>3. Working' => w' = w \/ (Working /\ w'.who = w.who /\ w'.valid = w.valid /\ Learns(w'))
  BY IdleWorker DEF GoesOn
<1>4. Named'
  <2> SUFFICES ASSUME NEW r \in Dashboards \ disturbed, Working', w'.who = r
               PROVE  /\ w'.mine.path = cr[r].path /\ w'.mine.id \in {Dash!NoPath, cr[r].path}
                      /\ w'.valid /\ cr[r].id # Dash!NoPath => w'.mine.id = cr[r].id
    BY <1>1 DEF Named, Kept
  <2>1. CASE w' = w
    BY <2>1 DEF Kept, Named, Working
  <2>2. CASE Working /\ w'.who = w.who /\ w'.valid = w.valid /\ Learns(w')
    BY <2>2 DEF Kept, Named, Learns
  <2> QED  BY <1>3, <2>1, <2>2
<1>5. ASSUME NEW r \in Dashboards \ disturbed', cr[r].path # Dash!Default, Holds(r)'
PROVE Holds(r)
  <2>1. CASE cr[r].id # Dash!NoPath
    BY <2>1 DEF Holds
  <2>2. CASE Working' /\ w'.who = r /\ w'.mine.id # Dash!NoPath
    <3>1. CASE w' = w
      BY <2>2, <3>1 DEF Holds, Working
    <3>2. CASE Working /\ w'.who = w.who /\ Learns(w')
      BY <1>5, <2>2, <3>2 DEF Holds, Learns, Kept, Named
    <3> QED  BY <1>3, <2>2, <3>1, <3>2
  <2> QED  BY <1>1, <1>5, <2>1, <2>2 DEF Holds
<1> QED  BY <1>1, <1>2, <1>4, <1>5

\* A step that writes to no resource, and changes of dashboards no more than title and value.
LEMMA GoesOnKept ==
    ASSUME Kept, UNCHANGED Dash!object, SameBoards, disturbed' = disturbed, GoesOn,
           OutsideTyped', Knows'
    PROVE  Kept'
<1>1. /\ CopiesTyped' /\ WorkerTyped' /\ UNCHANGED <<cr, seen, fresh>> /\ Named'
      /\ \A r \in Dashboards \ disturbed : cr[r].path # Dash!Default /\ Holds(r)' => Holds(r)
  BY GoesOnMeans
<1>2. Owned'
  <2> SUFFICES ASSUME NEW r \in Dashboards \ disturbed, cr[r].path # Dash!Default, Holds(r)'
               PROVE  Dash!At(cr[r].path)' # {} /\ \A b \in Dash!At(cr[r].path)' : b.by = r
    BY <1>1 DEF Owned
  <2>1. Dash!At(cr[r].path) # {} /\ \A b \in Dash!At(cr[r].path) : b.by = r
    BY <1>1 DEF Kept, Owned
  <2> QED  BY <1>1, <2>1, SameOwned
<1> QED  BY <1>1, <1>2 DEF Kept, AllTyped

\* A reconcile that ends by writing what it knows.
LEMMA WritesKept ==
    ASSUME Kept, Working, w.valid, w' = Dash!Idle, NEW copy \in Dash!Copy, Dash!Put(w.who,
           copy), OutsideTyped',
           UNCHANGED <<boards, disturbed>>, copy.path = w.mine.path,
           \/ copy.id = w.mine.id
           \/ w.mine.id = Dash!NoPath /\ w.mine.path = Dash!Default /\ copy.id = Dash!Default
    PROVE  Kept'
<1>1. w.who \in Dashboards /\ ~Working' /\ WorkerTyped'
  BY RunFields, IdleWorker DEF Kept, AllTyped
<1>2. /\ CopiesTyped' /\ seen' = seen /\ cr'[w.who] = copy
      /\ \A q \in Dashboards \ {w.who} : cr'[q] = cr[q]
  BY <1>1, WriteTyped DEF Kept, AllTyped
<1>3. ASSUME w.who \notin disturbed
      PROVE  /\ copy.path = cr[w.who].path /\ copy.id \in {Dash!NoPath, copy.path}
             /\ seen[w.who].path = copy.path /\ seen[w.who].id \in {Dash!NoPath, copy.id}
             /\ copy.path # Dash!Default /\ copy.id # Dash!NoPath => Holds(w.who)
  BY <1>1, <1>3 DEF Kept, Named, Holds
<1>4. Named'
  BY <1>1, <1>2, <1>3 DEF Kept, Named
<1>5. Owned'
  <2> SUFFICES ASSUME NEW r \in Dashboards \ disturbed, cr'[r].path # Dash!Default, Holds(r)'
               PROVE  Dash!At(cr[r].path)' # {} /\ \A b \in Dash!At(cr[r].path)' : b.by = r
    BY DEF Owned
  <2>1. cr'[r].path = cr[r].path /\ Holds(r)
    <3>1. CASE r = w.who
      BY <1>1, <1>2, <1>3, <3>1 DEF Holds
    <3>2. CASE r # w.who
      BY <1>1, <1>2, <3>2 DEF Holds
    <3> QED  BY <3>1, <3>2
  <2> QED  BY <2>1 DEF Kept, Owned, Dash!At
<1>6. Knows'
  BY <1>1 DEF Knows, Working
<1> QED  BY <1>1, <1>2, <1>4, <1>5, <1>6 DEF Kept, AllTyped

-----------------------------------------------------------------------------
(* The steps of the worker.                                                 *)

LEMMA WorkerFields ==
    ASSUME Kept, Working
    PROVE  w \in Runs /\ w.who \in Dashboards /\ w.mine \in Dash!Copy /\ w.value \in Dash!Values
  BY RunFields DEF Kept, AllTyped

LEMMA ConcludeGoesOn ==
    ASSUME Kept, Working, NEW ready \in {"unknown", "yes", "source", "conflict", "missing",
           "yaml", "failed"},
           w' = Dash!Concluded(w.mine, ready)
    PROVE  GoesOn /\ Knows'
<1>1. w \in Runs /\ w.mine \in Dash!Copy
  BY WorkerFields
<1> QED  BY <1>1, ConcludedTyped DEF GoesOn, Learns, Knows

LEMMA GotoGoesOn ==
    ASSUME Kept, Working, NEW label \in Calls, Dash!Goto(label)
    PROVE  GoesOn /\ w' \in Runs /\ w'.pc = label /\ w'.who = w.who /\ w'.mine = w.mine
<1>1. w \in Runs
  BY WorkerFields
<1> QED  BY <1>1, GotoTyped DEF GoesOn, Learns

LEMMA TakeKept == ASSUME Kept, NEW r \in Dashboards, Dash!Take(r) PROVE Kept'
<1> DEFINE copy == seen[r]
<1>1. /\ w.pc = "Idle" /\ copy \in Dash!Copy /\ queue' = queue \ {r} /\ ~Working
      /\ UNCHANGED <<Dash!object, Dash!map, Dash!ha, disturbed, lost, edits, faults>>
  BY DEF Dash!Take, Kept, AllTyped, CopiesTyped, Working
<1>2. /\ w' \in Runs /\ w'.who = r /\ w'.mine = copy /\ w'.valid = fresh[r]
      /\ (w'.pc = "Remove" => copy.id # Dash!NoPath)
      /\ w'.pc \notin {"Update", "Compare", "Save", "Done"}
  <2>1. fresh[r] \in BOOLEAN /\ 0 \in Dash!Values
    BY DEF Kept, AllTyped, CopiesTyped, Dash!Values
  <2> QED  BY <1>1, <2>1 DEF Dash!Take, Runs, Calls
<1>3. CopiesTyped' /\ UNCHANGED <<cr, seen, fresh, boards>>
  BY <1>1, NoWrite DEF Kept, AllTyped, Dash!ha
<1>4. OutsideTyped' /\ WorkerTyped'
  BY <1>1, <1>2, <1>3 DEF Kept, AllTyped, OutsideTyped, WorkerTyped, Dash!map
<1>5. fresh[r] => seen[r] = cr[r]
  BY DEF Kept, AllTyped, CopiesTyped
<1>6. Named'
  BY <1>1, <1>2, <1>3, <1>5 DEF Kept, Named
<1>7. Owned'
  BY <1>1, <1>2, <1>3 DEF Kept, Owned, Named, Holds, Dash!At
<1>8. Knows'
  BY <1>2 DEF Knows
<1> QED  BY <1>3, <1>4, <1>6, <1>7, <1>8 DEF Kept, AllTyped

\* An update of the resource that keeps its path and its ID.
LEMMA UpdateKept ==
    ASSUME Dash!ConstantsAssumption, Kept, Working, NEW copy \in Dash!Copy,
           copy.path = w.mine.path, copy.id = w.mine.id, Dash!Update(copy),
           UNCHANGED <<Dash!map, Dash!ha, disturbed, lost, edits>>
    PROVE  Kept'
<1>1. w' = Dash!Idle /\ GoesOn /\ Knows' /\ w.who \in Dashboards /\ UNCHANGED boards
  BY WorkerFields DEF Dash!Update, GoesOn, Knows, Dash!Idle, Dash!ha
<1>2. CASE w.valid /\ Dash!Put(w.who, copy) /\ UNCHANGED <<queue, faults>>
  <2>1. OutsideTyped'
    BY <1>1, <1>2 DEF Kept, AllTyped, OutsideTyped, Dash!map
  <2> QED  BY <1>1, <1>2, <2>1, WritesKept
<1>3. CASE /\ IF w.valid THEN Dash!Spend ELSE UNCHANGED faults
           /\ queue' = queue \cup {w.who} /\ UNCHANGED Dash!object
  <2>1. faults' \in 0 .. DashFaults
    BY <1>3, SpendCounts DEF Kept, AllTyped, OutsideTyped
  <2>2. OutsideTyped'
    BY <1>1, <1>3, <2>1 DEF Kept, AllTyped, OutsideTyped, Dash!map
  <2> QED  BY <1>1, <1>3, <2>2, BoardsStay, GoesOnKept
<1> QED  BY <1>2, <1>3 DEF Dash!Update

LEMMA AddFinalizerKept == ASSUME Dash!ConstantsAssumption, Kept, Dash!AddFinalizer PROVE Kept'
<1>1. Working /\ w.mine \in Dash!Copy
  BY WorkerFields DEF Dash!AddFinalizer, Working
<1>2. [w.mine EXCEPT !.fin = TRUE] \in Dash!Copy /\ [w.mine EXCEPT !.fin = TRUE].path = w.mine.path
      /\ [w.mine EXCEPT !.fin = TRUE].id = w.mine.id
  BY <1>1 DEF Dash!Copy
<1> QED  BY <1>1, <1>2, UpdateKept DEF Dash!AddFinalizer

LEMMA FinalizeKept == ASSUME Dash!ConstantsAssumption, Kept, Dash!Finalize PROVE Kept'
<1> DEFINE copy == [w.mine EXCEPT !.fin = FALSE, !.state = "gone"]
<1>1. Working /\ w.mine \in Dash!Copy
  BY WorkerFields DEF Dash!Finalize, Working
<1>2. copy \in Dash!Copy /\ copy.path = w.mine.path /\ copy.id = w.mine.id
  BY <1>1 DEF Dash!Copy
<1> QED  BY <1>1, <1>2, UpdateKept DEF Dash!Finalize

LEMMA ResolveConfigKept == ASSUME Dash!ConstantsAssumption, Kept, Dash!ResolveConfig PROVE Kept'
<1> DEFINE value == IF w.mine.value = 0 THEN sourceSeen ELSE w.mine.value
<1>1. Working /\ w \in Runs /\ w.mine \in Dash!Copy /\ UNCHANGED <<Dash!object, Dash!map,
   queue, Dash!ha, disturbed, lost, edits>>
      /\ UNCHANGED boards /\ value \in Dash!Values
  <2>1. Working
    BY DEF Dash!ResolveConfig, Working
  <2> QED  BY <2>1, WorkerFields DEF Dash!ResolveConfig, Dash!ha, Kept, AllTyped, OutsideTyped,
     Dash!Copy, Dash!Values
<1>2. OutsideTyped'
  <2>1. faults' \in 0 .. DashFaults
    BY FailureCounts DEF Dash!ResolveConfig, Kept, AllTyped, OutsideTyped
  <2> QED  BY <1>1, <2>1 DEF Kept, AllTyped, OutsideTyped, Dash!map
<1>3. GoesOn /\ Knows'
  <2>1. CASE \E ready \in {"source", "failed"} : Dash!Conclude(w.mine, ready)
    BY <1>1, <2>1, ConcludeGoesOn DEF Dash!Conclude
  <2>2. CASE w' = [w EXCEPT !.pc = "List", !.value = value]
    <3>1. w' \in Runs /\ w'.pc = "List" /\ w'.who = w.who /\ w'.valid = w.valid /\ w'.mine = w.mine
      BY <1>1, <2>2 DEF Runs, Calls
    <3> QED  BY <1>1, <3>1 DEF GoesOn, Learns, Knows
  <2> QED  BY <2>1, <2>2 DEF Dash!ResolveConfig
<1> QED  BY <1>1, <1>2, <1>3, BoardsStay, GoesOnKept

LEMMA ListKept == ASSUME Dash!ConstantsAssumption, Kept, Dash!List PROVE Kept'
<1> DEFINE copy == w.mine  found == Dash!Found(copy)
<1>1. Working /\ w \in Runs /\ copy \in Dash!Copy /\ UNCHANGED <<Dash!object, Dash!map, queue,
   Dash!ha, disturbed, lost, edits>>
      /\ UNCHANGED boards /\ faults' \in 0 .. DashFaults
  <2>1. Working /\ faults' \in 0 .. DashFaults
    BY FailureCounts DEF Dash!List, Working, Kept, AllTyped, OutsideTyped
  <2> QED  BY <2>1, WorkerFields DEF Dash!List, Dash!ha
<1>2. OutsideTyped'
  BY <1>1 DEF Kept, AllTyped, OutsideTyped, Dash!map
<1>3. GoesOn /\ Knows'
  <2>1. CASE \E ready \in {"failed", "missing", "conflict"} : Dash!Conclude(copy, ready)
    BY <1>1, <2>1, ConcludeGoesOn DEF Dash!Conclude
  <2>2. CASE Dash!Goto("Create")
    BY <1>1, <2>2, GotoGoesOn DEF Knows, Calls
  <2>3. ASSUME NEW b \in found, ~Dash!Conflicts(copy), w' = Dash!Concluded(copy, "yaml")
        PROVE  GoesOn /\ Knows'
    BY <1>1, <2>3, ConcludeGoesOn
  <2>4. ASSUME NEW b \in found, ~Dash!Conflicts(copy),
               w' = [w EXCEPT !.pc = IF Dash!Outdated(copy, b) THEN "Update" ELSE "Compare",
                              !.mine = [copy EXCEPT !.id = IF Dash!Outdated(copy,
                                 b) THEN @ ELSE b.path]]
        PROVE  GoesOn /\ Knows'
    <3>1. b.path = (IF copy.id = Dash!NoPath THEN copy.path ELSE copy.id) /\ copy.path # Dash!NoPath
      BY <1>1, CopyFields DEF Dash!Found, Dash!At
    <3>2. copy.id # Dash!NoPath \/ copy.path = Dash!Default
      BY <2>4 DEF Dash!Conflicts
    <3>3. b.path \in Paths \cup {Dash!Default, Dash!NoPath}
      BY <1>1, <3>1 DEF Dash!Copy
    <3>4. w'.mine = [copy EXCEPT !.id = IF Dash!Outdated(copy, b) THEN @ ELSE b.path]
          /\ w'.who = w.who /\ w'.valid = w.valid /\ w'.pc \in {"Update", "Compare"}
      BY <1>1, <2>4 DEF Runs
    <3>5. w'.mine \in Dash!Copy /\ w'.mine.path = copy.path
          /\ w'.mine.id = (IF Dash!Outdated(copy, b) THEN copy.id ELSE b.path)
      BY <1>1, <3>3, <3>4 DEF Dash!Copy
    <3>6. w' \in Runs
      BY <1>1, <2>4, <3>4, <3>5 DEF Runs, Calls
    <3>7. Learns(w')
      BY <3>1, <3>2, <3>5 DEF Learns
    <3>8. w'.mine.id # Dash!NoPath \/ w'.mine.path = Dash!Default
      BY <3>1, <3>2, <3>5
    <3> QED  BY <1>1, <3>4, <3>6, <3>7, <3>8 DEF GoesOn, Knows
  <2> QED  BY <1>1, <2>1, <2>2, <2>3, <2>4 DEF Dash!List
<1> QED  BY <1>1, <1>2, <1>3, BoardsStay, GoesOnKept

LEMMA CompareKept == ASSUME Dash!ConstantsAssumption, Kept, Dash!Compare PROVE Kept'
<1>1. Working /\ w.pc = "Compare" /\ UNCHANGED <<Dash!object, Dash!map, queue, Dash!ha,
   disturbed, lost, edits>>
      /\ UNCHANGED boards /\ faults' \in 0 .. DashFaults
  BY FailureCounts DEF Dash!Compare, Working, Dash!ha, Kept, AllTyped, OutsideTyped
<1>2. OutsideTyped'
  BY <1>1 DEF Kept, AllTyped, OutsideTyped, Dash!map
<1>3. GoesOn /\ Knows'
  <2>1. CASE Dash!Conclude(w.mine, "failed")
    BY <1>1, <2>1, ConcludeGoesOn DEF Dash!Conclude
  <2>2. CASE \E label \in {"Done", "Save"} : Dash!Goto(label)
    BY <1>1, <2>2, GotoGoesOn DEF Kept, Knows, Calls
  <2> QED  BY <2>1, <2>2 DEF Dash!Compare
<1> QED  BY <1>1, <1>2, <1>3, BoardsStay, GoesOnKept

\* A title or a content is written to the dashboards of a path.
LEMMA BoardsWritten ==
    ASSUME boards \subseteq Dash!Board, NEW path, NEW title \in {0, 1},
           NEW value \in Dash!Values,
           \/ boards' = {IF b.path = path THEN [b EXCEPT !.title = title] ELSE b : b \in boards}
           \/ boards' = {IF b.path = path THEN [b EXCEPT !.value = value] ELSE b : b \in boards}
    PROVE  boards' \subseteq Dash!Board /\ SameBoards
<1> DEFINE F(b) == IF b.path = path THEN [b EXCEPT !.title = title] ELSE b
           G(b) == IF b.path = path THEN [b EXCEPT !.value = value] ELSE b
<1>1. \A b \in Dash!Board : F(b) \in Dash!Board /\ F(b).path = b.path /\ F(b).by = b.by
  BY DEF Dash!Board
<1>2. \A b \in Dash!Board : G(b) \in Dash!Board /\ G(b).path = b.path /\ G(b).by = b.by
  BY DEF Dash!Board
<1>3. boards' = {F(b) : b \in boards} \/ boards' = {G(b) : b \in boards}
  OBVIOUS
<1> HIDE DEF F, G
<1> QED  BY <1>1, <1>2, <1>3 DEF SameBoards

LEMMA SaveKept == ASSUME Dash!ConstantsAssumption, Kept, Dash!Save PROVE Kept'
<1>1. Working /\ w.pc = "Save" /\ UNCHANGED <<Dash!object, Dash!map, queue, down, disturbed,
   lost, edits>>
      /\ faults' \in 0 .. DashFaults /\ boards \subseteq Dash!Board /\ w.value \in Dash!Values
  <2>1. Working /\ faults' \in 0 .. DashFaults
    BY FailureCounts, SpendCounts DEF Dash!Save, Working, Kept, AllTyped, OutsideTyped
  <2> QED  BY <2>1, WorkerFields DEF Dash!Save, Kept, AllTyped, OutsideTyped
<1>2. boards' \subseteq Dash!Board /\ SameBoards
  <2>1. CASE UNCHANGED boards
    BY <1>1, <2>1, BoardsStay
  <2>2. CASE boards' = {IF b.path = w.mine.path THEN [b EXCEPT !.value = w.value] ELSE b : b \in boards}
    BY <1>1, <2>2, BoardsWritten
  <2> QED  BY <2>1, <2>2 DEF Dash!Save
<1>3. OutsideTyped'
  BY <1>1, <1>2 DEF Kept, AllTyped, OutsideTyped, Dash!map
<1>4. GoesOn /\ Knows'
  <2>1. CASE Dash!Conclude(w.mine, "failed")
    BY <1>1, <2>1, ConcludeGoesOn DEF Dash!Conclude
  <2>2. CASE Dash!Goto("Done")
    BY <1>1, <2>2, GotoGoesOn DEF Kept, Knows, Calls
  <2> QED  BY <2>1, <2>2 DEF Dash!Save
<1> QED  BY <1>1, <1>2, <1>3, <1>4, GoesOnKept

LEMMA UpdateBoardKept == ASSUME Dash!ConstantsAssumption, Kept, Dash!UpdateBoard PROVE Kept'
<1> DEFINE id == IF w.mine.id = Dash!NoPath THEN w.mine.path ELSE w.mine.id
<1>1. Working /\ w.pc = "Update" /\ UNCHANGED <<Dash!object, Dash!map, queue, down, disturbed,
   lost, edits>>
      /\ faults' \in 0 .. DashFaults /\ boards \subseteq Dash!Board /\ w \in Runs
      /\ w.mine \in Dash!Copy
  <2>1. Working /\ faults' \in 0 .. DashFaults
    BY FailureCounts DEF Dash!UpdateBoard, Working, Kept, AllTyped, OutsideTyped
  <2> QED  BY <2>1, WorkerFields DEF Dash!UpdateBoard, Kept, AllTyped, OutsideTyped
<1>2. /\ w.mine.title \in {0, 1} /\ id \in Paths \cup {Dash!Default, Dash!NoPath} /\ id # Dash!NoPath
      /\ 0 \in Dash!Values
  BY <1>1, CopyFields DEF Dash!Values
<1>3. boards' \subseteq Dash!Board /\ SameBoards
  <2> HIDE DEF id
  <2>1. CASE UNCHANGED boards
    BY <1>1, <2>1, BoardsStay
  <2>2. CASE boards' = {IF b.path = id THEN [b EXCEPT !.title = w.mine.title] ELSE b : b \in boards}
    BY <1>1, <1>2, <2>2, BoardsWritten
  <2>3. \/ boards' = {IF b.path = id THEN [b EXCEPT !.title = w.mine.title] ELSE b : b \in boards}
        \/ UNCHANGED boards
    BY Zenon DEF Dash!UpdateBoard, id
  <2> QED  BY <2>1, <2>2, <2>3, Zenon
<1>4. OutsideTyped'
  BY <1>1, <1>3 DEF Kept, AllTyped, OutsideTyped, Dash!map
<1>5. CASE Dash!Conclude(w.mine, "failed")
  BY <1>1, <1>3, <1>4, <1>5, ConcludeGoesOn, GoesOnKept DEF Dash!Conclude
<1>6. CASE w' = [w EXCEPT !.pc = "Compare", !.mine.id = id]
  <2>1. /\ w'.pc = "Compare" /\ w'.who = w.who /\ w'.valid = w.valid /\ w'.value = w.value
        /\ w'.mine = [w.mine EXCEPT !.id = id]
    BY <1>1, <1>6 DEF Runs
  <2>2. w'.mine \in Dash!Copy /\ w'.mine.path = w.mine.path /\ w'.mine.id = id
    BY <1>1, <1>2, <2>1 DEF Dash!Copy
  <2>3. w' \in Runs
    BY <1>1, <1>6, <2>2 DEF Runs, Calls
  <2>4. Knows'
    BY <1>2, <2>2 DEF Knows
  <2>5. w.mine.id # Dash!NoPath \/ w.mine.path = Dash!Default
    BY <1>1 DEF Kept, Knows
  <2>6. GoesOn
    BY <1>1, <2>1, <2>2, <2>3, <2>5 DEF GoesOn, Learns
  <2> QED  BY <1>1, <1>3, <1>4, <2>4, <2>6, GoesOnKept
<1> QED  BY <1>5, <1>6 DEF Dash!UpdateBoard

\* A dashboard at a path that is not a resource's own is made or removed.
OnlyAt(p) == \A b \in boards \cup boards' : b.path # p => b \in boards /\ b \in boards'

LEMMA ElsewhereOwned ==
    ASSUME Kept, NEW p, OnlyAt(p), UNCHANGED cr, NEW r \in Dashboards \ disturbed,
           cr[r].path # p,
           cr[r].path # Dash!Default, Holds(r)
    PROVE  Dash!At(cr[r].path)' # {} /\ \A b \in Dash!At(cr[r].path)' : b.by = r
<1>1. Dash!At(cr[r].path)' = Dash!At(cr[r].path)
  BY DEF Dash!At, OnlyAt
<1> QED  BY <1>1 DEF Kept, Owned

\* A dashboard is made where there is none, by a user or before its ID is known.
LEMMA MadeKept ==
    ASSUME Kept, UNCHANGED <<Dash!object, disturbed>>, NEW new \in Dash!Board,
           Dash!At(new.path) = {},
           boards' = boards \cup {new}, OutsideTyped', GoesOn, Knows'
    PROVE  Kept'
<1>1. /\ CopiesTyped' /\ WorkerTyped' /\ UNCHANGED <<cr, seen, fresh>> /\ Named'
      /\ \A r \in Dashboards \ disturbed : cr[r].path # Dash!Default /\ Holds(r)' => Holds(r)
  BY GoesOnMeans
<1>2. Owned'
  <2> SUFFICES ASSUME NEW r \in Dashboards \ disturbed, cr[r].path # Dash!Default, Holds(r)'
               PROVE  Dash!At(cr[r].path)' # {} /\ \A b \in Dash!At(cr[r].path)' : b.by = r
    BY <1>1 DEF Owned
  <2>1. Holds(r)
    BY <1>1
  <2>2. Dash!At(cr[r].path) # {} /\ cr[r].path # new.path
    BY <2>1 DEF Kept, Owned
  <2>3. OnlyAt(new.path)
    BY DEF OnlyAt
  <2> QED  BY <1>1, <2>1, <2>2, <2>3, ElsewhereOwned
<1> QED  BY <1>1, <1>2 DEF Kept, AllTyped

\* Who knows a dashboard that is removed, is disturbed.
LEMMA RemovedKept ==
    ASSUME Kept, UNCHANGED Dash!object, NEW p, OnlyAt(p),
           disturbed' = disturbed \cup Dash!Owners(p),
           OutsideTyped', GoesOn, Knows'
    PROVE  Kept'
<1>1. /\ CopiesTyped' /\ WorkerTyped' /\ UNCHANGED <<cr, seen, fresh>> /\ Named'
      /\ \A r \in Dashboards \ disturbed' : cr[r].path # Dash!Default /\ Holds(r)' => Holds(r)
  BY GoesOnMeans
<1>2. Owned'
  <2> SUFFICES ASSUME NEW r \in Dashboards \ disturbed', cr[r].path # Dash!Default, Holds(r)'
               PROVE  Dash!At(cr[r].path)' # {} /\ \A b \in Dash!At(cr[r].path)' : b.by = r
    BY <1>1 DEF Owned
  <2>1. Holds(r)
    BY <1>1
  <2>2. cr[r].id \in {Dash!NoPath, cr[r].path} /\ (Working /\ w.who = r => w.mine.path = cr[r].path)
    BY DEF Kept, Named
  <2>3. cr[r].path # p
    BY <2>1, <2>2 DEF Dash!Owners, Holds
  <2> QED  BY <1>1, <2>1, <2>3, ElsewhereOwned
<1> QED  BY <1>1, <1>2 DEF Kept, AllTyped

LEMMA CreateKept == ASSUME Dash!ConstantsAssumption, Kept, Dash!Create PROVE Kept'
<1>1. Working /\ w.pc = "Create" /\ UNCHANGED <<Dash!object, Dash!map, queue, down, disturbed,
   edits>>
      /\ w \in Runs /\ w.mine \in Dash!Copy /\ w.who \in Dashboards /\ faults' \in 0 .. DashFaults
  <2>1. Working /\ faults' \in 0 .. DashFaults
    BY FailureCounts, SpendCounts DEF Dash!Create, Working, Kept, AllTyped, OutsideTyped
  <2> QED  BY <2>1, WorkerFields DEF Dash!Create
<1> DEFINE new == [path |-> w.mine.path, title |-> w.mine.title, value |-> 0, storage |-> TRUE,
   by |-> w.who]
<1>2. new \in Dash!Board /\ new.path = w.mine.path /\ new.by = w.who
  BY <1>1, CopyFields DEF Dash!Board, Dash!Values
<1> HIDE DEF new
<1>3. lost' \subseteq Dashboards
  BY <1>1 DEF Dash!Create, Kept, AllTyped, OutsideTyped
<1>4. CASE /\ Dash!At(w.mine.path) = {} /\ boards' = boards \cup {new}
           /\ Dash!Conclude(w.mine, "failed") \/ w' = [w EXCEPT !.pc = "Save",
              !.mine = Dash!Identified(@)]
  <2>1. OutsideTyped'
    BY <1>1, <1>2, <1>3, <1>4 DEF Kept, AllTyped, OutsideTyped, Dash!map
  <2>2. CASE Dash!Conclude(w.mine, "failed")
    BY <1>1, <1>2, <1>4, <2>1, <2>2, ConcludeGoesOn, MadeKept DEF Dash!Conclude
  <2>3. CASE w' = [w EXCEPT !.pc = "Save", !.mine = Dash!Identified(@)]
    <3>1. /\ w'.pc = "Save" /\ w'.who = w.who /\ w'.valid = w.valid /\ w'.mine = Dash!Identified(w.mine)
      BY <1>1, <2>3 DEF Runs
    <3>2. w'.mine \in Dash!Copy /\ w'.mine.path = w.mine.path /\ w'.mine.id = w.mine.path
      BY <1>1, <3>1, CopyFields DEF Dash!Identified, Dash!Copy
    <3>3. w' \in Runs /\ Working'
      BY <1>1, <2>3, <3>1, <3>2 DEF Runs, Calls, Working
    <3>4. CopiesTyped' /\ UNCHANGED <<cr, seen, fresh>>
      BY <1>1, NoWrite DEF Kept, AllTyped
    <3>5. Named'
      BY <1>1, <3>1, <3>2, <3>4 DEF Kept, Named
    <3>6. Owned'
      <4> SUFFICES ASSUME NEW r \in Dashboards \ disturbed, cr[r].path # Dash!Default, Holds(r)'
                   PROVE  Dash!At(cr[r].path)' # {} /\ \A b \in Dash!At(cr[r].path)' : b.by = r
        BY <1>1, <3>4 DEF Owned
      <4>1. CASE Holds(r)
        <5>1. Dash!At(cr[r].path) # {} /\ cr[r].path # new.path
          BY <1>2, <1>4, <4>1 DEF Kept, Owned
        <5>2. OnlyAt(new.path)
          BY <1>4 DEF OnlyAt
        <5> QED  BY <3>4, <4>1, <5>1, <5>2, ElsewhereOwned
      <4>2. CASE ~Holds(r)
        <5>1. r = w.who
          BY <3>1, <3>4, <4>2 DEF Holds
        <5>2. cr[r].path = w.mine.path
          BY <1>1, <5>1 DEF Kept, Named
        <5>3. Dash!At(cr[r].path)' = {new}
          BY <1>2, <1>4, <3>4, <5>2 DEF Dash!At
        <5> QED  BY <1>2, <5>1, <5>3
      <4> QED  BY <4>1, <4>2
    <3>7. Knows'
      BY <1>1, <3>2, CopyFields DEF Knows
    <3> QED  BY <2>1, <3>3, <3>4, <3>5, <3>6, <3>7 DEF Kept, AllTyped, WorkerTyped
  <2> QED  BY <1>4, <2>2, <2>3
<1>5. CASE Dash!Conclude(w.mine, "failed") /\ UNCHANGED <<boards, lost>>
  <2>1. OutsideTyped'
    BY <1>1, <1>5 DEF Kept, AllTyped, OutsideTyped, Dash!map
  <2> QED  BY <1>1, <1>5, <2>1, BoardsStay, ConcludeGoesOn, GoesOnKept DEF Dash!Conclude
<1> QED  BY <1>4, <1>5 DEF Dash!Create, new

LEMMA RemoveKept == ASSUME Dash!ConstantsAssumption, Kept, Dash!Remove PROVE Kept'
<1>1. Working /\ w.pc = "Remove" /\ UNCHANGED <<Dash!object, Dash!map, queue, down, lost,
   edits>>
      /\ faults' \in 0 .. DashFaults
  BY FailureCounts, SpendCounts DEF Dash!Remove, Working, Kept, AllTyped, OutsideTyped
<1>2. disturbed' \subseteq Dashboards
  BY DEF Dash!Remove, Dash!Owners, Kept, AllTyped, OutsideTyped
<1>3. boards' \subseteq Dash!Board
  BY DEF Dash!Remove, Kept, AllTyped, OutsideTyped
<1>4. OutsideTyped'
  BY <1>1, <1>2, <1>3 DEF Kept, AllTyped, OutsideTyped, Dash!map
<1>5. GoesOn /\ Knows'
  <2>1. CASE Dash!Conclude(w.mine, "failed")
    BY <1>1, <2>1, ConcludeGoesOn DEF Dash!Conclude
  <2>2. CASE Dash!Goto("Finalize")
    BY <1>1, <2>2, GotoGoesOn DEF Knows, Calls
  <2> QED  BY <2>1, <2>2 DEF Dash!Remove
<1>6. CASE boards' = boards \ Dash!At(w.mine.id) /\ disturbed' = disturbed \cup Dash!Owners(w.mine.id)
  <2>1. OnlyAt(w.mine.id)
    BY <1>6 DEF OnlyAt, Dash!At
  <2> QED  BY <1>1, <1>4, <1>5, <1>6, <2>1, RemovedKept
<1>7. CASE UNCHANGED <<boards, disturbed>>
  BY <1>1, <1>4, <1>5, <1>7, BoardsStay, GoesOnKept
<1> QED  BY <1>6, <1>7 DEF Dash!Remove

LEMMA ForgottenTyped == ASSUME Kept PROVE Dash!Forgotten \subseteq Dashboards
  BY WorkerFields DEF Dash!Forgotten, Working

LEMMA ReportKept == ASSUME Dash!ConstantsAssumption, Kept, Dash!Report PROVE Kept'
<1> DEFINE copy == IF w.pc = "Done" THEN Dash!Configured(w.mine) ELSE w.mine
<1>1. Working /\ w.pc \in {"Done", "Status"} /\ w' = Dash!Idle /\ UNCHANGED <<Dash!map,
   Dash!ha, disturbed, edits>>
      /\ UNCHANGED boards /\ w.mine \in Dash!Copy /\ w.who \in Dashboards /\ w.value \in Dash!Values
  <2>1. Working /\ w.pc \in {"Done", "Status"} /\ w' = Dash!Idle
    BY DEF Dash!Report, Working
  <2> QED  BY <2>1, WorkerFields DEF Dash!Report, Dash!ha
<1>2. queue' \subseteq Dashboards /\ lost' \subseteq Dashboards /\ faults' \in 0 .. DashFaults
  BY <1>1, ForgottenTyped, SpendCounts DEF Dash!Report, Kept, AllTyped, OutsideTyped
<1>3. OutsideTyped'
  BY <1>1, <1>2 DEF Kept, AllTyped, OutsideTyped, Dash!map
<1>4. CASE w.valid /\ Dash!Put(w.who, copy)
  <2>1. CASE w.pc = "Done"
    <3>1. w.mine.id # Dash!NoPath \/ w.mine.path = Dash!Default
      BY <1>1, <2>1 DEF Kept, Knows
    <3>2. /\ w.mine.path \in Paths \cup {Dash!Default} /\ w.mine.title \in {0, 1}
          /\ w.mine.id \in Paths \cup {Dash!Default, Dash!NoPath}
      BY <1>1, CopyFields
    <3>3. Dash!Hash(w.mine.path, w.mine.title, w.value) \in
              [path : Paths \cup {Dash!Default, Dash!NoPath}, title : {0, 1},
                 value : Dash!Values]
      BY <1>1, <3>2 DEF Dash!Hash
    <3>4. /\ Dash!Configured(w.mine) \in Dash!Copy /\ Dash!Configured(w.mine).path = w.mine.path
          /\ Dash!Configured(w.mine).id = (IF w.mine.id = Dash!NoPath THEN w.mine.path ELSE w.mine.id)
      BY <1>1, <3>2, <3>3 DEF Dash!Configured, Dash!Copy
    <3> QED  BY <1>1, <1>3, <1>4, <2>1, <3>1, <3>4, WritesKept
  <2>2. CASE w.pc # "Done"
    BY <1>1, <1>3, <1>4, <2>2, WritesKept
  <2> QED  BY <2>1, <2>2
<1>5. CASE UNCHANGED Dash!object
  <2>1. GoesOn /\ Knows'
    BY <1>1 DEF GoesOn, Knows, Dash!Idle
  <2> QED  BY <1>1, <1>3, <1>5, <2>1, BoardsStay, GoesOnKept
<1> QED  BY <1>4, <1>5 DEF Dash!Report

-----------------------------------------------------------------------------
(* Users, the caches, failures.                                             *)

\* A change of a resource makes the reconcile's copy of it outdated.
LEMMA TouchKept ==
    ASSUME Dash!ConstantsAssumption, Kept, NEW r \in Dashboards, NEW copy \in Dash!Copy,
           copy.id = cr[r].id, Dash!Touch(r, copy)
    PROVE  Kept'
<1>1. Dash!Put(r, copy) /\ UNCHANGED <<Dash!map, queue, Dash!ha, lost, faults, boards>>
      /\ w' = (IF w.who = r THEN [w EXCEPT !.valid = FALSE] ELSE w)
      /\ disturbed' = (IF copy.path # cr[r].path THEN disturbed \cup {r} ELSE disturbed)
      /\ edits' \in 0 .. DashEdits
  BY DEF Dash!Touch, Dash!ha, Kept, AllTyped, OutsideTyped, Dash!ConstantsAssumption
<1>2. /\ CopiesTyped' /\ seen' = seen /\ cr'[r] = copy /\ \A q \in Dashboards \ {r} : cr'[q] = cr[q]
  BY <1>1, WriteTyped DEF Kept, AllTyped
<1>3. OutsideTyped'
  BY <1>1 DEF Kept, AllTyped, OutsideTyped, Dash!map
<1>4. CASE ~Working
  <2>1. w = Dash!Idle /\ Dash!Idle.pc = "Idle" /\ [Dash!Idle EXCEPT !.valid = FALSE] = Dash!Idle
    BY <1>4 DEF Dash!Idle, Kept, AllTyped, WorkerTyped, Working, Runs, Calls
  <2>2. w' = Dash!Idle /\ ~Working'
    BY <1>1, <2>1 DEF Working
  <2> HIDE DEF Dash!Idle
  <2>3. Named'
    BY <1>1, <1>2, <2>2 DEF Kept, Named
  <2>4. Owned'
    BY <1>1, <1>2, <1>4, <2>2 DEF Kept, Owned, Holds, Dash!At
  <2>5. Knows'
    BY <2>2 DEF Knows, Working
  <2> QED  BY <1>2, <1>3, <2>2, <2>3, <2>4, <2>5 DEF Kept, AllTyped, WorkerTyped
<1>5. CASE Working
  <2>1. w \in Runs
    BY <1>5, WorkerFields
  <2>2. w' \in Runs /\ w'.pc = w.pc /\ w'.who = w.who /\ w'.mine = w.mine /\ w'.value = w.value
        /\ (w'.who = r => ~w'.valid) /\ (w'.who # r => w'.valid = w.valid)
    BY <1>1, <2>1 DEF Runs
  <2>3. Named'
    BY <1>1, <1>2, <1>5, <2>2 DEF Kept, Named
  <2>4. Owned'
    BY <1>1, <1>2, <1>5, <2>2 DEF Kept, Owned, Holds, Dash!At
  <2>5. Knows'
    BY <2>2 DEF Kept, Knows
  <2> QED  BY <1>2, <1>3, <2>2, <2>3, <2>4, <2>5 DEF Kept, AllTyped, WorkerTyped
<1> QED  BY <1>4, <1>5

LEMMA EditKept == ASSUME Dash!ConstantsAssumption, Kept, NEW r \in Dashboards,
   Dash!Edit(r) PROVE Kept'
<1>1. cr[r] \in Dash!Copy
  BY DEF Kept, AllTyped, CopiesTyped
<1>2. PICK s \in Dash!Spec0 :
          \/ Dash!Touch(r, [cr[r] EXCEPT !.path = s.path])
          \/ Dash!Touch(r, [cr[r] EXCEPT !.title = s.title])
          \/ Dash!Touch(r, [cr[r] EXCEPT !.value = s.value])
  BY DEF Dash!Edit
<1>3. /\ [cr[r] EXCEPT !.path = s.path] \in Dash!Copy /\ [cr[r] EXCEPT !.path = s.path].id = cr[r].id
      /\ [cr[r] EXCEPT !.title = s.title] \in Dash!Copy
      /\ [cr[r] EXCEPT !.title = s.title].id = cr[r].id
      /\ [cr[r] EXCEPT !.value = s.value] \in Dash!Copy
      /\ [cr[r] EXCEPT !.value = s.value].id = cr[r].id
  BY <1>1 DEF Dash!Copy, Dash!Spec0
<1> QED  BY <1>2, <1>3, TouchKept

LEMMA DeleteKept == ASSUME Dash!ConstantsAssumption, Kept, NEW r \in Dashboards,
   Dash!Delete(r) PROVE Kept'
<1> DEFINE copy == [cr[r] EXCEPT !.state = IF cr[r].fin THEN "deleting" ELSE "gone"]
<1>1. cr[r] \in Dash!Copy
  BY DEF Kept, AllTyped, CopiesTyped
<1>2. copy \in Dash!Copy /\ copy.id = cr[r].id
  BY <1>1 DEF Dash!Copy
<1> QED  BY <1>2, TouchKept DEF Dash!Delete

LEMMA ObserveKept == ASSUME Kept, NEW r \in Dashboards, Dash!Observe(r) PROVE Kept'
<1>1. /\ UNCHANGED <<cr, Dash!map, Dash!ha, w, disturbed, lost, edits, faults, boards>>
      /\ queue' = queue \cup {r}
      /\ seen' = [seen EXCEPT ![r] = cr[r]] /\ fresh' = [fresh EXCEPT ![r] = TRUE]
  BY DEF Dash!Observe, Dash!ha
<1>2. CopiesTyped' /\ seen'[r] = cr[r] /\ \A q \in Dashboards \ {r} : seen'[q] = seen[q]
  BY <1>1 DEF Kept, AllTyped, CopiesTyped
<1>3. OutsideTyped' /\ WorkerTyped'
  BY <1>1 DEF Kept, AllTyped, OutsideTyped, WorkerTyped, Dash!map
<1>4. Named'
  BY <1>1, <1>2 DEF Kept, Named, Working
<1>5. Owned' /\ Knows'
  BY <1>1 DEF Kept, Owned, Knows, Holds, Working, Dash!At
<1> QED  BY <1>2, <1>3, <1>4, <1>5 DEF Kept, AllTyped

\* Steps of others that the worker and its dashboards are not about.
LEMMA AsideKept ==
    ASSUME Kept, UNCHANGED <<Dash!object, w, disturbed>>, SameBoards, OutsideTyped'
    PROVE  Kept'
<1>1. GoesOn /\ Knows'
  BY DEF GoesOn, Knows, Kept
<1> QED  BY <1>1, GoesOnKept

LEMMA EnvironmentKept ==
    ASSUME Dash!ConstantsAssumption, Kept,
           Dash!EditSource \/ Dash!ObserveSource \/ Dash!GoDown \/ \E r \in Dashboards : Dash!Resync(r)
    PROVE  Kept'
<1>1. UNCHANGED <<Dash!object, w, disturbed, boards>>
  BY DEF Dash!EditSource, Dash!ObserveSource, Dash!GoDown, Dash!Resync, Dash!ha
<1>2. OutsideTyped'
  <2>1. /\ faults' \in 0 .. DashFaults /\ edits' \in 0 .. DashEdits /\ queue' \subseteq Dashboards
        /\ lost' \subseteq Dashboards
        /\ {source', sourceSeen'} \subseteq Dash!Values
    BY SpendCounts DEF Dash!EditSource, Dash!ObserveSource, Dash!GoDown, Dash!Resync, Dash!map,
       Kept, AllTyped, OutsideTyped, Dash!ConstantsAssumption
  <2> QED  BY <1>1, <2>1 DEF Kept, AllTyped, OutsideTyped
<1> QED  BY <1>1, <1>2, BoardsStay, AsideKept

LEMMA UserActsKept == ASSUME Dash!ConstantsAssumption, Kept, Dash!UserActs PROVE Kept'
<1>1. UNCHANGED <<Dash!object, Dash!map, queue, down, w, lost, edits>> /\ faults' \in 0 .. DashFaults
      /\ GoesOn /\ Knows' /\ boards \subseteq Dash!Board
  BY SpendCounts DEF Dash!UserActs, GoesOn, Knows, Kept, AllTyped, OutsideTyped
<1>2. ASSUME NEW path \in Paths, NEW storage \in BOOLEAN, Dash!At(path) = {},
   UNCHANGED disturbed,
             boards' = boards \cup {[path |-> path, title |-> 0, value |-> 0,
                storage |-> storage, by |-> "user"]}
      PROVE  Kept'
  <2> DEFINE new == [path |-> path, title |-> 0, value |-> 0, storage |-> storage,
     by |-> "user"]
  <2>1. new \in Dash!Board /\ new.path = path
    BY DEF Dash!Board, Dash!Values
  <2> HIDE DEF new
  <2>2. boards' = boards \cup {new}
    BY <1>2 DEF new
  <2>3. OutsideTyped'
    BY <1>1, <1>2, <2>1, <2>2 DEF Kept, AllTyped, OutsideTyped, Dash!map
  <2> QED  BY <1>1, <1>2, <2>1, <2>2, <2>3, MadeKept
<1>3. ASSUME NEW b \in boards, boards' = boards \ {b},
   disturbed' = disturbed \cup Dash!Owners(b.path)
      PROVE  Kept'
  <2>1. OnlyAt(b.path)
    BY <1>3 DEF OnlyAt
  <2>2. OutsideTyped'
    BY <1>1, <1>3 DEF Dash!Owners, Kept, AllTyped, OutsideTyped, Dash!map
  <2> QED  BY <1>1, <1>3, <2>1, <2>2, RemovedKept
<1>4. ASSUME NEW b \in boards, boards' = (boards \ {b}) \cup {[b EXCEPT !.value = 0]},
   UNCHANGED disturbed
      PROVE  Kept'
  <2> DEFINE new == [b EXCEPT !.value = 0]
  <2>1. new \in Dash!Board /\ new.path = b.path /\ new.by = b.by
    BY <1>1, <1>4 DEF Dash!Board, Dash!Values
  <2> HIDE DEF new
  <2>2. boards' = (boards \ {b}) \cup {new}
    BY <1>4 DEF new
  <2>3. SameBoards
    BY <1>4, <2>1, <2>2 DEF SameBoards
  <2>4. OutsideTyped'
    BY <1>1, <1>4, <2>1, <2>2 DEF Kept, AllTyped, OutsideTyped, Dash!map
  <2> QED  BY <1>1, <1>4, <2>3, <2>4, AsideKept
<1> QED  BY <1>2, <1>3, <1>4 DEF Dash!UserActs

LEMMA CrashKept == ASSUME Dash!ConstantsAssumption, Kept, Dash!Crash PROVE Kept'
<1>1. w' = Dash!Idle /\ UNCHANGED <<Dash!object, Dash!map, Dash!ha, disturbed, edits,
   boards>> /\ faults' \in 0 .. DashFaults
      /\ lost' \subseteq Dashboards /\ queue' \subseteq Dashboards
  BY SpendCounts, ForgottenTyped DEF Dash!Crash, Dash!ha, Kept, AllTyped, OutsideTyped
<1>2. OutsideTyped'
  BY <1>1 DEF Kept, AllTyped, OutsideTyped, Dash!map
<1>3. GoesOn /\ Knows'
  BY <1>1 DEF GoesOn, Knows, Dash!Idle
<1> QED  BY <1>1, <1>2, <1>3, BoardsStay, GoesOnKept

-----------------------------------------------------------------------------
LEMMA InitKept ==
    ASSUME Dash!ConstantsAssumption
    PROVE  Dash!Init => Kept
<1> SUFFICES ASSUME Dash!Init PROVE Kept
  OBVIOUS
<1>1. (CHOOSE path \in Paths : TRUE) \in Paths
  BY DEF Dash!ConstantsAssumption
<1>2. ASSUME NEW path \in Paths \cup {Dash!Default}, NEW value \in 0 .. 1
      PROVE  Dash!New(path, value) \in Dash!Copy /\ Dash!New(path, value).id = Dash!NoPath
  BY <1>2 DEF Dash!New, Dash!Copy, Dash!NoHash, Dash!Hash, Dash!Values
<1>3. \A r \in Dashboards : cr[r] \in Dash!Copy /\ cr[r].id = Dash!NoPath
  BY <1>1, <1>2 DEF Dash!Init
<1>4. /\ seen = cr /\ DOMAIN cr = Dashboards /\ cr = [r \in Dashboards |-> cr[r]]
      /\ fresh = [r \in Dashboards |-> TRUE]
  BY DEF Dash!Init
<1>5. CopiesTyped
  BY <1>3, <1>4 DEF CopiesTyped
<1>6. boards \subseteq Dash!Board
  BY DEF Dash!Init
<1>7. OutsideTyped
  <2>1. 0 \in 0 .. DashEdits /\ 0 \in 0 .. DashFaults
    BY DEF Dash!ConstantsAssumption
  <2> QED  BY <1>6, <2>1 DEF Dash!Init, OutsideTyped, Dash!Values
<1>8. w = Dash!Idle /\ ~Working
  BY DEF Dash!Init, Working, Dash!Idle
<1>9. Named /\ Owned /\ Knows
  BY <1>3, <1>4, <1>8 DEF Named, Owned, Knows, Holds, Working
<1> QED  BY <1>5, <1>7, <1>8, <1>9 DEF Kept, AllTyped, WorkerTyped

LEMMA StepKept == ASSUME Dash!ConstantsAssumption, Kept, Dash!Step PROVE Kept'
  BY TakeKept, AddFinalizerKept, ResolveConfigKept, ListKept, CreateKept, UpdateBoardKept,
     CompareKept,
     SaveKept, ReportKept, RemoveKept, FinalizeKept DEF Dash!Step

LEMMA NextKept ==
    ASSUME Dash!ConstantsAssumption
    PROVE  Kept /\ [Dash!Next]_Dash!vars => Kept'
<1> SUFFICES ASSUME Kept, [Dash!Next]_Dash!vars PROVE Kept'
  OBVIOUS
<1>1. CASE UNCHANGED Dash!vars
  <2>1. UNCHANGED <<Dash!object, w, disturbed, boards>> /\ OutsideTyped'
    BY <1>1 DEF Dash!vars, Dash!ha, Dash!map, Kept, AllTyped, OutsideTyped
  <2> QED  BY <2>1, BoardsStay, AsideKept
<1>2. CASE Dash!Next
  <2>1. Edited \in Dashboards
    BY DEF Dash!ConstantsAssumption
  <2> QED  BY <1>2, <2>1, StepKept, EnvironmentKept, UserActsKept, CrashKept, EditKept,
     DeleteKept, ObserveKept DEF Dash!Next
<1> QED  BY <1>1, <1>2

\* A step of the worker that a dashboard does not survive as it was.
LEMMA StepKeepsOthers ==
    ASSUME Dash!ConstantsAssumption, Kept, Dash!Step, NEW b \in boards, b.path # Dash!Default,
           b \notin boards', w.who \notin disturbed
    PROVE  b.by = w.who
<1>1. CASE Dash!UpdateBoard \/ Dash!Save \/ Dash!Remove
  <2>1. Working /\ w.pc \in {"Update", "Save", "Remove"}
    BY <1>1 DEF Dash!UpdateBoard, Dash!Save, Dash!Remove, Working
  <2>2. w.who \in Dashboards /\ w.mine.path = cr[w.who].path /\ w.mine.id \in {Dash!NoPath,
     cr[w.who].path}
    BY <2>1, WorkerFields DEF Kept, Named
  <2>3. w.mine.id # Dash!NoPath \/ w.mine.path = Dash!Default
    BY <2>1 DEF Kept, Knows
  <2>4. b.path \in {w.mine.path, w.mine.id}
    <3>1. CASE Dash!UpdateBoard
      <4> DEFINE id == IF w.mine.id = Dash!NoPath THEN w.mine.path ELSE w.mine.id
      <4>1. \/ UNCHANGED boards
            \/ boards' = {IF c.path = id THEN [c EXCEPT !.title = w.mine.title] ELSE c : c \in boards}
        BY <3>1, Zenon DEF Dash!UpdateBoard
      <4>2. b.path = id
        BY <4>1
      <4> QED  BY <4>2
    <3>2. CASE Dash!Save
      BY <3>2 DEF Dash!Save
    <3>3. CASE Dash!Remove
      BY <3>3 DEF Dash!Remove, Dash!At
    <3> QED  BY <1>1, <3>1, <3>2, <3>3
  <2>5. CASE w.mine.id = Dash!NoPath
    <3>1. w.mine.path = Dash!Default /\ b.path = Dash!NoPath
      BY <2>3, <2>4, <2>5
    <3>2. b \in Dash!Board
      BY DEF Kept, AllTyped, OutsideTyped
    <3>3. Dash!Default # Dash!NoPath /\ b.path \in Paths \cup {Dash!Default}
      BY <3>2 DEF Dash!Board, Dash!Default, Dash!NoPath
    <3> QED  BY <3>1, <3>3 DEF Dash!ConstantsAssumption
  <2>6. CASE w.mine.id # Dash!NoPath
    <3>1. b.path = cr[w.who].path /\ Holds(w.who) /\ b \in Dash!At(cr[w.who].path)
      BY <2>1, <2>2, <2>4, <2>6 DEF Holds, Dash!At
    <3> QED  BY <2>2, <3>1 DEF Kept, Owned
  <2> QED  BY <2>5, <2>6
<1>2. CASE ~(Dash!UpdateBoard \/ Dash!Save \/ Dash!Remove)
  BY <1>2 DEF Dash!Step, Dash!Take, Dash!AddFinalizer, Dash!ResolveConfig, Dash!List,
     Dash!Create, Dash!Compare, Dash!Report, Dash!Finalize, Dash!ha
<1> QED  BY <1>1, <1>2

\* The state of the dashboard controller always has its type, for any number of dashboards,
\* paths, edits and faults.
THEOREM DashboardTypeTheorem ==
    ASSUME Dash!ConstantsAssumption
    PROVE  Dash!Spec => []Dash!TypeOK
<1>1. Kept => Dash!TypeOK
  BY AllTypedMeans DEF Kept
<1> QED  BY <1>1, InitKept, NextKept, PTL DEF Dash!Spec

\* OthersKept: no reconcile changes or removes a named dashboard that another resource or a
\* user made, unless somebody changed the resource's path, or removed its dashboard, so that
\* the ID in its status is a stranger's: for any number of dashboards, stale copies, crashes
\* and failures.
THEOREM OthersTheorem ==
    ASSUME Dash!ConstantsAssumption
    PROVE  Dash!Spec => Dash!OthersKept
<1> DEFINE Others == \A b \in boards :
                         (Dash!Step /\ b.path # Dash!Default /\ b \notin boards') => b.by = w.who \/ w.who \in disturbed
<1>1. Kept /\ [Dash!Next]_Dash!vars => [Others]_Dash!vars
  <2> SUFFICES ASSUME Kept PROVE Others
    OBVIOUS
  <2> QED  BY StepKeepsOthers
<1>2. [][Others]_Dash!vars => Dash!OthersKept
  BY PTL DEF Dash!OthersKept
<1> QED  BY <1>1, <1>2, InitKept, NextKept, PTL DEF Dash!Spec
=============================================================================
