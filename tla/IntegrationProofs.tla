------------------------- MODULE IntegrationProofs -------------------------
(***************************************************************************)
(* Proofs about Integration, for any number of resources, edits, entries   *)
(* and faults.  What a reconcile knows is what the copy it took is worth:  *)
(* as long as the copy is current it differs from the resource in the      *)
(* entry that the reconcile has removed, at most (Current), so that an     *)
(* entry the resource made is the one of its status (Owned) until the      *)
(* reconcile has removed it (Freed).                                       *)
(***************************************************************************)
EXTENDS Integration, FiniteSetTheorems, TLAPS

-----------------------------------------------------------------------------
(* Types.                                                                   *)

Objects == /\ cr \in [Resources -> Copy] /\ cached \in [Resources -> Copy]
           /\ fresh \in [Resources -> BOOLEAN] /\ \A r \in Resources : fresh[r] => cached[r] = cr[r]
Running == /\ pc \in Labels /\ cur \in Resources \cup {NoOne} /\ mine \in Copy /\ valid \in BOOLEAN
           /\ pc # "Idle" => cur \in Resources
Entry == [id : 1 .. MaxEntries, by : Resources \cup {"user"}, value : 0 .. MaxEdits]
Served == entries \subseteq Entry /\ made \in 0 .. MaxEntries /\ down \in BOOLEAN /\ temp \in BOOLEAN
Costs == lost \subseteq Resources /\ faults \in 0 .. MaxFaults
Typed == alone \in BOOLEAN /\ Objects /\ Running /\ Served /\ Costs /\ leaky \in BOOLEAN

LEMMA TypedIsTypeOK == Typed => TypeOK
  BY DEF Typed, TypeOK, Objects, Running, Served, Costs, Entry

LEMMA Constants ==
    /\ "user" \notin Resources /\ NoOne \notin Resources /\ 1 \in 1 .. MaxEdits /\ MaxEdits \in Nat
    /\ MaxEntries \in Nat /\ MaxFaults \in Nat /\ 0 \in 0 .. MaxEntries /\ 0 \in 0 .. MaxFaults
    /\ MaxFaults - 1 \in 0 .. MaxFaults /\ MaxEdits \in 1 .. MaxEdits
  BY ConstantsAssumption DEF NoOne

LEMMA BlankTyped == Blank \in Copy
  BY Constants DEF Blank, Copy, None

LEMMA Spending ==
    ASSUME Costs
    PROVE  /\ Spend => faults' \in 0 .. MaxFaults
           /\ Failure => faults' \in 0 .. MaxFaults
  BY Constants DEF Costs, Spend, Failure

LEMMA PutTyped ==
    ASSUME Objects, NEW r \in Resources, NEW copy \in Copy, Put(r, copy)
    PROVE  Objects'
  <1>1. /\ cr' = [cr EXCEPT ![r] = copy] /\ cached' = cached
        /\ fresh' = [fresh EXCEPT ![r] = fresh[r] /\ copy = cr[r]]
    BY DEF Put, Objects
  <1>2. fresh' \in [Resources -> BOOLEAN]
    BY <1>1 DEF Objects
  <1>3. ASSUME NEW q \in Resources, fresh'[q] PROVE cached'[q] = cr'[q]
    BY <1>1, <1>3 DEF Objects
  <1> QED
    BY <1>1, <1>2, <1>3 DEF Objects

LEMMA IdleTyped == Idle => Running'
  BY BlankTyped DEF Idle, Running, Labels

\* A reconcile is over, with that copy in the API server or without.
Ended(copy) ==
    /\ Idle /\ Objects' /\ Running' /\ Costs' /\ cached' = cached
    /\ \/ valid /\ cr' = [cr EXCEPT ![cur] = copy]
       \/ cr' = cr

LEMMA SaveShape ==
    ASSUME Typed, pc # "Idle", NEW copy \in Copy, Save(copy)
    PROVE  /\ Ended(copy)
           /\ \/ valid /\ cr' = [cr EXCEPT ![cur] = copy] /\ lost' = lost
              \/ cr' = cr /\ lost' = lost \cup Forgotten(copy)
  <1>1. cur \in Resources /\ Objects /\ Costs
    BY DEF Typed, Running
  <1>2. Idle /\ Running'
    BY IdleTyped DEF Save
  <1>3. Forgotten(copy) \subseteq Resources
    BY <1>1 DEF Forgotten
  <1>4. CASE valid /\ Put(cur, copy) /\ UNCHANGED <<lost, faults>>
    <2>1. Objects' /\ Costs' /\ cr' = [cr EXCEPT ![cur] = copy] /\ cached' = cached
      BY <1>1, <1>4, PutTyped DEF Put, Costs
    <2> QED
      BY <1>2, <1>4, <2>1 DEF Ended
  <1>5. CASE UNCHANGED object /\ lost' = lost \cup Forgotten(copy) /\ faults' \in 0 .. MaxFaults
    BY <1>1, <1>2, <1>3, <1>5 DEF Ended, Objects, Costs, object
  <1>6. UNCHANGED faults => faults' \in 0 .. MaxFaults
    BY <1>1 DEF Costs
  <1> QED
    BY <1>1, <1>4, <1>5, <1>6, Spending DEF Save

\* What a reconcile that fails leaves in the status.
Failed == [mine EXCEPT !.reason = "failed"]

LEMMA CallFailsShape ==
    ASSUME Typed, pc # "Idle", CallFails
    PROVE  Ended(Failed) /\ lost' = lost
  <1>1. cur \in Resources /\ Objects /\ Costs /\ mine \in Copy
    BY DEF Typed, Running
  <1>2. Failed \in Copy
    BY <1>1 DEF Failed, Copy
  <1>3. Idle /\ Running' /\ lost' = lost /\ Costs'
    BY <1>1, IdleTyped, Spending DEF CallFails, Costs
  <1>4. CASE valid /\ Put(cur, Failed)
    <2>1. Objects' /\ cr' = [cr EXCEPT ![cur] = Failed] /\ cached' = cached
      BY <1>1, <1>2, <1>4, PutTyped DEF Put
    <2> QED
      BY <1>3, <1>4, <2>1 DEF Ended
  <1>5. CASE UNCHANGED object
    BY <1>1, <1>3, <1>5 DEF Ended, Objects, object
  <1> QED
    BY <1>4, <1>5 DEF CallFails, Failed, Hashed

\* A reconcile goes on: with the same copy, or without the entry it has removed.
Goes(label, copy) ==
    /\ pc' = label /\ mine' = copy /\ cur' = cur /\ valid' = valid
    /\ cr' = cr /\ cached' = cached /\ Objects' /\ Running' /\ Costs'

LEMMA GotoShape ==
    ASSUME Typed, pc # "Idle", NEW label \in Labels, Goto(label)
    PROVE  Goes(label, mine) /\ lost' = lost
  BY DEF Goto, Goes, Typed, Objects, Running, Costs, object

\* The copies that are written.
Ready(copy, reason) == [Hashed(copy, TRUE) EXCEPT !.reason = reason]
LEMMA ReadyShape ==
    ASSUME NEW copy \in Copy, NEW reason \in {"configured", "adopted"}
    PROVE  /\ Ready(copy, reason) \in Copy /\ Ready(copy, reason).hash = copy.value
           /\ Ready(copy, reason).phase = copy.phase /\ Ready(copy, reason).entry = copy.entry
           /\ Ready(copy, reason).finalizer = copy.finalizer
  <1>1. \A v \in 1 .. MaxEdits : v \in 0 .. MaxEdits
    BY Constants
  <1> QED
    BY <1>1 DEF Ready, Copy, Hashed

WithEntry(id) == [mine EXCEPT !.entry = id]
LEMMA CopiesTyped ==
    ASSUME Typed
    PROVE  /\ mine \in Copy /\ Failed \in Copy /\ Failed.entry = mine.entry
           /\ Failed.phase = mine.phase /\ Failed.finalizer = mine.finalizer /\ Failed.hash = mine.hash
           /\ [mine EXCEPT !.finalizer = TRUE] \in Copy
           /\ [mine EXCEPT !.finalizer = FALSE, !.phase = "gone"] \in Copy
           /\ \A id \in 0 .. MaxEntries :
                 /\ WithEntry(id) \in Copy /\ WithEntry(id).entry = id
                 /\ WithEntry(id).phase = mine.phase /\ WithEntry(id).finalizer = mine.finalizer
                 /\ WithEntry(id).value = mine.value
           /\ WithEntry(None) \in Copy /\ WithEntry(None).entry = 0
  <1>1. mine \in Copy /\ 0 \in 0 .. MaxEntries
    BY Constants DEF Typed, Running
  <1> QED
    BY <1>1 DEF Failed, WithEntry, Copy, None

-----------------------------------------------------------------------------
(* What the steps of a reconcile do.                                        *)

\* IDs are those of entries that have been made.
Known == /\ \A r \in Resources : cr[r].entry <= made /\ cached[r].entry <= made
         /\ mine.entry <= made /\ \A e \in entries : e.id <= made
Ranged == Typed /\ Known

\* The reconcile is over, the entries are as before.
Ends(copy) == /\ copy \in Copy /\ Ended(copy) /\ lost \subseteq lost'
              /\ entries' = entries /\ made' = made
\* The reconcile goes on, the entries are as before.
GoesOn(label) == Goes(label, mine) /\ lost' = lost /\ entries' = entries /\ made' = made
\* The entry of the copy is not there any more.
Rid(label, copy) == /\ Goes(label, copy) /\ entries' = {e \in entries : e.id # mine.entry}
                    /\ lost' = lost /\ made' = made

LEMMA EndsTyped ==
    ASSUME Ranged, NEW copy, Ends(copy), copy.entry <= made, UNCHANGED alone, down' \in BOOLEAN,
           temp' \in BOOLEAN, leaky' \in BOOLEAN
    PROVE  Ranged'
  <1>1. Typed'
    BY DEF Ranged, Typed, Ends, Ended, Served
  <1>2. cr \in [Resources -> Copy] /\ made \in Nat
    BY Constants DEF Ranged, Typed, Objects, Served
  <1>3. \A r \in Resources : cr'[r].entry <= made
    BY <1>2 DEF Ends, Ended, Ranged, Known
  <1>4. mine'.entry <= made
    BY <1>2 DEF Ends, Ended, Idle, Blank, None
  <1> QED
    BY <1>1, <1>3, <1>4 DEF Ranged, Known, Ends, Ended

LEMMA GoesTyped ==
    ASSUME Ranged, NEW label, NEW copy, Goes(label, copy), copy.entry <= made, entries' \subseteq entries,
           made' = made, UNCHANGED alone, down' \in BOOLEAN, temp' \in BOOLEAN, leaky' \in BOOLEAN
    PROVE  Ranged'
  BY DEF Ranged, Typed, Known, Goes, Served

LEMMA StartShape ==
    ASSUME Ranged, NEW r \in Resources, Start(r), UNCHANGED alone
    PROVE  /\ Ranged' /\ pc = "Idle" /\ pc' # "Idle" /\ cur' = r /\ mine' = cached[r] /\ valid' = fresh[r]
           /\ cached[r].phase # "gone" /\ UNCHANGED <<cr, entries, lost, temp, leaky>>
           /\ pc' \in {"Cleanup", "Finalize", "AddFinalizer", "Remove", "Verify", "Check"}
           /\ pc' \in {"Finalize", "Check"} => cached[r].entry = None
           /\ pc' = "Verify" => cached[r].hash = cached[r].value
           /\ pc' \in {"Remove", "Verify", "Check"} => cached[r].finalizer
  <1>1. /\ pc = "Idle" /\ cur' = r /\ mine' = cached[r] /\ valid' = fresh[r]
        /\ cached[r].phase # "gone" /\ UNCHANGED <<object, world, lost, leaky, faults>>
    BY DEF Start
  <1>2. cached[r].entry # None => NeedsCleanup(cached[r])
    BY DEF NeedsCleanup
  <1>3. /\ pc' \in {"Cleanup", "Finalize", "AddFinalizer", "Remove", "Verify", "Check"}
        /\ pc' \in {"Finalize", "Check"} => cached[r].entry = None
        /\ pc' = "Verify" => cached[r].hash = cached[r].value
        /\ pc' \in {"Remove", "Verify", "Check"} => cached[r].finalizer
    <2>1. CASE cached[r].phase = "deleting"
      BY <1>2, <2>1 DEF Start
    <2>2. CASE cached[r].phase # "deleting" /\ ~cached[r].finalizer
      BY <2>2 DEF Start
    <2>3. CASE cached[r].phase # "deleting" /\ cached[r].finalizer
      BY <2>3 DEF Start, Outdated
    <2> QED
      BY <2>1, <2>2, <2>3
  <1>4. Running'
    BY <1>1, <1>3 DEF Running, Labels, Ranged, Typed, Objects
  <1>5. Typed'
    BY <1>1, <1>4 DEF Ranged, Typed, Objects, Served, Costs, object, world
  <1>6. Known'
    BY <1>1 DEF Ranged, Known, object, world
  <1> QED
    BY <1>1, <1>3, <1>5, <1>6 DEF Ranged, object, world

LEMMA SaveEnds ==
    ASSUME Ranged, pc # "Idle", NEW copy \in Copy, Save(copy), entries' = entries, made' = made
    PROVE  Ends(copy)
  BY SaveShape DEF Ends, Ranged

LEMMA CallFailsEnds ==
    ASSUME Ranged, pc # "Idle", CallFails, entries' = entries, made' = made
    PROVE  Ends(Failed) /\ Failed.entry <= made
  BY CallFailsShape, CopiesTyped DEF Ends, Ranged, Known

LEMMA AddFinalizerShape ==
    ASSUME Ranged, AddFinalizer, UNCHANGED alone
    PROVE  /\ pc = "AddFinalizer" /\ Ends([mine EXCEPT !.finalizer = TRUE]) /\ Ranged'
           /\ UNCHANGED <<temp, leaky>>
  <1> DEFINE copy == [mine EXCEPT !.finalizer = TRUE]
  <1>1. copy \in Copy /\ copy.entry <= made
    BY CopiesTyped DEF Ranged, Known, Copy
  <1>2. pc = "AddFinalizer" /\ Save(copy) /\ UNCHANGED <<entries, made, down, temp, leaky>>
    BY DEF AddFinalizer, world
  <1> HIDE DEF copy
  <1>3. Ends(copy)
    BY <1>1, <1>2, SaveEnds
  <1>4. down' \in BOOLEAN /\ temp' \in BOOLEAN /\ leaky' \in BOOLEAN
    BY <1>2 DEF Ranged, Typed, Served
  <1>5. Ranged'
    BY <1>1, <1>3, <1>4, EndsTyped
  <1> QED
    BY <1>2, <1>3, <1>5 DEF copy

LEMMA CleanupShape ==
    ASSUME Ranged, Cleanup, UNCHANGED alone
    PROVE  /\ pc = "Cleanup" /\ Ranged' /\ UNCHANGED <<temp, leaky>>
           /\ \/ Rid("Finalize", mine)
              \/ Goes("Finalize", mine) /\ entries' = entries /\ lost' = lost \cup {cur}
  <1>1. pc = "Cleanup" /\ cur \in Resources /\ Costs /\ Objects /\ Running
    BY DEF Cleanup, Ranged, Typed, Running
  <1>2. pc' = "Finalize" /\ UNCHANGED <<object, cur, mine, valid, made, down, temp, leaky>>
    BY DEF Cleanup, AfterCleanup
  <1>3. \/ entries' = {e \in entries : e.id # mine.entry} /\ lost' = lost /\ faults' = faults
        \/ entries' = entries /\ lost' = lost \cup {cur} /\ Failure
    BY DEF Cleanup
  <1>4. Costs' /\ Objects' /\ Running'
    BY <1>1, <1>2, <1>3, Spending DEF Costs, Objects, Running, Labels, object
  <1>5. Goes("Finalize", mine)
    BY <1>2, <1>4 DEF Goes, object
  <1>6. down' \in BOOLEAN /\ temp' \in BOOLEAN /\ leaky' \in BOOLEAN /\ mine.entry <= made
    BY <1>2 DEF Ranged, Typed, Served, Known
  <1>7. Ranged'
    BY <1>2, <1>3, <1>5, <1>6, GoesTyped
  <1> QED
    BY <1>1, <1>2, <1>3, <1>5, <1>7 DEF Rid

LEMMA FinalizeShape ==
    ASSUME Ranged, Finalize, UNCHANGED alone
    PROVE  /\ pc = "Finalize" /\ Ends([mine EXCEPT !.finalizer = FALSE, !.phase = "gone"]) /\ Ranged'
           /\ UNCHANGED <<temp, leaky>>
  <1> DEFINE copy == [mine EXCEPT !.finalizer = FALSE, !.phase = "gone"]
  <1>1. copy \in Copy /\ copy.entry <= made
    BY CopiesTyped DEF Ranged, Known, Copy
  <1>2. pc = "Finalize" /\ Idle /\ UNCHANGED <<entries, made, down, temp, lost, leaky>>
    BY DEF Finalize, world
  <1>3. \/ valid /\ Put(cur, copy) /\ UNCHANGED faults
        \/ UNCHANGED object /\ (UNCHANGED faults \/ Spend)
    BY DEF Finalize
  <1>4. cur \in Resources /\ Costs /\ Objects /\ Running'
    BY <1>2, IdleTyped DEF Ranged, Typed, Running
  <1>5. Costs'
    BY <1>2, <1>3, <1>4, Spending DEF Costs
  <1> HIDE DEF copy
  <1>6. /\ Objects' /\ cached' = cached
        /\ \/ valid /\ cr' = [cr EXCEPT ![cur] = copy]
           \/ cr' = cr
    BY <1>1, <1>3, <1>4, PutTyped DEF Put, Objects, object
  <1>7. Ends(copy)
    BY <1>1, <1>2, <1>4, <1>5, <1>6 DEF Ends, Ended
  <1>8. down' \in BOOLEAN /\ temp' \in BOOLEAN /\ leaky' \in BOOLEAN
    BY <1>2 DEF Ranged, Typed, Served
  <1>9. Ranged'
    BY <1>1, <1>7, <1>8, EndsTyped
  <1> QED
    BY <1>2, <1>7, <1>9 DEF copy

\* The copy without its entry.
LEMMA ForgetShape ==
    ASSUME Ranged, pc # "Idle", mine' = [mine EXCEPT !.entry = None], pc' = "Check",
           UNCHANGED <<object, cur, valid, lost, faults>>
    PROVE  Goes("Check", WithEntry(None)) /\ WithEntry(None).entry <= made
  <1>1. WithEntry(None) \in Copy /\ WithEntry(None).entry = 0 /\ made \in Nat
    BY CopiesTyped, Constants DEF Ranged, Typed, Served
  <1>2. Running' /\ Objects' /\ Costs'
    BY <1>1 DEF Ranged, Typed, Running, Objects, Costs, Labels, WithEntry, object
  <1> QED
    BY <1>1, <1>2 DEF Goes, WithEntry, object

LEMMA RemoveShape ==
    ASSUME Ranged, Remove, UNCHANGED alone
    PROVE  /\ pc = "Remove" /\ Ranged' /\ UNCHANGED <<temp, leaky>>
           /\ Rid("Check", WithEntry(None)) \/ Ends(Failed)
  <1>1. pc = "Remove" /\ UNCHANGED <<made, down, temp, leaky>>
    BY DEF Remove
  <1>2. down' \in BOOLEAN /\ temp' \in BOOLEAN /\ leaky' \in BOOLEAN
    BY <1>1 DEF Ranged, Typed, Served
  <1>3. CASE /\ entries' = {e \in entries : e.id # mine.entry} /\ mine' = [mine EXCEPT !.entry = None]
             /\ pc' = "Check" /\ UNCHANGED <<object, cur, valid, lost, faults>>
    <2>1. Goes("Check", WithEntry(None)) /\ WithEntry(None).entry <= made
      BY <1>1, <1>3, ForgetShape
    <2>2. Ranged'
      BY <1>1, <1>2, <1>3, <2>1, GoesTyped
    <2> QED
      BY <1>1, <1>3, <2>1, <2>2 DEF Rid
  <1>4. CASE CallFails /\ UNCHANGED entries
    BY <1>1, <1>2, <1>4, CallFailsEnds, EndsTyped
  <1> QED
    BY <1>3, <1>4 DEF Remove

LEMMA VerifyShape ==
    ASSUME Ranged, Verify, UNCHANGED alone
    PROVE  /\ pc = "Verify" /\ Ranged' /\ UNCHANGED <<temp, leaky>>
           /\ \/ Ends(Ready(mine, "configured"))
              \/ Rid("Check", WithEntry(None)) \/ Ends(Failed)
  <1>1. pc = "Verify" /\ UNCHANGED <<entries, made, down, temp, leaky>>
    BY DEF Verify, world
  <1>2. down' \in BOOLEAN /\ temp' \in BOOLEAN /\ leaky' \in BOOLEAN
    BY <1>1 DEF Ranged, Typed, Served
  <1>3. CASE SetReady(mine, "configured")
    <2>1. Ready(mine, "configured") \in Copy /\ Ready(mine, "configured").entry <= made
      BY ReadyShape, CopiesTyped DEF Ranged, Known
    <2>2. Save(Ready(mine, "configured"))
      BY <1>3 DEF SetReady, Ready
    <2> QED
      BY <1>1, <1>2, <2>1, <2>2, SaveEnds, EndsTyped
  <1>4. CASE /\ \A e \in entries : e.id # mine.entry
             /\ mine' = [mine EXCEPT !.entry = None] /\ pc' = "Check"
             /\ UNCHANGED <<object, cur, valid, lost, faults>>
    <2>1. Goes("Check", WithEntry(None)) /\ WithEntry(None).entry <= made
      BY <1>1, <1>4, ForgetShape
    <2>2. Ranged'
      BY <1>1, <1>2, <2>1, GoesTyped
    <2>3. entries = {e \in entries : e.id # mine.entry}
      BY <1>4
    <2> QED
      BY <1>1, <1>4, <2>1, <2>2, <2>3 DEF Rid
  <1>5. CASE CallFails
    BY <1>1, <1>2, <1>5, CallFailsEnds, EndsTyped
  <1> QED
    BY <1>3, <1>4, <1>5 DEF Verify

LEMMA CheckShape ==
    ASSUME Ranged, Check, UNCHANGED alone
    PROVE  /\ pc = "Check" /\ Ranged' /\ UNCHANGED <<temp, leaky>>
           /\ \/ GoesOn("Adopt")
              \/ GoesOn("StartFlow") /\ entries = {}
              \/ Ends(Failed)
  <1>1. pc = "Check" /\ UNCHANGED <<entries, made, down, temp, leaky>>
    BY DEF Check, world
  <1>2. down' \in BOOLEAN /\ temp' \in BOOLEAN /\ leaky' \in BOOLEAN /\ mine.entry <= made
    BY <1>1 DEF Ranged, Typed, Served, Known
  <1>3. ASSUME NEW label \in {"Adopt", "StartFlow"}, Goto(label)
        PROVE  GoesOn(label) /\ Ranged'
    <2>1. GoesOn(label)
      BY <1>1, <1>3, GotoShape DEF GoesOn, Ranged, Labels
    <2> QED
      BY <1>1, <1>2, <2>1, GoesTyped DEF GoesOn
  <1>4. CallFails => Ends(Failed) /\ Ranged'
    BY <1>1, <1>2, CallFailsEnds, EndsTyped
  <1> QED
    BY <1>1, <1>3, <1>4 DEF Check, Configured

LEMMA AdoptShape ==
    ASSUME Ranged, Adopt, UNCHANGED alone
    PROVE  /\ pc = "Adopt" /\ Ranged' /\ UNCHANGED <<temp, leaky>>
           /\ \E copy \in Copy : Ends(copy) /\ (copy.phase = mine.phase /\ copy.finalizer = mine.finalizer)
  <1>1. pc = "Adopt" /\ UNCHANGED <<entries, made, down, temp, leaky>>
    BY DEF Adopt, world
  <1>2. down' \in BOOLEAN /\ temp' \in BOOLEAN /\ leaky' \in BOOLEAN
    BY <1>1 DEF Ranged, Typed, Served
  <1>3. ASSUME NEW copy \in Copy, Save(copy), copy.entry <= made
        PROVE  Ends(copy) /\ Ranged'
    BY <1>1, <1>2, <1>3, SaveEnds, EndsTyped
  <1>4. ASSUME NEW e \in entries, SetReady([mine EXCEPT !.entry = e.id], "adopted")
        PROVE  \E copy \in Copy : /\ Save(copy) /\ copy.entry <= made
                                  /\ copy.phase = mine.phase /\ copy.finalizer = mine.finalizer
    <2>1. e.id \in 0 .. MaxEntries /\ e.id <= made
      BY Constants DEF Ranged, Typed, Served, Known, Entry
    <2>2. /\ WithEntry(e.id) \in Copy /\ WithEntry(e.id).entry = e.id
          /\ WithEntry(e.id).phase = mine.phase /\ WithEntry(e.id).finalizer = mine.finalizer
      BY <2>1, CopiesTyped DEF Ranged
    <2>3. Save(Ready(WithEntry(e.id), "adopted"))
      BY <1>4 DEF SetReady, Ready, WithEntry
    <2> DEFINE copy == Ready(WithEntry(e.id), "adopted")
    <2>4. /\ copy \in Copy /\ copy.entry = e.id /\ copy.phase = mine.phase
          /\ copy.finalizer = mine.finalizer
      BY <2>2, ReadyShape
    <2> HIDE DEF copy
    <2>5. Save(copy) /\ copy.entry <= made
      BY <2>1, <2>3, <2>4 DEF copy
    <2> QED
      BY <2>4, <2>5
  <1>5. SetFailed(mine) => Save(Failed)
    BY DEF SetFailed, Failed, Hashed
  <1>6. /\ Failed \in Copy /\ Failed.entry <= made
        /\ Failed.phase = mine.phase /\ Failed.finalizer = mine.finalizer
    BY CopiesTyped DEF Ranged, Known
  <1>7. CallFails => Ends(Failed) /\ Ranged'
    BY <1>1, <1>2, CallFailsEnds, EndsTyped
  <1> QED
    BY <1>1, <1>3, <1>4, <1>5, <1>6, <1>7 DEF Adopt

\* The reconcile is over with a new entry, which the status has, or whose ID is lost.
New == [id |-> made + 1, by |-> cur, value |-> mine.value]
Creates ==
    \E copy \in Copy :
        /\ Ended(copy) /\ made < MaxEntries /\ made' = made + 1
        /\ entries' = entries \cup {New} /\ lost \subseteq lost'
        /\ \/ cur \in lost'
           \/ /\ valid /\ cr' = [cr EXCEPT ![cur] = copy]
              /\ copy.entry = made + 1 /\ copy.hash = mine.value
              /\ copy.phase = mine.phase /\ copy.finalizer = mine.finalizer

LEMMA MadeTyped ==
    ASSUME Ranged, pc # "Idle", NEW copy \in Copy, Ended(copy), made < MaxEntries, made' = made + 1,
           entries' = entries \cup {New}, copy.entry <= made + 1, UNCHANGED alone, down' \in BOOLEAN,
           temp' \in BOOLEAN, leaky' \in BOOLEAN
    PROVE  Ranged'
  <1>1. made \in 0 .. MaxEntries /\ made' \in 0 .. MaxEntries /\ made' \in 1 .. MaxEntries
        /\ made \in Nat /\ made <= made + 1
    BY Constants DEF Ranged, Typed, Served
  <1>2. New \in Entry /\ New.id = made + 1
    <2>1. mine.value \in 0 .. MaxEdits
      BY Constants DEF Ranged, Typed, Running, Copy
    <2> QED
      BY <1>1, <2>1 DEF New, Entry, Ranged, Typed, Running
  <1>3. Typed'
    BY <1>1, <1>2 DEF Ranged, Typed, Ended, Served
  <1>4. cr \in [Resources -> Copy] /\ cached \in [Resources -> Copy]
    BY DEF Ranged, Typed, Objects
  <1>5. \A r \in Resources : cr[r].entry \in Nat /\ cached[r].entry \in Nat
    BY <1>4 DEF Copy
  <1>6. \A r \in Resources : cr'[r].entry <= made + 1 /\ cached'[r].entry <= made + 1
    <2>1. \A r \in Resources : cr[r].entry <= made + 1 /\ cached[r].entry <= made + 1
      BY <1>1, <1>5 DEF Ranged, Known
    <2> QED
      BY <1>4, <2>1 DEF Ended
  <1>7. mine'.entry <= made + 1
    BY <1>1 DEF Ended, Idle, Blank, None
  <1>8. \A e \in entries' : e.id <= made + 1
    <2>1. \A e \in entries : e.id \in Nat
      BY DEF Ranged, Typed, Served, Entry
    <2> QED
      BY <1>1, <1>2, <2>1 DEF Ranged, Known
  <1> QED
    BY <1>1, <1>3, <1>6, <1>7, <1>8 DEF Ranged, Known

LEMMA FailedShape ==
    ASSUME Ranged
    PROVE  /\ Failed \in Copy /\ Failed.entry <= made /\ Failed.entry <= made + 1
  <1>1. made \in Nat /\ mine.entry \in Nat /\ mine.entry <= made
    BY DEF Ranged, Typed, Served, Running, Copy, Known
  <1> QED
    BY <1>1, CopiesTyped DEF Ranged

LEMMA CreateEntryShape ==
    ASSUME Ranged, pc # "Idle", CreateEntry, UNCHANGED alone, down' \in BOOLEAN,
           temp' \in BOOLEAN, leaky' \in BOOLEAN
    PROVE  Creates /\ Ranged'
  <1>1. /\ made < MaxEntries /\ made' = made + 1 /\ entries' = entries \cup {New}
    BY DEF CreateEntry, Make, New
  <1>2. made + 1 \in 0 .. MaxEntries /\ cur \in Resources /\ made \in Nat /\ made + 1 # None
        /\ made + 1 <= made + 1 /\ mine.value \in 0 .. MaxEdits
    BY <1>1, Constants DEF Ranged, Typed, Served, Running, None, Copy
  <1>3. CASE SetReady([mine EXCEPT !.entry = made + 1], "configured")
    <2> DEFINE copy == Ready(WithEntry(made + 1), "configured")
    <2>1. /\ WithEntry(made + 1) \in Copy /\ WithEntry(made + 1).entry = made + 1
          /\ WithEntry(made + 1).phase = mine.phase /\ WithEntry(made + 1).finalizer = mine.finalizer
          /\ WithEntry(made + 1).value = mine.value
      BY <1>2, CopiesTyped DEF Ranged
    <2>2. /\ copy \in Copy /\ copy.entry = made + 1 /\ copy.hash = mine.value
          /\ copy.phase = mine.phase /\ copy.finalizer = mine.finalizer
      BY <2>1, ReadyShape
    <2>3. Save(copy)
      BY <1>3 DEF SetReady, Ready, WithEntry
    <2> HIDE DEF copy
    <2>4. /\ Ended(copy)
          /\ \/ valid /\ cr' = [cr EXCEPT ![cur] = copy] /\ lost' = lost
             \/ cr' = cr /\ lost' = lost \cup Forgotten(copy)
      BY <2>2, <2>3, SaveShape DEF Ranged
    <2>5. cr[cur].entry <= made
      BY <1>2 DEF Ranged, Known
    <2>6. cr[cur].entry # made + 1
      BY <1>2, <2>5
    <2>7. cur \in Forgotten(copy)
      BY <1>2, <2>2, <2>6 DEF Forgotten
    <2>8. Creates
      BY <1>1, <2>2, <2>4, <2>7 DEF Creates
    <2> QED
      BY <1>1, <1>2, <2>2, <2>4, <2>8, MadeTyped
  <1>4. CASE /\ Spend /\ Idle /\ lost' = lost \cup {cur}
             /\ IF valid THEN Put(cur, [Hashed(mine, TRUE) EXCEPT !.reason = "configured"])
                ELSE UNCHANGED object
    <2> DEFINE copy == Ready(mine, "configured")
    <2>1. copy \in Copy /\ copy.entry <= made + 1
      BY ReadyShape, CopiesTyped, FailedShape DEF Ranged, Failed, Copy
    <2>2. IF valid THEN Put(cur, copy) ELSE UNCHANGED object
      BY <1>4 DEF Ready
    <2> HIDE DEF copy
    <2>3. Objects' /\ cached' = cached /\ ((valid /\ cr' = [cr EXCEPT ![cur] = copy]) \/ cr' = cr)
      BY <1>2, <2>1, <2>2, PutTyped DEF Put, Ranged, Typed, Objects, object
    <2>4. Costs' /\ Running'
      BY <1>2, <1>4, Spending, IdleTyped DEF Ranged, Typed, Costs
    <2>5. Ended(copy) /\ cur \in lost' /\ lost \subseteq lost'
      BY <1>4, <2>3, <2>4 DEF Ended
    <2>6. Creates
      BY <1>1, <2>1, <2>5 DEF Creates
    <2> QED
      BY <1>1, <2>1, <2>5, <2>6, MadeTyped
  <1> QED
    BY <1>3, <1>4 DEF CreateEntry

LEMMA StartFlowShape ==
    ASSUME Ranged, StartFlow, UNCHANGED alone
    PROVE  /\ pc = "StartFlow" /\ Ranged' /\ UNCHANGED <<temp, leaky>>
           /\ \/ \E label \in {"Upload", "Submit", "Adopt"} : GoesOn(label)
              \/ Creates \/ Ends(Failed)
  <1>1. pc = "StartFlow" /\ UNCHANGED <<down, temp, leaky>>
    BY DEF StartFlow
  <1>2. down' \in BOOLEAN /\ temp' \in BOOLEAN /\ leaky' \in BOOLEAN /\ mine.entry <= made
    BY <1>1 DEF Ranged, Typed, Served, Known
  <1>3. ASSUME NEW label \in {"Upload", "Submit", "Adopt"}, Goto(label), UNCHANGED <<entries, made>>
        PROVE  GoesOn(label) /\ Ranged'
    <2>1. GoesOn(label)
      BY <1>1, <1>3, GotoShape DEF GoesOn, Ranged, Labels
    <2> QED
      BY <1>2, <1>3, <2>1, GoesTyped DEF GoesOn
  <1>4. CallFails /\ UNCHANGED <<entries, made>> => Ends(Failed) /\ Ranged'
    BY <1>1, <1>2, CallFailsEnds, EndsTyped
  <1>5. SetFailed(mine) /\ UNCHANGED <<entries, made>> => Ends(Failed) /\ Ranged'
    <2>1. SetFailed(mine) => Save(Failed)
      BY DEF SetFailed, Failed, Hashed
    <2> QED
      BY <1>1, <1>2, <2>1, FailedShape, SaveEnds, EndsTyped
  <1>6. CreateEntry => Creates /\ Ranged'
    BY <1>1, <1>2, CreateEntryShape
  <1> QED
    BY <1>1, <1>3, <1>4, <1>5, <1>6 DEF StartFlow

LEMMA CleanUpShape ==
    ASSUME Ranged, pc # "Idle", CleanUpAndFail, UNCHANGED <<alone, entries, made, down>>
    PROVE  /\ Ranged' /\ Ends(Failed)
           /\ temp' = FALSE \/ leaky'
  <1>1. CallFails /\ ((temp' = FALSE /\ leaky' = leaky) \/ (leaky' = TRUE /\ temp' = temp))
    BY DEF CleanUpAndFail, Cleaned
  <1>2. down' \in BOOLEAN /\ temp' \in BOOLEAN /\ leaky' \in BOOLEAN
    BY <1>1 DEF Ranged, Typed, Served
  <1> QED
    BY <1>1, <1>2, CallFailsEnds, EndsTyped

LEMMA UploadShape ==
    ASSUME Ranged, Upload, UNCHANGED alone
    PROVE  /\ pc = "Upload" /\ Ranged'
           /\ \/ GoesOn("Submit") /\ leaky' = leaky
              \/ Ends(Failed) /\ (temp' = FALSE \/ leaky')
  <1>1. pc = "Upload" /\ UNCHANGED <<entries, made, down>>
    BY DEF Upload
  <1>2. CASE temp' = TRUE /\ Goto("Submit") /\ UNCHANGED leaky
    <2>1. GoesOn("Submit")
      BY <1>1, <1>2, GotoShape DEF GoesOn, Ranged, Labels
    <2>2. down' \in BOOLEAN /\ temp' \in BOOLEAN /\ leaky' \in BOOLEAN /\ mine.entry <= made
      BY <1>1, <1>2 DEF Ranged, Typed, Served, Known
    <2>3. Ranged'
      BY <2>1, <2>2, GoesTyped DEF GoesOn
    <2> QED
      BY <1>1, <1>2, <2>1, <2>3
  <1>3. CASE CleanUpAndFail
    BY <1>1, <1>3, CleanUpShape
  <1> QED
    BY <1>2, <1>3 DEF Upload

LEMMA SubmitShape ==
    ASSUME Ranged, Submit, UNCHANGED alone
    PROVE  /\ pc = "Submit" /\ Ranged'
           /\ \/ Creates /\ temp' = FALSE
              \/ Ends(Failed) /\ (temp' = FALSE \/ leaky')
  <1>1. pc = "Submit" /\ cur \in Resources /\ UNCHANGED down /\ down' \in BOOLEAN
    BY DEF Submit, Ranged, Typed, Served, Running
  <1>2. CASE CreateEntry /\ temp' = FALSE /\ UNCHANGED leaky
    <2>1. temp' \in BOOLEAN /\ leaky' \in BOOLEAN
      BY <1>2 DEF Ranged, Typed
    <2> QED
      BY <1>1, <1>2, <2>1, CreateEntryShape
  <1>3. CASE CleanUpAndFail /\ UNCHANGED <<entries, made>>
    BY <1>1, <1>3, CleanUpShape
  <1>4. CASE /\ Make /\ Spend /\ Idle /\ temp' = FALSE /\ UNCHANGED leaky /\ lost' = lost \cup {cur}
             /\ IF valid THEN Put(cur, [Hashed(mine, FALSE) EXCEPT !.reason = "failed"])
                ELSE UNCHANGED object
    <2>1. /\ made < MaxEntries /\ made' = made + 1 /\ entries' = entries \cup {New}
      BY <1>4 DEF Make, New
    <2>2. IF valid THEN Put(cur, Failed) ELSE UNCHANGED object
      BY <1>4 DEF Failed, Hashed
    <2>3. Failed \in Copy /\ Failed.entry <= made + 1
      BY FailedShape
    <2>4. Objects' /\ cached' = cached /\ ((valid /\ cr' = [cr EXCEPT ![cur] = Failed]) \/ cr' = cr)
      BY <1>1, <2>2, <2>3, PutTyped DEF Put, Ranged, Typed, Objects, object
    <2>5. Costs' /\ Running' /\ Idle
      BY <1>1, <1>4, Spending, IdleTyped DEF Ranged, Typed, Costs
    <2>6. Ended(Failed) /\ cur \in lost' /\ lost \subseteq lost'
      BY <1>4, <2>4, <2>5 DEF Ended
    <2>7. Creates
      BY <2>1, <2>3, <2>6 DEF Creates
    <2>8. temp' \in BOOLEAN /\ leaky' \in BOOLEAN
      BY <1>4 DEF Ranged, Typed
    <2> QED
      BY <1>1, <1>4, <2>1, <2>3, <2>6, <2>7, <2>8, MadeTyped
  <1> QED
    BY <1>2, <1>3, <1>4 DEF Submit

-----------------------------------------------------------------------------
(* What others do.                                                          *)

\* A person edits or deletes a resource: a reconcile of it has an old copy.
Touched(r) ==
    \E copy \in Copy :
        /\ cr' = [cr EXCEPT ![r] = copy] /\ cr[r].phase = "live"
        /\ copy.entry = cr[r].entry /\ copy.hash = cr[r].hash /\ copy.finalizer = cr[r].finalizer
        /\ copy.phase = "gone" => ~cr[r].finalizer
        /\ valid' => valid /\ cur # r

LEMMA TouchShape ==
    ASSUME Ranged, NEW r \in Resources, Edit(r) \/ Delete(r), UNCHANGED alone
    PROVE  Touched(r) /\ Ranged' /\ UNCHANGED <<entries, pc, cur, mine, lost, temp, leaky>>
  <1>0. Ranged /\ cr \in [Resources -> Copy] /\ cr[r] \in Copy
    BY DEF Ranged, Typed, Objects
  <1>1. PICK copy \in Copy :
          /\ Touch(r, copy) /\ cr[r].phase = "live"
          /\ copy.entry = cr[r].entry /\ copy.hash = cr[r].hash /\ copy.finalizer = cr[r].finalizer
          /\ copy.phase = "gone" => ~cr[r].finalizer
    <2>1. CASE Edit(r)
      <3> DEFINE new == [cr[r] EXCEPT !.value = @ + 1]
      <3>1. Touch(r, new) /\ cr[r].phase = "live" /\ cr[r].value < MaxEdits
        BY <2>1 DEF Edit
      <3>2. cr[r].value + 1 \in 1 .. MaxEdits
        BY <1>0, <3>1, Constants DEF Copy
      <3>3. new \in Copy /\ new.entry = cr[r].entry /\ new.hash = cr[r].hash
            /\ new.finalizer = cr[r].finalizer /\ new.phase = cr[r].phase
        BY <1>0, <3>2 DEF Copy
      <3> HIDE DEF new
      <3> QED
        BY <3>1, <3>3
    <2>2. CASE Delete(r)
      <3> DEFINE new == [cr[r] EXCEPT !.phase = IF cr[r].finalizer THEN "deleting" ELSE "gone"]
      <3>1. Touch(r, new) /\ cr[r].phase = "live"
        BY <2>2 DEF Delete
      <3>2. new \in Copy /\ new.entry = cr[r].entry /\ new.hash = cr[r].hash
            /\ new.finalizer = cr[r].finalizer /\ (new.phase = "gone" => ~cr[r].finalizer)
        BY <1>0 DEF Copy
      <3> HIDE DEF new
      <3> QED
        BY <3>1, <3>2
    <2> QED
      BY <2>1, <2>2
  <1>2. UNCHANGED <<world, pc, cur, mine, lost, leaky, faults>> /\ valid' = (valid /\ cur # r)
        /\ Put(r, copy)
    BY <1>1 DEF Edit, Delete, Touch
  <1>3. Objects' /\ cr' = [cr EXCEPT ![r] = copy] /\ cached' = cached
    BY <1>2, PutTyped DEF Put, Ranged, Typed
  <1>4. Touched(r)
    BY <1>1, <1>2, <1>3 DEF Touched
  <1>5. Running'
    BY <1>2 DEF Ranged, Typed, Running
  <1>6. Typed'
    BY <1>2, <1>3, <1>5 DEF Ranged, Typed, Served, Costs, world
  <1>7. Known'
    BY <1>0, <1>1, <1>2, <1>3 DEF Ranged, Known, world
  <1> QED
    BY <1>2, <1>4, <1>6, <1>7 DEF Ranged, world

LEMMA ObserveShape ==
    ASSUME Ranged, NEW r \in Resources, Observe(r), UNCHANGED alone
    PROVE  Ranged' /\ UNCHANGED <<cr, entries, run, lost, temp, leaky>>
  <1>1. /\ cached' = [cached EXCEPT ![r] = cr[r]] /\ fresh' = [fresh EXCEPT ![r] = TRUE]
        /\ UNCHANGED <<cr, world, run, lost, leaky, faults>>
    BY DEF Observe
  <1>2. Objects'
    BY <1>1 DEF Ranged, Typed, Objects
  <1>3. Typed'
    BY <1>1, <1>2 DEF Ranged, Typed, Served, Costs, Running, world, run
  <1>4. Known'
    BY <1>1 DEF Ranged, Typed, Objects, Known, world, run
  <1> QED
    BY <1>1, <1>3, <1>4 DEF Ranged, world

LEMMA UserShape ==
    ASSUME Ranged, UserAdds \/ (\E e \in entries : UserRemoves(e)), UNCHANGED alone
    PROVE  /\ Ranged' /\ UNCHANGED <<cr, run, lost, temp, leaky>>
           /\ \A e \in entries' : e.by = "user" \/ e \in entries
  <1>1. Costs /\ made \in 0 .. MaxEntries /\ UNCHANGED <<object, run, down, temp, lost, leaky>>
        /\ faults' \in 0 .. MaxFaults
    BY Spending DEF Ranged, Typed, Served, UserAdds, UserRemoves
  <1>2. Objects' /\ Running' /\ Costs'
    BY <1>1 DEF Ranged, Typed, Objects, Running, Costs, object, run
  <1>3. CASE UserAdds
    <2>1. /\ made' = made + 1 /\ made < MaxEntries
          /\ entries' = entries \cup {[id |-> made + 1, by |-> "user", value |-> 0]}
      BY <1>3 DEF UserAdds
    <2>2. made \in Nat /\ made' \in 0 .. MaxEntries /\ made' \in 1 .. MaxEntries /\ 0 \in 0 .. MaxEdits
      BY <1>1, <2>1, Constants
    <2>3. [id |-> made + 1, by |-> "user", value |-> 0] \in Entry
      BY <2>1, <2>2 DEF Entry
    <2>4. Typed'
      BY <1>1, <1>2, <2>1, <2>2, <2>3 DEF Ranged, Typed, Served
    <2>5. /\ \A r \in Resources : cr[r].entry \in Nat /\ cached[r].entry \in Nat
          /\ mine.entry \in Nat /\ \A e \in entries : e.id \in Nat
      BY DEF Ranged, Typed, Objects, Running, Served, Copy, Entry
    <2>6. Known'
      BY <1>1, <2>1, <2>2, <2>5 DEF Ranged, Known, object, run
    <2> QED
      BY <1>1, <2>1, <2>4, <2>6 DEF Ranged, object
  <1>4. CASE \E e \in entries : UserRemoves(e)
    <2>1. entries' \subseteq entries /\ made' = made
      BY <1>4 DEF UserRemoves
    <2>2. Typed'
      BY <1>1, <1>2, <2>1 DEF Ranged, Typed, Served
    <2>3. Known'
      BY <1>1, <2>1 DEF Ranged, Known, object, run
    <2> QED
      BY <1>1, <2>1, <2>2, <2>3 DEF Ranged, object
  <1> QED
    BY <1>3, <1>4

LEMMA CrashShape ==
    ASSUME Ranged, Crash, UNCHANGED alone
    PROVE  /\ Ranged' /\ Idle /\ UNCHANGED <<cr, entries, lost, temp>>
           /\ temp' => leaky'
  <1>1. Idle /\ Running' /\ leaky' = (leaky \/ temp) /\ UNCHANGED <<object, world, lost>>
        /\ faults' \in 0 .. MaxFaults
    BY IdleTyped, Spending DEF Crash, Ranged, Typed
  <1>2. Typed'
    BY <1>1 DEF Ranged, Typed, Objects, Served, Costs, object, world
  <1>3. mine'.entry = 0 /\ made \in Nat
    BY <1>1 DEF Idle, Blank, None, Ranged, Typed, Served
  <1>4. Known'
    BY <1>1, <1>3 DEF Ranged, Known, object, world
  <1> QED
    BY <1>1, <1>2, <1>4 DEF Ranged, object, world

LEMMA QuietShape ==
    ASSUME Ranged, (GoDown /\ UNCHANGED alone) \/ UNCHANGED vars
    PROVE  Ranged' /\ UNCHANGED <<cr, entries, run, lost, temp, leaky>>
  <1>1. /\ UNCHANGED <<alone, object, run, entries, made, temp, lost, leaky, faults>>
        /\ down' \in BOOLEAN
    BY DEF GoDown, vars, moving, object, run, Ranged, Typed, Served
  <1>2. Typed'
    BY <1>1 DEF Ranged, Typed, Objects, Running, Served, Costs, object, run
  <1>3. Known'
    BY <1>1 DEF Ranged, Known, object, run
  <1> QED
    BY <1>1, <1>2, <1>3 DEF Ranged, object

LEMMA StepCases ==
    ASSUME [Next]_vars
    PROVE  \/ /\ UNCHANGED alone
              /\ \/ Step \/ Crash \/ UserAdds \/ \E e \in entries : UserRemoves(e)
                 \/ \E r \in Resources : Start(r) \/ Edit(r) \/ Delete(r) \/ Observe(r)
           \/ (GoDown /\ UNCHANGED alone) \/ UNCHANGED vars
  BY DEF Next, Act

LEMMA RangedKept == Ranged /\ [Next]_vars => Ranged'
  BY StepCases, StartShape, AddFinalizerShape, CleanupShape, FinalizeShape, RemoveShape, VerifyShape,
     CheckShape, AdoptShape, StartFlowShape, UploadShape, SubmitShape, TouchShape, ObserveShape,
     UserShape, CrashShape, QuietShape DEF Step

LEMMA InitRanged == Init => Ranged
  <1> SUFFICES ASSUME Init PROVE Ranged
    OBVIOUS
  <1>1. Blank \in Copy /\ Blank.entry = 0
    BY BlankTyped DEF Blank, None
  <1>2. /\ [Blank EXCEPT !.phase = "gone"] \in Copy /\ [Blank EXCEPT !.phase = "gone"].entry = 0
        /\ [Blank EXCEPT !.value = MaxEdits] \in Copy /\ [Blank EXCEPT !.value = MaxEdits].entry = 0
    BY <1>1, Constants DEF Copy
  <1>3. /\ cr \in [Resources -> Copy] /\ \A r \in Resources : cr[r].entry = 0
        /\ faults \in 0 .. MaxFaults
    <2>1. CASE alone
      BY <1>1, <1>2, <2>1, Constants DEF Init
    <2>2. CASE ~alone
      <3>1. \/ cr = [r \in Resources |-> Blank] /\ faults = MaxFaults
            \/ cr = [r \in Resources |-> [Blank EXCEPT !.value = MaxEdits]] /\ faults = MaxFaults - 1
        BY <2>2 DEF Init
      <3>2. MaxFaults \in 0 .. MaxFaults /\ MaxFaults - 1 \in 0 .. MaxFaults
        BY ConstantsAssumption
      <3> QED
        BY <1>1, <1>2, <3>1, <3>2
    <2> QED
      BY <2>1, <2>2
  <1>4. /\ alone \in BOOLEAN /\ cached = cr /\ fresh = [r \in Resources |-> TRUE]
        /\ entries = {} /\ made = 0 /\ down = FALSE /\ temp = FALSE
        /\ pc = "Idle" /\ cur = NoOne /\ mine = Blank /\ valid = FALSE /\ lost = {} /\ leaky = FALSE
    BY DEF Init
  <1>5. Objects /\ Running /\ Served /\ Costs
    BY <1>1, <1>3, <1>4, Constants DEF Objects, Running, Served, Costs, Labels
  <1>6. Typed
    BY <1>4, <1>5 DEF Typed
  <1>7. Known
    BY <1>1, <1>3, <1>4 DEF Known
  <1> QED
    BY <1>6, <1>7 DEF Ranged

-----------------------------------------------------------------------------
(* What a resource and its reconcile know of the entries.                   *)

Flow == {"StartFlow", "Upload", "Submit"}
Seeking == {"Check", "Adopt"} \cup Flow

\* A copy that is current differs from the resource in a removed entry, at most.
Current ==
    valid => /\ pc # "Idle" /\ mine.phase # "gone"
             /\ mine.finalizer = cr[cur].finalizer /\ mine.hash = cr[cur].hash
             /\ pc \notin Seeking => mine.entry = cr[cur].entry
Prepared == /\ pc = "Verify" => mine.hash = mine.value
            /\ pc \in {"Remove", "Verify"} \cup Seeking => mine.finalizer
Keeps(copy, e) == /\ copy.phase # "gone" /\ copy.finalizer
                  /\ copy.entry = e.id /\ copy.hash = e.value
Owned == \A e \in entries : e.by \in Resources \ lost => Keeps(cr[e.by], e)
Freed == valid /\ pc \in Seeking \cup {"Finalize"} /\ cur \notin lost => \A e \in entries : e.by # cur
Sound == Current /\ Prepared /\ Owned /\ Freed

LEMMA SoundIdle == ASSUME Idle, Owned' PROVE Sound'
  BY DEF Idle, Sound, Current, Prepared, Freed, Flow, Seeking

\* What the end of a reconcile needs.
LEMMA EndsSound ==
    ASSUME Ranged, Sound, pc # "Idle", NEW copy, Ends(copy),
           valid => \A e \in entries : e.by = cur /\ cur \notin lost' => Keeps(copy, e)
    PROVE  Sound'
  <1>1. cr \in [Resources -> Copy] /\ cur \in Resources
    BY DEF Ranged, Typed, Objects, Running
  <1>2. ASSUME NEW e \in entries', e.by \in Resources \ lost'
        PROVE  Keeps(cr'[e.by], e)
    <2>1. Keeps(cr[e.by], e)
      BY <1>2 DEF Sound, Owned, Ends
    <2>2. CASE cr' = cr
      BY <2>1, <2>2
    <2>3. CASE valid /\ cr' = [cr EXCEPT ![cur] = copy]
      <3>1. CASE e.by = cur
        <4>1. cr'[e.by] = copy
          BY <1>1, <2>3, <3>1
        <4> QED
          BY <1>2, <2>3, <3>1, <4>1 DEF Ends
      <3>2. CASE e.by # cur
        BY <1>1, <2>1, <2>3, <3>2
      <3> QED
        BY <3>1, <3>2
    <2> QED
      BY <2>2, <2>3 DEF Ends, Ended
  <1>3. Owned'
    BY <1>2 DEF Owned, Keeps
  <1> QED
    BY <1>3, SoundIdle DEF Ends, Ended

\* The status of the resource, which a current copy repeats.
LEMMA OwnCopy ==
    ASSUME Ranged, Sound, pc # "Idle", valid, pc \notin Seeking, NEW e \in entries, e.by = cur, cur \notin lost
    PROVE  Keeps(mine, e)
  BY DEF Ranged, Typed, Running, Sound, Current, Owned, Keeps

LEMMA GoesSound ==
    ASSUME Ranged, Sound, pc # "Idle", NEW label, NEW copy, Goes(label, copy), entries' \subseteq entries,
           lost \subseteq lost', copy.phase = mine.phase, copy.finalizer = mine.finalizer,
           copy.hash = mine.hash,
           \/ label \in Seeking /\ copy.finalizer
           \/ label = "Finalize" /\ copy.entry = mine.entry /\ pc \notin Seeking,
           valid /\ cur \notin lost' => \A e \in entries' : e.by # cur
    PROVE  Sound'
  <1>1. "Idle" \notin Seeking /\ "Verify" \notin Seeking /\ "Finalize" \notin Seeking /\ "Remove" \notin Seeking
    BY DEF Seeking, Flow
  <1>2. pc' = label /\ mine' = copy /\ cur' = cur /\ valid' = valid /\ cr' = cr
    BY DEF Goes
  <1>3. Owned'
    BY <1>2 DEF Sound, Owned, Keeps
  <1>4. Current'
    BY <1>1, <1>2 DEF Sound, Current
  <1>5. Prepared'
    BY <1>1, <1>2 DEF Prepared
  <1>6. Freed'
    BY <1>2 DEF Freed
  <1> QED
    BY <1>3, <1>4, <1>5, <1>6 DEF Sound

\* A reconcile that has made sure that there is no entry of the copy's ID.
LEMMA RidSound ==
    ASSUME Ranged, Sound, pc # "Idle", pc \notin Seeking, NEW label, NEW copy, Rid(label, copy),
           copy.phase = mine.phase, copy.finalizer = mine.finalizer, copy.hash = mine.hash,
           \/ label \in Seeking /\ copy.finalizer
           \/ label = "Finalize" /\ copy.entry = mine.entry
    PROVE  Sound'
  <1>1. entries' = {e \in entries : e.id # mine.entry} /\ lost' = lost /\ Goes(label, copy)
    BY DEF Rid
  <1>2. ASSUME valid, cur \notin lost', NEW e \in entries', e.by = cur
        PROVE  FALSE
    <2>1. e \in entries /\ e.id # mine.entry
      BY <1>1, <1>2
    <2>2. Keeps(mine, e)
      BY <1>1, <1>2, <2>1, OwnCopy
    <2> QED
      BY <2>1, <2>2 DEF Keeps
  <1>3. entries' \subseteq entries /\ lost \subseteq lost'
    BY <1>1
  <1> QED
    BY <1>1, <1>2, <1>3, GoesSound

LEMMA Seekers == /\ Seeking = {"Check", "Adopt", "StartFlow", "Upload", "Submit"}
                 /\ "Idle" \notin Seeking
  BY DEF Seeking, Flow

\* While a reconcile looks for an entry, its resource has none.
LEMMA GoesOnSound ==
    ASSUME Ranged, Sound, pc \in Seeking, NEW label \in Seeking, GoesOn(label)
    PROVE  Sound'
  <1>1. pc # "Idle" /\ mine.finalizer
    BY Seekers DEF Sound, Prepared
  <1>2. valid /\ cur \notin lost => \A e \in entries : e.by # cur
    BY DEF Sound, Freed
  <1>3. Goes(label, mine) /\ lost' = lost /\ entries' = entries
    BY DEF GoesOn
  <1> QED
    BY <1>1, <1>2, <1>3, GoesSound

LEMMA SeekEndsSound ==
    ASSUME Ranged, Sound, pc \in Seeking \cup {"Finalize"}, NEW copy, Ends(copy)
    PROVE  Sound'
  <1>1. pc # "Idle" /\ lost \subseteq lost'
    BY Seekers DEF Ends
  <1>2. valid /\ cur \notin lost => \A e \in entries : e.by # cur
    BY DEF Sound, Freed
  <1> QED
    BY <1>1, <1>2, EndsSound

\* An update that keeps what the copy says of the entry.
LEMMA KeepEndsSound ==
    ASSUME Ranged, Sound, pc # "Idle", pc \notin Seeking, NEW copy, Ends(copy),
           copy.entry = mine.entry, copy.hash = mine.hash, copy.phase = mine.phase,
           mine.finalizer => copy.finalizer
    PROVE  Sound'
  <1>1. ASSUME valid, NEW e \in entries, e.by = cur, cur \notin lost'
        PROVE  Keeps(copy, e)
    <2>1. Keeps(mine, e)
      BY <1>1, OwnCopy DEF Ends
    <2> QED
      BY <2>1 DEF Keeps
  <1> QED
    BY <1>1, EndsSound

LEMMA CreatesSound ==
    ASSUME Ranged, Sound, pc \in Flow, Creates
    PROVE  Sound'
  <1>1. /\ cr \in [Resources -> Copy] /\ cur \in Resources /\ mine.finalizer
        /\ "user" \notin Resources
    BY Constants DEF Ranged, Typed, Objects, Running, Sound, Prepared, Seeking, Flow
  <1>2. PICK copy \in Copy :
        /\ Ended(copy) /\ entries' = entries \cup {New} /\ lost \subseteq lost'
        /\ \/ cur \in lost'
           \/ /\ valid /\ cr' = [cr EXCEPT ![cur] = copy]
              /\ copy.entry = made + 1 /\ copy.hash = mine.value
              /\ copy.phase = mine.phase /\ copy.finalizer = mine.finalizer
    BY DEF Creates
  <1>3. ASSUME NEW e \in entries', e.by \in Resources \ lost', e.by # cur
        PROVE  Keeps(cr'[e.by], e)
    <2>1. e \in entries
      BY <1>2, <1>3 DEF New
    <2>2. Keeps(cr[e.by], e)
      BY <1>2, <1>3, <2>1 DEF Sound, Owned
    <2>3. cr'[e.by] = cr[e.by]
      BY <1>1, <1>2, <1>3 DEF Ended
    <2> QED
      BY <2>2, <2>3
  <1>4. ASSUME NEW e \in entries', e.by \in Resources \ lost', e.by = cur
        PROVE  Keeps(cr'[e.by], e)
    <2>1. /\ valid /\ cr' = [cr EXCEPT ![cur] = copy]
          /\ copy.entry = made + 1 /\ copy.hash = mine.value
          /\ copy.phase = mine.phase /\ copy.finalizer = mine.finalizer
      BY <1>2, <1>4
    <2>2. e = New
      BY <1>2, <1>4, <2>1 DEF Sound, Freed, Seeking
    <2>3. cr'[cur] = copy /\ New.id = made + 1 /\ New.value = mine.value
      BY <1>1, <2>1 DEF New
    <2>4. mine.phase # "gone"
      BY <2>1 DEF Sound, Current
    <2> QED
      BY <1>1, <1>4, <2>1, <2>2, <2>3, <2>4 DEF Keeps
  <1>5. Owned'
    BY <1>3, <1>4 DEF Owned, Keeps
  <1> QED
    BY <1>2, <1>5, SoundIdle DEF Ended

LEMMA StartSound ==
    ASSUME Ranged, Sound, NEW r \in Resources, Start(r), UNCHANGED alone
    PROVE  Sound'
  <1>1. /\ pc' # "Idle" /\ cur' = r /\ mine' = cached[r] /\ valid' = fresh[r]
        /\ cached[r].phase # "gone" /\ UNCHANGED <<cr, entries, lost>>
        /\ pc' \in {"Cleanup", "Finalize", "AddFinalizer", "Remove", "Verify", "Check"}
        /\ pc' \in {"Finalize", "Check"} => cached[r].entry = None
        /\ pc' = "Verify" => cached[r].hash = cached[r].value
        /\ pc' \in {"Remove", "Verify", "Check"} => cached[r].finalizer
    BY StartShape
  <1>2. fresh[r] => cached[r] = cr[r]
    BY DEF Ranged, Typed, Objects
  <1>3. Current'
    BY <1>1, <1>2 DEF Current
  <1>4. Prepared'
    BY <1>1, Seekers DEF Prepared
  <1>5. Owned'
    BY <1>1 DEF Sound, Owned, Keeps
  <1>6. ASSUME valid', pc' \in Seeking \cup {"Finalize"}, r \notin lost, NEW e \in entries, e.by = r
        PROVE  FALSE
    <2>1. cr[r].entry = 0
      BY <1>1, <1>2, <1>6, Seekers DEF None
    <2>2. e.id = 0
      BY <1>6, <2>1 DEF Sound, Owned, Keeps
    <2>3. e.id \in 1 .. MaxEntries
      BY DEF Ranged, Typed, Served, Entry
    <2> QED
      BY <2>2, <2>3, Constants
  <1>7. Freed'
    BY <1>1, <1>6 DEF Freed
  <1> QED
    BY <1>3, <1>4, <1>5, <1>7 DEF Sound

LEMMA TouchSound ==
    ASSUME Ranged, Sound, NEW r \in Resources, Touched(r), UNCHANGED <<entries, pc, cur, mine, lost>>
    PROVE  Sound'
  <1>1. PICK copy \in Copy :
        /\ cr' = [cr EXCEPT ![r] = copy]
        /\ copy.entry = cr[r].entry /\ copy.hash = cr[r].hash /\ copy.finalizer = cr[r].finalizer
        /\ copy.phase = "gone" => ~cr[r].finalizer
        /\ valid' => valid /\ cur # r
    BY DEF Touched
  <1>2. cr \in [Resources -> Copy] /\ cr'[r] = copy
    BY <1>1 DEF Ranged, Typed, Objects
  <1>3. ASSUME NEW q \in Resources, q # r PROVE cr'[q] = cr[q]
    BY <1>1, <1>2, <1>3
  <1>4. Owned'
    BY <1>1, <1>2, <1>3 DEF Sound, Owned, Keeps
  <1>5. valid' => cr'[cur] = cr[cur]
    BY <1>1, <1>2
  <1>6. Current'
    BY <1>1, <1>5 DEF Sound, Current
  <1>7. Prepared' /\ Freed'
    BY <1>1 DEF Sound, Prepared, Freed
  <1> QED
    BY <1>4, <1>6, <1>7 DEF Sound

LEMMA OthersSound ==
    ASSUME Ranged, Sound, UNCHANGED <<cr, run, lost>>,
           \A e \in entries' : e.by = "user" \/ e \in entries
    PROVE  Sound'
  <1>1. "user" \notin Resources /\ (pc # "Idle" => cur # "user")
    BY Constants DEF Ranged, Typed, Running
  <1>2. Owned'
    BY <1>1 DEF Sound, Owned, Keeps
  <1>3. Freed'
    BY <1>1, Seekers DEF Sound, Freed, run
  <1>4. Current' /\ Prepared'
    BY DEF Sound, Current, Prepared, run
  <1> QED
    BY <1>2, <1>3, <1>4 DEF Sound

\* The steps of a reconcile, one by one.
LEMMA StepSound ==
    ASSUME Ranged, Sound, Step, UNCHANGED alone
    PROVE  Sound'
  <1>0. Failed.entry = mine.entry /\ Failed.hash = mine.hash /\ Failed.phase = mine.phase
        /\ Failed.finalizer = mine.finalizer /\ mine \in Copy
    BY CopiesTyped DEF Ranged
  <1>1. CASE AddFinalizer
    <2> DEFINE copy == [mine EXCEPT !.finalizer = TRUE]
    <2>1. pc = "AddFinalizer" /\ Ends(copy)
      BY <1>1, AddFinalizerShape
    <2>2. copy.entry = mine.entry /\ copy.hash = mine.hash /\ copy.phase = mine.phase /\ copy.finalizer
      BY <1>0 DEF Copy
    <2> HIDE DEF copy
    <2> QED
      BY <2>1, <2>2, Seekers, KeepEndsSound
  <1>2. CASE Cleanup
    <2>1. /\ pc = "Cleanup"
          /\ \/ Rid("Finalize", mine)
             \/ Goes("Finalize", mine) /\ entries' = entries /\ lost' = lost \cup {cur}
      BY <1>2, CleanupShape
    <2>2. CASE Rid("Finalize", mine)
      BY <2>1, <2>2, Seekers, RidSound
    <2>3. CASE Goes("Finalize", mine) /\ entries' = entries /\ lost' = lost \cup {cur}
      <3>1. cur \in lost' /\ lost \subseteq lost' /\ entries' \subseteq entries
        BY <2>3
      <3> QED
        BY <2>1, <2>3, <3>1, Seekers, GoesSound
    <2> QED
      BY <2>1, <2>2, <2>3
  <1>3. CASE Finalize
    <2>1. pc \in Seeking \cup {"Finalize"} /\ \E copy : Ends(copy)
      BY <1>3, FinalizeShape
    <2> QED
      BY <2>1, SeekEndsSound
  <1>4. CASE Remove
    <2>1. pc = "Remove" /\ (Rid("Check", WithEntry(None)) \/ Ends(Failed))
      BY <1>4, RemoveShape
    <2>2. /\ WithEntry(None).phase = mine.phase /\ WithEntry(None).finalizer = mine.finalizer
          /\ WithEntry(None).hash = mine.hash
      BY <1>0 DEF WithEntry, Copy
    <2>3. mine.finalizer /\ pc \notin Seeking /\ "Check" \in Seeking
      BY <2>1, Seekers DEF Sound, Prepared
    <2> QED
      BY <1>0, <2>1, <2>2, <2>3, RidSound, KeepEndsSound
  <1>5. CASE Verify
    <2>1. /\ pc = "Verify"
          /\ \/ Ends(Ready(mine, "configured"))
             \/ Rid("Check", WithEntry(None)) \/ Ends(Failed)
      BY <1>5, VerifyShape
    <2>2. /\ WithEntry(None).phase = mine.phase /\ WithEntry(None).finalizer = mine.finalizer
          /\ WithEntry(None).hash = mine.hash
      BY <1>0 DEF WithEntry, Copy
    <2>3. mine.finalizer /\ mine.hash = mine.value /\ pc \notin Seeking /\ "Check" \in Seeking
      BY <2>1, Seekers DEF Sound, Prepared
    <2> DEFINE ready == Ready(mine, "configured")
    <2>4. /\ ready.hash = mine.hash /\ ready.phase = mine.phase /\ ready.entry = mine.entry
          /\ ready.finalizer = mine.finalizer
      BY <1>0, <2>3, ReadyShape
    <2> HIDE DEF ready
    <2>5. Ends(ready) \/ Rid("Check", WithEntry(None)) \/ Ends(Failed)
      BY <2>1 DEF ready
    <2> QED
      BY <1>0, <2>1, <2>2, <2>3, <2>4, <2>5, RidSound, KeepEndsSound
  <1>6. CASE Check
    <2>1. pc \in Seeking /\ (GoesOn("Adopt") \/ GoesOn("StartFlow") \/ Ends(Failed))
      BY <1>6, CheckShape, Seekers
    <2> QED
      BY <2>1, Seekers, GoesOnSound, SeekEndsSound
  <1>7. CASE Adopt
    <2>1. pc \in Seeking /\ \E copy : Ends(copy)
      BY <1>7, AdoptShape, Seekers
    <2> QED
      BY <2>1, SeekEndsSound
  <1>8. CASE StartFlow
    <2>1. /\ pc \in Flow /\ pc \in Seeking
          /\ \/ \E label \in Seeking : GoesOn(label)
             \/ Creates \/ Ends(Failed)
      BY <1>8, StartFlowShape, Seekers DEF Flow
    <2> QED
      BY <2>1, GoesOnSound, CreatesSound, SeekEndsSound
  <1>9. CASE Upload
    <2>1. pc \in Seeking /\ "Submit" \in Seeking /\ (GoesOn("Submit") \/ Ends(Failed))
      BY <1>9, UploadShape, Seekers
    <2> QED
      BY <2>1, GoesOnSound, SeekEndsSound
  <1>10. CASE Submit
    <2>1. pc \in Flow /\ pc \in Seeking /\ (Creates \/ Ends(Failed))
      BY <1>10, SubmitShape, Seekers DEF Flow
    <2> QED
      BY <2>1, CreatesSound, SeekEndsSound
  <1> QED
    BY <1>1, <1>2, <1>3, <1>4, <1>5, <1>6, <1>7, <1>8, <1>9, <1>10 DEF Step

LEMMA NextSound ==
    ASSUME Ranged, Sound, [Next]_vars
    PROVE  Sound'
  <1>1. ASSUME NEW r \in Resources, Edit(r) \/ Delete(r), UNCHANGED alone PROVE Sound'
    BY <1>1, TouchShape, TouchSound
  <1>2. ASSUME NEW r \in Resources, Observe(r), UNCHANGED alone PROVE Sound'
    BY <1>2, ObserveShape, OthersSound
  <1>3. CASE (UserAdds \/ \E e \in entries : UserRemoves(e)) /\ UNCHANGED alone
    BY <1>3, UserShape, OthersSound
  <1>4. CASE Crash /\ UNCHANGED alone
    <2>1. Idle /\ UNCHANGED <<cr, entries, lost>>
      BY <1>4, CrashShape
    <2>2. Owned'
      BY <2>1 DEF Sound, Owned, Keeps
    <2> QED
      BY <2>1, <2>2, SoundIdle
  <1>5. CASE (GoDown /\ UNCHANGED alone) \/ UNCHANGED vars
    BY <1>5, QuietShape, OthersSound
  <1> QED
    BY <1>1, <1>2, <1>3, <1>4, <1>5, StepCases, StepSound, StartSound

LEMMA InitSound == Init => Sound
  BY DEF Init, Sound, Current, Prepared, Owned, Freed, Seeking, Flow

-----------------------------------------------------------------------------
(* One entry of the operator's, and no uploaded file.                       *)

\* A config flow is only ever started and gone through where there is no entry of
\* the operator's.
Single == /\ pc \in Flow => \A e \in entries : e.by = "user"
          /\ \A e, f \in entries : e.by # "user" /\ f.by # "user" => e = f
\* An uploaded file waits for the flow to be submitted.
Tidy == temp /\ ~leaky => pc = "Submit"

\* Nobody but the flow adds an entry, and a reconcile that ends leaves the flow.
LEMMA SingleKept ==
    ASSUME Ranged, Single, [Next]_vars
    PROVE  Single'
  <1>1. ASSUME \A e \in entries' : e.by = "user" \/ e \in entries,
               pc' \in Flow => pc \in Flow \/ entries' = {}
        PROVE  Single'
    BY <1>1 DEF Single
  <1>2. ASSUME NEW copy, Ended(copy) PROVE pc' \notin Flow
    BY <1>2 DEF Ended, Idle, Flow
  <1>3. ASSUME NEW copy, Ends(copy) PROVE Single'
    BY <1>1, <1>2, <1>3 DEF Ends
  <1>4. ASSUME pc \in Flow, Creates PROVE Single'
    <2>1. pc' \notin Flow /\ entries' = entries \cup {New}
      BY <1>2, <1>4 DEF Creates
    <2> QED
      BY <1>4, <2>1 DEF Single
  <1>5. ASSUME NEW label, GoesOn(label), label \in Flow => pc \in Flow \/ entries = {} PROVE Single'
    BY <1>1, <1>5 DEF GoesOn, Goes
  <1>6. ASSUME NEW label \in {"Finalize", "Check"}, NEW copy, Goes(label, copy), entries' \subseteq entries
        PROVE  Single'
    BY <1>1, <1>6 DEF Goes, Flow
  <1>7. ASSUME NEW label \in {"Finalize", "Check"}, NEW copy, Rid(label, copy) PROVE Single'
    BY <1>6, <1>7 DEF Rid
  <1>8. CASE Step /\ UNCHANGED alone
    <2>1. Cleanup \/ Remove \/ Verify => Single'
      BY <1>3, <1>6, <1>7, <1>8, CleanupShape, RemoveShape, VerifyShape
    <2>2. AddFinalizer \/ Finalize \/ Adopt => Single'
      BY <1>3, <1>8, AddFinalizerShape, FinalizeShape, AdoptShape
    <2>3. Check => Single'
      BY <1>3, <1>5, <1>8, CheckShape DEF Flow
    <2>4. StartFlow => Single'
      BY <1>3, <1>4, <1>5, <1>8, StartFlowShape DEF Flow
    <2>5. Upload \/ Submit => Single'
      BY <1>3, <1>4, <1>5, <1>8, UploadShape, SubmitShape DEF Flow
    <2> QED
      BY <1>8, <2>1, <2>2, <2>3, <2>4, <2>5 DEF Step
  <1>9. ASSUME NEW r \in Resources, Start(r), UNCHANGED alone PROVE Single'
    BY <1>1, <1>9, StartShape DEF Flow
  <1>10. ASSUME NEW r \in Resources, Edit(r) \/ Delete(r), UNCHANGED alone PROVE Single'
    BY <1>1, <1>10, TouchShape
  <1>11. ASSUME NEW r \in Resources, Observe(r), UNCHANGED alone PROVE Single'
    BY <1>1, <1>11, ObserveShape DEF run
  <1>12. CASE (UserAdds \/ \E e \in entries : UserRemoves(e)) /\ UNCHANGED alone
    <2>1. UNCHANGED run /\ \A e \in entries' : e.by = "user" \/ e \in entries
      BY <1>12, UserShape
    <2> QED
      BY <2>1 DEF Single, run
  <1>13. CASE Crash /\ UNCHANGED alone
    BY <1>1, <1>13, CrashShape DEF Idle, Flow
  <1>14. CASE (GoDown /\ UNCHANGED alone) \/ UNCHANGED vars
    BY <1>1, <1>14, QuietShape DEF run
  <1> QED
    BY <1>8, <1>9, <1>10, <1>11, <1>12, <1>13, <1>14, StepCases

LEMMA TidyKept ==
    ASSUME Ranged, Tidy, [Next]_vars
    PROVE  Tidy'
  <1>1. ASSUME pc # "Submit", UNCHANGED <<temp, leaky>> PROVE Tidy'
    BY <1>1 DEF Tidy
  <1>2. ASSUME UNCHANGED <<pc, temp, leaky>> PROVE Tidy'
    BY <1>2 DEF Tidy
  <1>3. CASE Step /\ UNCHANGED alone
    <2>1. AddFinalizer \/ Cleanup \/ Finalize \/ Remove \/ Verify \/ Check \/ Adopt \/ StartFlow => Tidy'
      BY <1>1, <1>3, AddFinalizerShape, CleanupShape, FinalizeShape, RemoveShape, VerifyShape,
         CheckShape, AdoptShape, StartFlowShape
    <2>2. Upload => Tidy'
      <3>1. GoesOn("Submit") => pc' = "Submit"
        BY DEF GoesOn, Goes
      <3>2. Upload => pc' = "Submit" \/ temp' = FALSE \/ leaky'
        BY <1>3, <3>1, UploadShape
      <3> QED
        BY <3>2 DEF Tidy
    <2>3. Submit => Tidy'
      <3>1. Submit => temp' = FALSE \/ leaky'
        BY <1>3, SubmitShape
      <3> QED
        BY <3>1 DEF Tidy
    <2> QED
      BY <1>3, <2>1, <2>2, <2>3 DEF Step
  <1>4. ASSUME NEW r \in Resources, Start(r), UNCHANGED alone PROVE Tidy'
    BY <1>1, <1>4, StartShape
  <1>5. ASSUME NEW r \in Resources, Edit(r) \/ Delete(r), UNCHANGED alone PROVE Tidy'
    BY <1>2, <1>5, TouchShape
  <1>6. ASSUME NEW r \in Resources, Observe(r), UNCHANGED alone PROVE Tidy'
    BY <1>2, <1>6, ObserveShape DEF run
  <1>7. CASE (UserAdds \/ \E e \in entries : UserRemoves(e)) /\ UNCHANGED alone
    BY <1>2, <1>7, UserShape DEF run
  <1>8. CASE Crash /\ UNCHANGED alone
    BY <1>8, CrashShape DEF Tidy
  <1>9. CASE (GoDown /\ UNCHANGED alone) \/ UNCHANGED vars
    BY <1>2, <1>9, QuietShape DEF run
  <1> QED
    BY <1>3, <1>4, <1>5, <1>6, <1>7, <1>8, <1>9, StepCases

LEMMA SingleIsOne == Ranged /\ Single => OneEntryPerDomain
  <1> SUFFICES ASSUME Ranged, Single PROVE OneEntryPerDomain
    OBVIOUS
  <1> DEFINE own == {e \in entries : e.by # "user"}
  <1>1. \A e, f \in own : e = f
    BY DEF Single
  <1>2. OneEntryPerDomain <=> Cardinality(own) <= 1
    BY DEF OneEntryPerDomain
  <1> HIDE DEF own
  <1>3. CASE own = {}
    BY <1>2, <1>3, FS_EmptySet
  <1>4. ASSUME NEW x \in own PROVE OneEntryPerDomain
    <2>1. own = {x}
      BY <1>1, <1>4
    <2>2. Cardinality({x}) = 1
      BY FS_Singleton
    <2> QED
      BY <1>2, <2>1, <2>2
  <1> QED
    BY <1>3, <1>4

-----------------------------------------------------------------------------
(* The theorems.                                                            *)

\* The resources, their cached copies, Home Assistant's entries and the running reconcile
\* have their types; a cached copy that is current is the API server's.
THEOREM TypeTheorem == Spec => []TypeOK
  <1>1. Init => Ranged
    BY InitRanged
  <1>2. Ranged /\ [Next]_vars => Ranged'
    BY RangedKept
  <1>3. Ranged => TypeOK
    BY TypedIsTypeOK DEF Ranged
  <1> QED
    BY <1>1, <1>2, <1>3, PTL DEF Spec

\* However many resources of a domain there are, and whatever answers, updates and cached
\* copies are lost or late, the operator never has two entries of its own.
THEOREM OneEntryTheorem == Spec => []OneEntryPerDomain
  <1>1. Init => Ranged /\ Single
    BY InitRanged DEF Init, Single, Flow
  <1>2. Ranged /\ Single /\ [Next]_vars => Ranged' /\ Single'
    BY RangedKept, SingleKept
  <1>3. Ranged /\ Single => OneEntryPerDomain
    BY SingleIsOne
  <1> QED
    BY <1>1, <1>2, <1>3, PTL DEF Spec

\* A resource that is gone leaves no entry that it made behind, unless the ID never reached
\* its status or Home Assistant refused the removal.
THEOREM DeletionTheorem == Spec => []DeletionRemoves
  <1>1. Init => Ranged /\ Sound
    BY InitRanged, InitSound
  <1>2. Ranged /\ Sound /\ [Next]_vars => Ranged' /\ Sound'
    BY RangedKept, NextSound
  <1>3. Ranged /\ Sound => DeletionRemoves
    BY DEF Sound, Owned, Keeps, DeletionRemoves
  <1> QED
    BY <1>1, <1>2, <1>3, PTL DEF Spec

\* The hash in the status is that of the configuration which the entry was made with: edits
\* during a reconcile, refused updates and adoptions never record that of another one.
THEOREM HashTheorem == Spec => []HashIsApplied
  <1>1. Init => Ranged /\ Sound
    BY InitRanged, InitSound
  <1>2. Ranged /\ Sound /\ [Next]_vars => Ranged' /\ Sound'
    BY RangedKept, NextSound
  <1>3. Ranged /\ Sound => HashIsApplied
    BY DEF Sound, Owned, Keeps, HashIsApplied
  <1> QED
    BY <1>1, <1>2, <1>3, PTL DEF Spec

\* When a reconcile is over, the file it uploaded is used or deleted, unless a crash or
\* Home Assistant prevented the clean-up.
THEOREM UploadTheorem == Spec => []UploadsCleanedUp
  <1>1. Init => Ranged /\ Tidy
    BY InitRanged DEF Init, Tidy
  <1>2. Ranged /\ Tidy /\ [Next]_vars => Ranged' /\ Tidy'
    BY RangedKept, TidyKept
  <1>3. Tidy => UploadsCleanedUp
    BY DEF Tidy, UploadsCleanedUp
  <1> QED
    BY <1>1, <1>2, <1>3, PTL DEF Spec
=============================================================================
