--------------------------- MODULE RegistryProofs ---------------------------
(***************************************************************************)
(* Proofs about Registry, for any number of resources, names and changes.  *)
(* First what each step does, in the few facts that matter: which worker   *)
(* goes on with which copy, what is written, what becomes of the entries.  *)
(* Then the inductive invariant, in three parts: what the cache may lag    *)
(* behind in (Cached), what a worker's copy is worth (Working), and where  *)
(* the ID of an entry that a resource made is known (Owned).               *)
(***************************************************************************)
EXTENDS Registry, TLAPS

-----------------------------------------------------------------------------
(* Types.                                                                   *)

Steps == {"AddFinalizer", "Floor", "Labels", "List", "Update", "Create", "Save", "Remove",
          "Finalize"}
Records == [who : Resources, mine : Copy, valid : BOOLEAN, floor : Ids \cup {NoId},
            labels : SUBSET Ids, found : Entry \cup {NoEntry}, pc : Steps]
Workers == /\ w \in [Kinds -> Records \cup {Idle}]
           /\ \A k \in Kinds : w[k] # Idle => KindOf(w[k].who) = k
Objects == /\ cr \in [Resources -> Copy] /\ seen \in [Resources -> Copy]
           /\ fresh \in [Resources -> BOOLEAN]
Counters == edits \in 0 .. MaxEdits /\ faults \in 0 .. MaxFaults
Typed == /\ Objects /\ Workers /\ Counters
         /\ queue \subseteq Resources /\ lost \subseteq Resources
         /\ entries \in [Kinds -> SUBSET Entry] /\ down \in BOOLEAN

LEMMA TypedIsTypeOK == Typed => TypeOK
  BY DEF Typed, TypeOK, Objects, Workers, Counters, Records, Idle

\* What a worker that is not idle has.
LEMMA WorkerFields ==
    ASSUME Workers, NEW k \in Kinds
    PROVE  /\ w[k].pc = "Idle" <=> w[k] = Idle
           /\ w[k].who \in Resources <=> w[k] # Idle
           /\ w[k] # Idle => /\ w[k] \in Records /\ w[k].who \in Resources /\ w[k].mine \in Copy
                             /\ w[k].valid \in BOOLEAN /\ KindOf(w[k].who) = k
                             /\ w[k].floor \in Ids \cup {NoId} /\ w[k].labels \in SUBSET Ids
           /\ w[k].who \in Resources \cup {NoOne}
  <1>1. Idle.pc = "Idle" /\ Idle.who = NoOne /\ NoOne \notin Resources
    BY ConstantsAssumption DEF Idle
  <1>2. w[k] # Idle => w[k] \in Records
    BY DEF Workers
  <1>3. w[k] \in Records => w[k].pc \in Steps /\ w[k].who \in Resources /\ w[k].mine \in Copy
             /\ w[k].valid \in BOOLEAN /\ w[k].floor \in Ids \cup {NoId} /\ w[k].labels \in SUBSET Ids
    BY DEF Records
  <1> QED
    BY <1>1, <1>2, <1>3 DEF Workers, Steps

\* A worker goes on to a step with a copy, or is done; the others stay where they are.
Others(k) == \A q \in Kinds \ {k} : w'[q] = w[q]
Goes(k, label, copy) ==
    /\ Workers' /\ Others(k) /\ w'[k] # Idle
    /\ w'[k].pc = label /\ w'[k].mine = copy
    /\ w'[k].who = w[k].who /\ w'[k].valid = w[k].valid

LEMMA FinishShape ==
    ASSUME Workers, NEW k \in Kinds, Finish(k)
    PROVE  Workers' /\ Others(k) /\ w'[k] = Idle
  BY DEF Workers, Finish, Others

LEMMA GotoShape ==
    ASSUME Workers, NEW k \in Kinds, NEW label \in Steps, w[k] # Idle, Goto(k, label)
    PROVE  Goes(k, label, w[k].mine)
  <1>1. w[k] \in Records /\ w[k].pc # "Idle"
    BY WorkerFields
  <1>2. w' = [w EXCEPT ![k] = [w[k] EXCEPT !.pc = label]]
    BY DEF Goto, Workers
  <1>3. [w[k] EXCEPT !.pc = label] \in Records /\ label # "Idle"
    BY <1>1 DEF Records, Steps
  <1>4. w'[k] = [w[k] EXCEPT !.pc = label] /\ Others(k)
    BY <1>2 DEF Workers, Others
  <1>5. w'[k].pc = label /\ w'[k].mine = w[k].mine /\ w'[k].who = w[k].who /\ w'[k].valid = w[k].valid
    BY <1>1, <1>4 DEF Records
  <1>6. w'[k] # Idle
    BY <1>3, <1>5 DEF Idle
  <1>7. Workers'
    BY <1>2, <1>3, <1>5, <1>4 DEF Workers, Others
  <1> QED
    BY <1>4, <1>5, <1>6, <1>7 DEF Goes

LEMMA ConcludeShape ==
    ASSUME Workers, NEW k \in Kinds, NEW copy \in Copy, w[k] # Idle, Conclude(k, copy)
    PROVE  Goes(k, "Save", copy)
  <1> DEFINE new == [w[k] EXCEPT !.pc = "Save", !.mine = copy, !.found = NoEntry,
                                 !.floor = NoId, !.labels = {}]
  <1>1. w[k] \in Records
    BY WorkerFields
  <1>2. w' = [w EXCEPT ![k] = new]
    BY DEF Conclude, Workers
  <1>3. new \in Records /\ new.pc = "Save" /\ new.mine = copy /\ new.who = w[k].who
        /\ new.valid = w[k].valid
    BY <1>1 DEF Records, Steps
  <1> HIDE DEF new
  <1>4. w'[k] = new /\ Others(k)
    BY <1>2 DEF Workers, Others
  <1>5. w'[k] # Idle
    BY <1>3, <1>4 DEF Idle
  <1>6. Workers'
    BY <1>2, <1>3, <1>4 DEF Workers, Others
  <1> QED
    BY <1>3, <1>4, <1>5, <1>6 DEF Goes

LEMMA Constants ==
    /\ NoId \notin Ids /\ NoName \notin Names /\ MaxFaults \in Nat /\ MaxEdits \in Nat
    /\ "user" \notin Resources /\ NoOne \notin Resources
    /\ \A r \in Resources : KindOf(r) \in Kinds
    /\ \A r \in Floors : KindOf(r) = "floor"
    /\ \A r \in Labels : KindOf(r) = "label"
    /\ \A r \in Areas : KindOf(r) = "area"
  BY ConstantsAssumption DEF NoId, NoName, Ids, Names, KindOf, Kinds, Resources

LEMMA Failing ==
    ASSUME Counters
    PROVE  /\ Spend => faults' \in 0 .. MaxFaults
           /\ Failure => faults' \in 0 .. MaxFaults
           /\ UNCHANGED faults => faults' \in 0 .. MaxFaults
  BY Constants DEF Counters, Spend, Failure

\* Entries come from entries, or are somebody else's: users' or the one that is made.
Kin == \A k \in Kinds : \A x \in entries'[k] :
          x.by = "user" \/ \E e \in entries[k] : x.id = e.id /\ x.by = e.by
EntriesTyped == entries \in [Kinds -> SUBSET Entry]

LEMMA DataTyped ==
    ASSUME NEW e \in Entry, NEW d \in [name : Names, icon : {0, 1}, floor : Ids \cup {NoId},
                                       labels : SUBSET Ids]
    PROVE  /\ WithData(e, d) \in Entry /\ WithData(e, d).id = e.id /\ WithData(e, d).by = e.by
  BY DEF WithData, Entry

LEMMA WorkerData ==
    ASSUME Workers, NEW k \in Kinds, w[k] # Idle
    PROVE  Data(k) \in [name : Names, icon : {0, 1}, floor : Ids \cup {NoId}, labels : SUBSET Ids]
  BY WorkerFields DEF Data, Copy

\* Removing entries takes their references along, and nothing else.
LEMMA WithoutShape ==
    ASSUME EntriesTyped, NEW k \in Kinds, NEW gone \in SUBSET entries[k],
           entries' = Without(k, gone)
    PROVE  /\ EntriesTyped' /\ Kin
           /\ entries'[k] = entries[k] \ gone
  <1> DEFINE Dropped(e) == [e EXCEPT !.floor = IF k = "floor" /\ \E g \in gone : g.id = e.floor
                                               THEN NoId ELSE @,
                                     !.labels = IF k = "label" THEN @ \ {g.id : g \in gone} ELSE @]
  <1>1. ASSUME NEW e \in Entry
        PROVE  Dropped(e) \in Entry /\ Dropped(e).id = e.id /\ Dropped(e).by = e.by
    BY <1>1 DEF Entry
  <1>2. entries'[k] = entries[k] \ gone
    BY DEF Without
  <1>3. \A q \in Kinds \ {k} : q # "area" => entries'[q] = entries[q]
    BY DEF Without
  <1>4. k # "area" => entries'["area"] = {Dropped(e) : e \in entries["area"]}
    BY DEF Without, Kinds
  <1>5. \A q \in Kinds : entries[q] \subseteq Entry
    BY DEF EntriesTyped
  <1> HIDE DEF Dropped
  <1>6. \A q \in Kinds : \A x \in entries'[q] :
           x \in Entry /\ \E e \in entries[q] : x.id = e.id /\ x.by = e.by
    <2> TAKE q \in Kinds
    <2>1. CASE q = k \/ q # "area"
      BY <1>2, <1>3, <1>5, <2>1
    <2>2. CASE q # k /\ q = "area"
      BY <1>1, <1>4, <1>5, <2>2
    <2> QED
      BY <2>1, <2>2
  <1>7. entries' = [q \in Kinds |-> entries'[q]]
    BY DEF Without
  <1>8. EntriesTyped'
    BY <1>6, <1>7 DEF EntriesTyped
  <1> QED
    BY <1>2, <1>6, <1>8 DEF Kin

-----------------------------------------------------------------------------
(* What the steps of a worker do.                                           *)

\* Fields of the resources that a lookup or a call never touches.
Same(copy, mine) == copy.state = mine.state /\ copy.fin = mine.fin

Stay == UNCHANGED <<object, edits>> /\ queue' = queue /\ down' = down

LookupFailed(k) ==
    \E copy \in Copy : /\ Goes(k, "Save", copy) /\ Same(copy, w[k].mine) /\ copy.id = w[k].mine.id
LEMMA LookupFailsShape ==
    ASSUME Typed, NEW k \in Kinds, LookupFails(k)
    PROVE  /\ w[k] # Idle /\ w[k].pc \in {"Floor", "Labels", "List"}
           /\ LookupFailed(k) /\ UNCHANGED <<object, entries, lost>> /\ Typed'
  <1>1. w[k] # Idle /\ w[k].pc \in {"Floor", "Labels", "List"}
    BY WorkerFields DEF LookupFails, Typed
  <1> DEFINE copy == [w[k].mine EXCEPT !.ready = "failed"]
  <1>2. copy \in Copy /\ Same(copy, w[k].mine) /\ copy.id = w[k].mine.id
    BY <1>1, WorkerFields DEF Typed, Copy, Same
  <1>3. Conclude(k, copy)
    BY DEF LookupFails
  <1> HIDE DEF copy
  <1>4. Goes(k, "Save", copy)
    BY <1>1, <1>2, <1>3, ConcludeShape DEF Typed
  <1>5. UNCHANGED <<object, queue, entries, down, lost, edits>> /\ faults' \in 0 .. MaxFaults
    BY Failing DEF LookupFails, Typed
  <1>6. Typed'
    BY <1>4, <1>5 DEF Typed, Objects, Counters, Goes, object
  <1> QED
    BY <1>1, <1>2, <1>4, <1>5, <1>6 DEF LookupFailed, object

LEMMA LookUpsShape ==
    ASSUME Typed, LookUpFloor \/ LookUpLabels
    PROVE  /\ w["area"] # Idle /\ w["area"].pc \in {"Floor", "Labels"}
           /\ \/ LookupFailed("area")
              \/ Goes("area", "Labels", w["area"].mine) \/ Goes("area", "List", w["area"].mine)
           /\ UNCHANGED <<object, entries, lost>> /\ Typed'
  <1>0. "area" \in Kinds /\ Workers /\ EntriesTyped
    BY DEF Kinds, Typed, EntriesTyped
  <1>1. w["area"] # Idle /\ w["area"].pc \in {"Floor", "Labels"} /\ w["area"].mine \in Copy
    BY <1>0, WorkerFields DEF LookUpFloor, LookUpLabels, Idle
  <1>2. UNCHANGED <<object, queue, entries, down, lost, edits, faults>>
    BY DEF LookUpFloor, LookUpLabels
  <1>3. ASSUME NEW f \in entries["floor"],
               w' = [w EXCEPT !["area"].floor = f.id, !["area"].pc = "Labels"]
        PROVE  Goes("area", "Labels", w["area"].mine)
    <2> DEFINE new == [w["area"] EXCEPT !.floor = f.id, !.pc = "Labels"]
    <2>1. w["area"] \in Records /\ f.id \in Ids
      BY <1>0, <1>1, WorkerFields DEF EntriesTyped, Kinds, Entry
    <2>2. w' = [w EXCEPT !["area"] = new]
      BY <1>0, <1>3 DEF Workers
    <2>3. /\ new \in Records /\ new.pc = "Labels" /\ new.mine = w["area"].mine
          /\ new.who = w["area"].who /\ new.valid = w["area"].valid
      BY <2>1 DEF Records, Steps
    <2> HIDE DEF new
    <2>4. w'["area"] = new /\ Others("area")
      BY <1>0, <2>2 DEF Workers, Others
    <2>5. w'["area"] # Idle
      BY <2>3, <2>4 DEF Idle
    <2>6. Workers'
      BY <1>0, <1>1, <2>2, <2>3, <2>4 DEF Workers, Others
    <2> QED
      BY <2>3, <2>4, <2>5, <2>6 DEF Goes
  <1>4. LookUpFloor => LookupFailed("area") \/ Goes("area", "Labels", w["area"].mine)
    <2> HAVE LookUpFloor
    <2> DEFINE copy == [w["area"].mine EXCEPT !.ready = "nofloor"]
    <2>1. copy \in Copy /\ Same(copy, w["area"].mine) /\ copy.id = w["area"].mine.id
      BY <1>1 DEF Copy, Same
    <2>2. Conclude("area", copy) => LookupFailed("area")
      BY <1>0, <1>1, <2>1, ConcludeShape DEF LookupFailed
    <2>3. Goto("area", "Labels") => Goes("area", "Labels", w["area"].mine)
      BY <1>0, <1>1, GotoShape DEF Steps
    <2> HIDE DEF copy
    <2>4. \/ Goto("area", "Labels") \/ Conclude("area", copy)
          \/ \E f \in entries["floor"] :
                w' = [w EXCEPT !["area"].floor = f.id, !["area"].pc = "Labels"]
      BY DEF LookUpFloor, copy
    <2> QED
      BY <1>3, <2>2, <2>3, <2>4
  <1>5. LookUpLabels => Goes("area", "List", w["area"].mine)
    <2> HAVE LookUpLabels
    <2> DEFINE named == Resolved(w["area"].mine.labels)
               new == [w["area"] EXCEPT !.labels = named, !.pc = "List"]
    <2>1. w["area"] \in Records /\ named \in SUBSET Ids
      BY <1>0, <1>1, WorkerFields DEF EntriesTyped, Kinds, Entry, Resolved
    <2> HIDE DEF named
    <2>2. w' = [w EXCEPT !["area"] = new]
      BY <1>0 DEF Workers, LookUpLabels, named
    <2>3. /\ new \in Records /\ new.pc = "List" /\ new.mine = w["area"].mine
          /\ new.who = w["area"].who /\ new.valid = w["area"].valid
      BY <2>1 DEF Records, Steps
    <2> HIDE DEF new
    <2>4. w'["area"] = new /\ Others("area")
      BY <1>0, <2>2 DEF Workers, Others
    <2>5. w'["area"] # Idle
      BY <2>3, <2>4 DEF Idle
    <2>6. Workers'
      BY <1>0, <1>1, <2>2, <2>3, <2>4 DEF Workers, Others
    <2> QED
      BY <2>3, <2>4, <2>5, <2>6 DEF Goes
  <1>6. Workers'
    BY <1>4, <1>5 DEF LookupFailed, Goes
  <1>7. Typed'
    BY <1>2, <1>6 DEF Typed, Objects, Counters, object
  <1> QED
    BY <1>1, <1>2, <1>4, <1>5, <1>7 DEF object

Listed(k) ==
    \/ \E e \in Found(k, w[k].mine) : \E copy \in Copy :
          Goes(k, "Update", copy) /\ Same(copy, w[k].mine) /\ copy.id = e.id
    \/ \E copy \in Copy : /\ Found(k, w[k].mine) = {}
                          /\ Goes(k, "Create", copy) /\ Same(copy, w[k].mine)
LEMMA ListShape ==
    ASSUME Typed, NEW k \in Kinds, List(k)
    PROVE  /\ w[k] # Idle /\ w[k].pc = "List"
           /\ Listed(k) /\ UNCHANGED <<object, entries, lost>> /\ Typed'
  <1>0. Workers /\ EntriesTyped
    BY DEF Typed, EntriesTyped
  <1>1. w[k] # Idle /\ w[k].pc = "List" /\ w[k].mine \in Copy /\ w[k] \in Records
    BY <1>0, WorkerFields DEF List, Idle
  <1>2. ASSUME NEW label \in Steps, NEW e \in Entry \cup {NoEntry}, NEW copy \in Copy,
               w' = [w EXCEPT ![k] = [w[k] EXCEPT !.pc = label, !.found = e, !.mine = copy]]
        PROVE  Goes(k, label, copy)
    <2> DEFINE new == [w[k] EXCEPT !.pc = label, !.found = e, !.mine = copy]
    <2>1. /\ new \in Records /\ new.pc = label /\ new.mine = copy
          /\ new.who = w[k].who /\ new.valid = w[k].valid
      BY <1>1 DEF Records, Steps
    <2> HIDE DEF new
    <2>2. w'[k] = new /\ Others(k)
      BY <1>0, <1>2 DEF Workers, Others, new
    <2>3. w'[k] # Idle
      BY <2>1, <2>2 DEF Idle, Steps
    <2>4. Workers'
      BY <1>0, <1>1, <1>2, <2>1, <2>2 DEF Workers, Others, new
    <2> QED
      BY <2>1, <2>2, <2>3, <2>4 DEF Goes
  <1>3. UNCHANGED <<object, queue, entries, down, lost, edits, faults>>
    BY DEF List
  <1>4. ASSUME NEW e \in Found(k, w[k].mine),
               w' = [w EXCEPT ![k].pc = "Update", ![k].found = e,
                              ![k].mine = [w[k].mine EXCEPT !.id = e.id]]
        PROVE  Listed(k)
    <2> DEFINE copy == [w[k].mine EXCEPT !.id = e.id]
    <2>1. e \in Entry
      BY <1>0 DEF Found, Adopted, EntriesTyped
    <2>2. copy \in Copy /\ Same(copy, w[k].mine) /\ copy.id = e.id
      BY <1>1, <2>1 DEF Copy, Same, Entry
    <2>3. w' = [w EXCEPT ![k] = [w[k] EXCEPT !.pc = "Update", !.found = e, !.mine = copy]]
      BY <1>0, <1>4 DEF Workers
    <2>4. Goes(k, "Update", copy)
      BY <1>2, <2>1, <2>2, <2>3 DEF Steps
    <2> QED
      BY <2>2, <2>4 DEF Listed
  <1>5. ASSUME Found(k, w[k].mine) = {},
               w' = [w EXCEPT ![k].pc = "Create", ![k].mine = [w[k].mine EXCEPT !.id = NoId]]
        PROVE  Listed(k)
    <2> DEFINE copy == [w[k].mine EXCEPT !.id = NoId]
    <2>1. copy \in Copy /\ Same(copy, w[k].mine)
      BY <1>1 DEF Copy, Same
    <2>2. w[k].found \in Entry \cup {NoEntry}
      BY <1>1 DEF Records
    <2>3. w' = [w EXCEPT ![k] = [w[k] EXCEPT !.pc = "Create", !.found = w[k].found, !.mine = copy]]
      BY <1>0, <1>1, <1>5 DEF Workers, Records
    <2>4. Goes(k, "Create", copy)
      BY <1>2, <2>1, <2>2, <2>3 DEF Steps
    <2> QED
      BY <1>5, <2>1, <2>4 DEF Listed
  <1>6. Listed(k)
    BY <1>4, <1>5 DEF List
  <1>7. Typed'
    BY <1>3, <1>6 DEF Typed, Objects, Counters, Listed, Goes, object
  <1> QED
    BY <1>1, <1>3, <1>6, <1>7 DEF object

LEMMA UpdateShape ==
    ASSUME Typed, NEW k \in Kinds, Update(k)
    PROVE  /\ w[k] # Idle /\ w[k].pc = "Update"
           /\ LookupFailed(k) /\ Kin /\ UNCHANGED <<object, lost>> /\ Typed'
  <1>0. Workers /\ EntriesTyped
    BY DEF Typed, EntriesTyped
  <1>1. w[k] # Idle /\ w[k].pc = "Update" /\ w[k].mine \in Copy
    BY <1>0, WorkerFields DEF Update, Idle
  <1>2. UNCHANGED <<object, queue, down, lost, edits>>
    BY DEF Update
  <1>3. LookupFailed(k)
    <2>1. PICK ready \in {"yes", "failed"} : Conclude(k, [w[k].mine EXCEPT !.ready = ready])
      BY DEF Update
    <2>2. /\ [w[k].mine EXCEPT !.ready = ready] \in Copy
          /\ Same([w[k].mine EXCEPT !.ready = ready], w[k].mine)
          /\ [w[k].mine EXCEPT !.ready = ready].id = w[k].mine.id
      BY <1>1 DEF Copy, Same
    <2> QED
      BY <1>0, <1>1, <2>1, <2>2, ConcludeShape DEF LookupFailed
  <1>4. EntriesTyped' /\ Kin
    <2>1. CASE entries' = entries
      BY <1>0, <2>1 DEF EntriesTyped, Kin
    <2>2. CASE entries' = [entries EXCEPT ![k] =
                              {IF e.id = w[k].mine.id THEN WithData(e, Data(k)) ELSE e : e \in @}]
      <3>1. \A x \in entries'[k] : x \in Entry /\ \E e \in entries[k] : x.id = e.id /\ x.by = e.by
        BY <1>0, <1>1, <2>2, WorkerData, DataTyped DEF EntriesTyped
      <3>2. \A q \in Kinds \ {k} : entries'[q] = entries[q]
        BY <1>0, <2>2 DEF EntriesTyped
      <3>3. EntriesTyped'
        BY <1>0, <2>2, <3>1 DEF EntriesTyped
      <3> QED
        BY <3>1, <3>2, <3>3 DEF Kin
    <2> QED
      BY <2>1, <2>2 DEF Update
  <1>5. faults' \in 0 .. MaxFaults
    BY Failing DEF Update, Typed
  <1>6. Typed'
    BY <1>2, <1>3, <1>4, <1>5 DEF Typed, Objects, Counters, LookupFailed, Goes, object, EntriesTyped
  <1> QED
    BY <1>1, <1>2, <1>3, <1>4, <1>6 DEF object

\* An entry with that ID is made for the worker's resource.
Born(k, id) ==
    /\ id \in Ids
    /\ \A q \in Kinds : \A x \in entries'[q] :
          \/ \E e \in entries[q] : x.id = e.id /\ x.by = e.by
          \/ q = k /\ x.by = w[k].who /\ x.id = id
Created(k) ==
    \/ LookupFailed(k) /\ UNCHANGED <<entries, lost>>
    \/ \E id \in Ids, copy \in Copy :
          /\ Born(k, id) /\ Goes(k, "Save", copy) /\ Same(copy, w[k].mine)
          /\ \/ copy.id = id /\ lost' = lost
             \/ lost' = lost \cup {w[k].who}
LEMMA CreateShape ==
    ASSUME Typed, NEW k \in Kinds, Create(k)
    PROVE  /\ w[k] # Idle /\ w[k].pc = "Create"
           /\ Created(k) /\ UNCHANGED object /\ Typed'
  <1>0. Workers /\ EntriesTyped
    BY DEF Typed, EntriesTyped
  <1>1. w[k] # Idle /\ w[k].pc = "Create" /\ w[k].mine \in Copy /\ w[k].who \in Resources
    BY <1>0, WorkerFields DEF Create, Idle
  <1>2. UNCHANGED <<object, queue, down, edits>> /\ faults' \in 0 .. MaxFaults
    BY Failing DEF Create, Typed
  <1> DEFINE failed == [w[k].mine EXCEPT !.ready = "failed"]
  <1>3. failed \in Copy /\ Same(failed, w[k].mine) /\ failed.id = w[k].mine.id
    BY <1>1 DEF Copy, Same
  <1>4. Conclude(k, failed) => LookupFailed(k) /\ Goes(k, "Save", failed)
    BY <1>0, <1>1, <1>3, ConcludeShape DEF LookupFailed
  <1> DEFINE made(id) == [id |-> id, name |-> Data(k).name, icon |-> Data(k).icon,
                          floor |-> Data(k).floor, labels |-> Data(k).labels, by |-> w[k].who]
             kept(id) == [Recorded(w[k].mine, id) EXCEPT !.ready = "yes"]
  <1>5. ASSUME NEW id \in Ids
        PROVE  /\ made(id) \in Entry /\ made(id).by = w[k].who /\ made(id).id = id
               /\ kept(id) \in Copy /\ Same(kept(id), w[k].mine) /\ kept(id).id = id
    <2>1. made(id) \in Entry /\ made(id).by = w[k].who /\ made(id).id = id
      BY <1>0, <1>1, WorkerData DEF Entry
    <2>2. kept(id) \in Copy /\ Same(kept(id), w[k].mine) /\ kept(id).id = id
      BY <1>1 DEF Copy, Recorded, Same
    <2> QED
      BY <2>1, <2>2
  <1> HIDE DEF failed, made, kept
  <1>6. \/ Conclude(k, failed) /\ UNCHANGED <<entries, lost>>
        \/ \E id \in NewId(k, Data(k).name) :
              /\ entries' = [entries EXCEPT ![k] = @ \cup {made(id)}]
              /\ \/ Conclude(k, kept(id)) /\ lost' = lost
                 \/ Conclude(k, failed) /\ lost' = lost \cup {w[k].who}
    BY DEF Create, failed, made, kept
  <1>7. NewId(k, Data(k).name) \subseteq Ids
    BY DEF NewId
  <1>8. ASSUME NEW id \in Ids, entries' = [entries EXCEPT ![k] = @ \cup {made(id)}]
        PROVE  Born(k, id) /\ EntriesTyped'
    BY <1>0, <1>5, <1>8 DEF EntriesTyped, Born
  <1>9. Created(k) /\ EntriesTyped'
    <2>1. CASE Conclude(k, failed) /\ UNCHANGED <<entries, lost>>
      BY <1>0, <1>4, <2>1 DEF Created, EntriesTyped
    <2>2. ASSUME NEW id \in NewId(k, Data(k).name),
                 entries' = [entries EXCEPT ![k] = @ \cup {made(id)}],
                 Conclude(k, kept(id)) /\ lost' = lost
          PROVE  Created(k) /\ EntriesTyped'
      <3>1. Goes(k, "Save", kept(id))
        BY <1>0, <1>1, <1>5, <1>7, <2>2, ConcludeShape
      <3> QED
        BY <1>5, <1>7, <1>8, <2>2, <3>1 DEF Created
    <2>3. ASSUME NEW id \in NewId(k, Data(k).name),
                 entries' = [entries EXCEPT ![k] = @ \cup {made(id)}],
                 Conclude(k, failed) /\ lost' = lost \cup {w[k].who}
          PROVE  Created(k) /\ EntriesTyped'
      BY <1>3, <1>4, <1>7, <1>8, <2>3 DEF Created
    <2> QED
      BY <1>6, <2>1, <2>2, <2>3
  <1>10. Typed'
    BY <1>1, <1>2, <1>9 DEF Typed, Objects, Counters, Created, LookupFailed, Goes, object, EntriesTyped
  <1> QED
    BY <1>1, <1>2, <1>9, <1>10 DEF object

LEMMA RemoveShape ==
    ASSUME Typed, NEW k \in Kinds, Remove(k)
    PROVE  /\ w[k] # Idle /\ w[k].pc = "Remove" /\ Goes(k, "Finalize", w[k].mine)
           /\ Kin /\ UNCHANGED object /\ Typed'
           /\ \/ lost' = lost /\ \A x \in entries'[k] : x.id # w[k].mine.id
              \/ lost' = lost \cup {w[k].who}
  <1>0. Workers /\ EntriesTyped
    BY DEF Typed, EntriesTyped
  <1>1. w[k] # Idle /\ w[k].pc = "Remove" /\ w[k].who \in Resources
    BY <1>0, WorkerFields DEF Remove, Idle
  <1>2. UNCHANGED <<object, queue, down, edits>> /\ faults' \in 0 .. MaxFaults
    BY Failing DEF Remove, Typed
  <1>3. Goes(k, "Finalize", w[k].mine)
    BY <1>0, <1>1, GotoShape DEF Remove, Steps
  <1> DEFINE target == {e \in entries[k] : e.id = w[k].mine.id}
  <1>4. CASE entries' = Without(k, target) /\ lost' = lost
    <2>1. EntriesTyped' /\ Kin /\ entries'[k] = entries[k] \ target
      BY <1>0, <1>4, WithoutShape
    <2>2. Typed'
      BY <1>2, <1>3, <1>4, <2>1 DEF Typed, Objects, Counters, Goes, object, EntriesTyped
    <2> QED
      BY <1>1, <1>2, <1>3, <1>4, <2>1, <2>2 DEF object
  <1>5. CASE entries' = entries /\ lost' = lost \cup {w[k].who}
    <2>1. Typed'
      BY <1>1, <1>2, <1>3, <1>5 DEF Typed, Objects, Counters, Goes, object
    <2> QED
      BY <1>1, <1>2, <1>3, <1>5, <2>1 DEF object, Kin
  <1> QED
    BY <1>4, <1>5 DEF Remove

\* One resource gets a new version.
Version(r, copy) ==
    /\ cr' = [cr EXCEPT ![r] = copy] /\ seen' = seen
    /\ \A q \in Resources : fresh'[q] => fresh[q] /\ cr'[q] = cr[q]

LEMMA PutShape ==
    ASSUME Objects, NEW r \in Resources, NEW copy \in Copy, Put(r, copy)
    PROVE  Version(r, copy) /\ Objects'
  <1>1. cr' = [cr EXCEPT ![r] = copy] /\ seen' = seen
    BY DEF Put
  <1>2. fresh' = [fresh EXCEPT ![r] = fresh[r] /\ copy = cr[r]]
    BY DEF Put, Objects
  <1>3. fresh' \in [Resources -> BOOLEAN]
    BY <1>2 DEF Objects
  <1>4. ASSUME NEW q \in Resources, fresh'[q] PROVE fresh[q] /\ cr'[q] = cr[q]
    BY <1>1, <1>2, <1>4 DEF Objects
  <1> QED
    BY <1>1, <1>3, <1>4 DEF Version, Objects

RefusedTo(k) == /\ UNCHANGED object
                /\ queue' = queue \cup {w[k].who} /\ faults' \in 0 .. MaxFaults
LEMMA RefusedShape ==
    ASSUME Typed, NEW k \in Kinds, Refused(k)
    PROVE  RefusedTo(k)
  BY Failing DEF Refused, RefusedTo, Typed

\* A worker that is done leaves its copy, if it was current; or nothing.
Writes(k, copy) == w[k].valid /\ Version(w[k].who, copy)
LEMMA AddFinalizerShape ==
    ASSUME Typed, NEW k \in Kinds, AddFinalizer(k)
    PROVE  /\ w[k] # Idle /\ w[k].pc = "AddFinalizer" /\ w'[k] = Idle /\ Others(k)
           /\ UNCHANGED object \/ Writes(k, [w[k].mine EXCEPT !.fin = TRUE])
           /\ UNCHANGED <<entries, lost>> /\ Typed'
  <1>1. w[k] # Idle /\ w[k].pc = "AddFinalizer" /\ w[k].mine \in Copy /\ w[k].who \in Resources
    BY WorkerFields DEF AddFinalizer, Typed, Idle
  <1>2. Workers' /\ Others(k) /\ w'[k] = Idle
    BY FinishShape DEF AddFinalizer, Typed
  <1>3. UNCHANGED <<entries, down, lost, edits>>
    BY DEF AddFinalizer
  <1>4. [w[k].mine EXCEPT !.fin = TRUE] \in Copy
    BY <1>1 DEF Copy
  <1>5. CASE Refused(k)
    BY <1>1, <1>2, <1>3, <1>5, RefusedShape DEF RefusedTo, Typed, Objects, Counters, object
  <1>6. CASE w[k].valid /\ Put(w[k].who, [w[k].mine EXCEPT !.fin = TRUE]) /\ UNCHANGED <<queue, faults>>
    BY <1>1, <1>2, <1>3, <1>4, <1>6, PutShape DEF Writes, Typed, Counters
  <1> QED
    BY <1>5, <1>6 DEF AddFinalizer

LEMMA SaveShape ==
    ASSUME Typed, NEW k \in Kinds, Save(k)
    PROVE  /\ w[k] # Idle /\ w[k].pc = "Save" /\ w'[k] = Idle /\ Others(k)
           /\ \/ Writes(k, w[k].mine) /\ lost' = lost
              \/ UNCHANGED object /\ lost' = lost \cup Forgotten(k)
           /\ UNCHANGED entries /\ Typed'
  <1>1. w[k] # Idle /\ w[k].pc = "Save" /\ w[k].mine \in Copy /\ w[k].who \in Resources
    BY WorkerFields DEF Save, Typed, Idle
  <1>2. Workers' /\ Others(k) /\ w'[k] = Idle
    BY FinishShape DEF Save, Typed
  <1>3. UNCHANGED <<entries, down, edits>>
    BY DEF Save
  <1>4. CASE Refused(k) /\ lost' = lost \cup Forgotten(k)
    <2>1. Forgotten(k) \subseteq Resources
      BY <1>1 DEF Forgotten
    <2> QED
      BY <1>1, <1>2, <1>3, <1>4, <2>1, RefusedShape DEF RefusedTo, Typed, Objects, Counters, object
  <1>5. CASE /\ w[k].valid /\ Put(w[k].who, w[k].mine) /\ UNCHANGED <<lost, faults>>
             /\ queue' = queue \cup IF Requeued(w[k].mine) THEN {w[k].who} ELSE {}
    BY <1>1, <1>2, <1>3, <1>5, PutShape DEF Writes, Typed, Counters
  <1> QED
    BY <1>4, <1>5 DEF Save

LEMMA FinalizeShape ==
    ASSUME Typed, NEW k \in Kinds, Finalize(k)
    PROVE  /\ w[k] # Idle /\ w[k].pc = "Finalize" /\ w'[k] = Idle /\ Others(k)
           /\ UNCHANGED object \/ Writes(k, [w[k].mine EXCEPT !.fin = FALSE, !.state = "gone"])
           /\ UNCHANGED <<entries, lost>> /\ Typed'
  <1>1. w[k] # Idle /\ w[k].pc = "Finalize" /\ w[k].mine \in Copy /\ w[k].who \in Resources
    BY WorkerFields DEF Finalize, Typed, Idle
  <1>2. Workers' /\ Others(k) /\ w'[k] = Idle
    BY FinishShape DEF Finalize, Typed
  <1>3. UNCHANGED <<entries, down, lost, edits>>
    BY DEF Finalize
  <1> DEFINE copy == [w[k].mine EXCEPT !.fin = FALSE, !.state = "gone"]
  <1>4. copy \in Copy
    BY <1>1 DEF Copy
  <1>5. CASE Refused(k)
    BY <1>1, <1>2, <1>3, <1>5, RefusedShape DEF RefusedTo, Typed, Objects, Counters, object
  <1>6. CASE w[k].valid /\ UNCHANGED <<queue, faults>> /\ Put(w[k].who, copy)
    BY <1>1, <1>2, <1>3, <1>4, <1>6, PutShape DEF Writes, Typed, Counters
  <1> QED
    BY <1>5, <1>6 DEF Finalize

FirstStep(k, copy) == IF copy.state = "deleting" THEN "Remove"
                      ELSE IF ~copy.fin THEN "AddFinalizer"
                      ELSE IF k = "area" THEN "Floor" ELSE "List"
LEMMA TakeShape ==
    ASSUME Typed, NEW r \in Resources, Take(r)
    PROVE  LET k == KindOf(r) IN
           /\ w[k] = Idle /\ w'[k] # Idle /\ Others(k) /\ cr[r].state # "gone"
           /\ w'[k].who = r /\ w'[k].mine = seen[r] /\ w'[k].valid = fresh[r]
           /\ w'[k].pc = FirstStep(k, seen[r])
           /\ UNCHANGED <<object, entries, lost>> /\ Typed'
  <1> DEFINE k == KindOf(r)
             new == [who |-> r, mine |-> seen[r], valid |-> fresh[r], floor |-> NoId, labels |-> {},
                     found |-> NoEntry, pc |-> FirstStep(k, seen[r])]
  <1>1. k \in Kinds
    BY Constants
  <1>2. /\ w[k].pc = "Idle" /\ cr[r].state # "gone" /\ queue' = queue \ {r}
        /\ w' = [w EXCEPT ![k] = new]
        /\ UNCHANGED <<object, entries, down, lost, edits, faults>>
    BY DEF Take, FirstStep
  <1>3. FirstStep(k, seen[r]) \in Steps
    BY DEF FirstStep, Steps
  <1>4. new \in Records /\ new.who = r /\ new.mine = seen[r] /\ new.valid = fresh[r]
        /\ new.pc = FirstStep(k, seen[r])
    BY <1>3 DEF Typed, Objects, Records
  <1>5. k = KindOf(r)
    OBVIOUS
  <1> HIDE DEF new, k
  <1>6. w[k] = Idle
    BY <1>1, <1>2, WorkerFields DEF Typed
  <1>7. w'[k] = new /\ Others(k)
    BY <1>1, <1>2 DEF Typed, Workers, Others
  <1>8. new # Idle
    BY <1>3, <1>4 DEF Idle, Steps
  <1>9. Workers'
    BY <1>1, <1>2, <1>4, <1>5, <1>7 DEF Typed, Workers, Others
  <1>10. Typed'
    BY <1>2, <1>9 DEF Typed, Objects, Counters, object
  <1> QED
    BY <1>2, <1>4, <1>5, <1>6, <1>7, <1>8, <1>10

-----------------------------------------------------------------------------
(* What others do.                                                          *)

\* A person changes or deletes a resource: whoever works on it has an old copy.
Touched(r) ==
    \E copy \in Copy :
        /\ Version(r, copy) /\ ~fresh'[r] /\ cr[r].state = "live"
        /\ copy.id = cr[r].id /\ copy.fin = cr[r].fin
        /\ copy.state = "gone" => ~cr[r].fin
        /\ \A k \in Kinds : IF w[k].who = r THEN /\ w'[k] # Idle /\ ~w'[k].valid /\ w'[k].who = r
                                                 /\ w'[k].pc = w[k].pc /\ w'[k].mine = w[k].mine
                            ELSE w'[k] = w[k]

LEMMA TouchShape ==
    ASSUME Typed, NEW r \in Resources, NEW copy \in Copy, Touch(r, copy), cr[r].state = "live",
           copy.id = cr[r].id, copy.fin = cr[r].fin, copy.state = "gone" => ~cr[r].fin
    PROVE  Touched(r) /\ UNCHANGED <<entries, lost>> /\ Typed'
  <1>1. Version(r, copy) /\ Objects'
    BY PutShape DEF Touch, Typed
  <1>2. ~fresh'[r]
    BY DEF Touch, Put, Typed, Objects
  <1>3. /\ UNCHANGED <<queue, entries, down, lost, faults>> /\ edits' \in 0 .. MaxEdits
        /\ w' = [k \in Kinds |-> IF w[k].who = r THEN [w[k] EXCEPT !.valid = FALSE] ELSE w[k]]
    BY Constants DEF Touch, Typed, Counters
  <1>4. ASSUME NEW k \in Kinds
        PROVE  /\ w'[k] \in Records \cup {Idle}
               /\ w'[k] # Idle => KindOf(w'[k].who) = k
               /\ IF w[k].who = r THEN /\ w'[k] # Idle /\ ~w'[k].valid /\ w'[k].who = r
                                       /\ w'[k].pc = w[k].pc /\ w'[k].mine = w[k].mine
                  ELSE w'[k] = w[k]
    <2>1. CASE w[k].who # r
      BY <1>3, <2>1 DEF Typed, Workers
    <2>2. CASE w[k].who = r
      <3>1. w[k] \in Records /\ w[k].pc # "Idle" /\ KindOf(r) = k
        BY <2>2, WorkerFields DEF Typed
      <3>2. w'[k] = [w[k] EXCEPT !.valid = FALSE]
        BY <1>3, <2>2
      <3>3. /\ w'[k] \in Records /\ ~w'[k].valid /\ w'[k].who = r
            /\ w'[k].pc = w[k].pc /\ w'[k].mine = w[k].mine
        BY <2>2, <3>1, <3>2 DEF Records
      <3>4. w'[k] # Idle
        BY <3>1, <3>3 DEF Idle
      <3> QED
        BY <2>2, <3>1, <3>3, <3>4
    <2> QED
      BY <2>1, <2>2
  <1>5. Workers'
    BY <1>3, <1>4 DEF Workers
  <1>6. Touched(r)
    BY <1>1, <1>2, <1>4 DEF Touched
  <1>7. Typed'
    BY <1>1, <1>3, <1>5 DEF Typed, Counters
  <1> QED
    BY <1>3, <1>6, <1>7

LEMMA SpecsTyped ==
    ASSUME NEW r \in Resources, NEW s \in Specs(r)
    PROVE  s.name \in Names /\ s.icon \in {0, 1} /\ s.floor \in Names \cup {NoName}
           /\ s.labels \in SUBSET Names
  BY ConstantsAssumption DEF Specs

LEMMA EditShape ==
    ASSUME Typed, NEW r \in Resources, Edit(r) \/ Delete(r)
    PROVE  Touched(r) /\ UNCHANGED <<entries, lost>> /\ Typed'
  <1>1. cr[r] \in Copy /\ cr[r].state = "live"
    BY DEF Typed, Objects, Edit, Delete
  <1>2. CASE Delete(r)
    <2> DEFINE copy == [cr[r] EXCEPT !.state = IF cr[r].fin THEN "deleting" ELSE "gone"]
    <2>1. copy \in Copy /\ copy.id = cr[r].id /\ copy.fin = cr[r].fin
          /\ (copy.state = "gone" => ~cr[r].fin)
      BY <1>1 DEF Copy
    <2>2. Touch(r, copy)
      BY <1>2 DEF Delete
    <2> HIDE DEF copy
    <2> QED
      BY <1>1, <2>1, <2>2, TouchShape
  <1>3. CASE Edit(r)
    <2>1. PICK s \in Specs(r) :
               \/ Touch(r, [cr[r] EXCEPT !.name = s.name]) \/ Touch(r, [cr[r] EXCEPT !.icon = s.icon])
               \/ Touch(r, [cr[r] EXCEPT !.floor = s.floor]) \/ Touch(r, [cr[r] EXCEPT !.labels = s.labels])
      BY <1>3 DEF Edit
    <2>2. \E copy \in Copy : /\ Touch(r, copy) /\ copy.id = cr[r].id /\ copy.fin = cr[r].fin
                             /\ copy.state = "live"
      <3> DEFINE Good(copy) == copy \in Copy /\ copy.id = cr[r].id /\ copy.fin = cr[r].fin
                               /\ copy.state = "live"
      <3>1. /\ Good([cr[r] EXCEPT !.name = s.name]) /\ Good([cr[r] EXCEPT !.icon = s.icon])
            /\ Good([cr[r] EXCEPT !.floor = s.floor]) /\ Good([cr[r] EXCEPT !.labels = s.labels])
        BY <1>1, SpecsTyped DEF Copy
      <3> QED
        BY <2>1, <3>1
    <2> QED
      BY <1>1, <2>2, TouchShape
  <1> QED
    BY <1>2, <1>3

Observed(r) == cr' = cr /\ seen' = [seen EXCEPT ![r] = cr[r]]
               /\ fresh' = [fresh EXCEPT ![r] = TRUE]
LEMMA ObserveShape ==
    ASSUME Typed, NEW r \in Resources, Observe(r)
    PROVE  Observed(r) /\ UNCHANGED <<w, entries, lost>> /\ Typed'
  BY DEF Observe, Observed, Typed, Objects, Workers, Counters

LEMMA UserShape ==
    ASSUME Typed, NEW k \in Kinds, UserActs(k)
    PROVE  Kin /\ UNCHANGED <<object, w, lost>> /\ Typed'
  <1>0. EntriesTyped /\ faults' \in 0 .. MaxFaults /\ UNCHANGED <<object, queue, down, w, lost, edits>>
    BY Failing DEF Typed, EntriesTyped, UserActs
  <1>1. EntriesTyped' /\ Kin
    <2>1. ASSUME NEW name \in Names, NEW id \in NewId(k, name),
                 entries' = [entries EXCEPT ![k] = @ \cup
                     {[id |-> id, name |-> name, icon |-> 0, floor |-> NoId, labels |-> {},
                       by |-> "user"]}]
          PROVE  EntriesTyped' /\ Kin
      <3> DEFINE new == [id |-> id, name |-> name, icon |-> 0, floor |-> NoId, labels |-> {},
                         by |-> "user"]
      <3>1. id \in Ids
        BY DEF NewId
      <3>2. new \in Entry /\ new.by = "user"
        BY <3>1 DEF Entry
      <3>3. entries' = [entries EXCEPT ![k] = @ \cup {new}]
        BY <2>1
      <3> HIDE DEF new
      <3> QED
        BY <1>0, <3>2, <3>3 DEF EntriesTyped, Kin
    <2>2. ASSUME NEW e \in entries[k], entries' = Without(k, {e})
          PROVE  EntriesTyped' /\ Kin
      BY <1>0, <2>2, WithoutShape
    <2>3. ASSUME NEW e \in entries[k], NEW name \in Names,
                 entries' = [entries EXCEPT ![k] = (@ \ {e}) \cup {[e EXCEPT !.name = name]}]
          PROVE  EntriesTyped' /\ Kin
      <3>1. e \in Entry
        BY <1>0 DEF EntriesTyped
      <3>2. /\ [e EXCEPT !.name = name] \in Entry /\ [e EXCEPT !.name = name].id = e.id
            /\ [e EXCEPT !.name = name].by = e.by
        BY <3>1 DEF Entry
      <3> QED
        BY <1>0, <2>3, <3>2 DEF EntriesTyped, Kin
    <2> QED
      BY <2>1, <2>2, <2>3 DEF UserActs
  <1>2. Typed'
    BY <1>0, <1>1 DEF Typed, Objects, Workers, Counters, object, EntriesTyped
  <1> QED
    BY <1>0, <1>1, <1>2

LEMMA CrashShape ==
    ASSUME Typed, Crash
    PROVE  /\ UNCHANGED <<object, entries>> /\ w' = [k \in Kinds |-> Idle] /\ Typed'
           /\ lost' = lost \cup UNION {Forgotten(k) : k \in {q \in Kinds : w[q].pc = "Save"}}
  <1>1. \A k \in Kinds : w[k].pc = "Save" => Forgotten(k) \subseteq Resources
    BY WorkerFields DEF Typed, Forgotten, Idle
  <1>2. lost' \subseteq Resources
    BY <1>1 DEF Crash, Typed
  <1>3. Workers'
    BY DEF Crash, Workers
  <1>4. faults' \in 0 .. MaxFaults
    BY Failing DEF Crash, Typed
  <1> QED
    BY <1>2, <1>3, <1>4 DEF Crash, Typed, Objects, Counters, object

LEMMA QuietShape ==
    ASSUME Typed, GoDown \/ (\E r \in Resources : Resync(r)) \/ UNCHANGED vars
    PROVE  UNCHANGED <<object, w, entries, lost>> /\ Typed'
  <1>1. CASE GoDown
    BY <1>1, Failing DEF GoDown, Typed, Objects, Workers, Counters, object
  <1>2. CASE \E r \in Resources : Resync(r)
    BY <1>2 DEF Resync, Typed, Objects, Workers, Counters, object
  <1>3. CASE UNCHANGED vars
    BY <1>3 DEF vars, Typed, Objects, Workers, Counters, object
  <1> QED
    BY <1>1, <1>2, <1>3

\* A step is one of these.
WorkerStep(k) == \/ AddFinalizer(k) \/ LookupFails(k) \/ List(k) \/ Update(k) \/ Create(k)
                 \/ Save(k) \/ Remove(k) \/ Finalize(k)
LEMMA StepCases ==
    ASSUME [Next]_vars
    PROVE  \/ \E k \in Kinds : WorkerStep(k)
           \/ LookUpFloor \/ LookUpLabels \/ Crash
           \/ \E r \in Resources : Take(r) \/ Edit(r) \/ Delete(r) \/ Observe(r)
           \/ \E k \in Kinds : UserActs(k)
           \/ GoDown \/ (\E r \in Resources : Resync(r)) \/ UNCHANGED vars
  <1>1. Step => \/ \E k \in Kinds : WorkerStep(k)
                \/ LookUpFloor \/ LookUpLabels \/ \E r \in Resources : Take(r)
    BY DEF Step, WorkerStep, Kinds, Resources, FloorReconcile, FloorDeletion, FloorCondition,
       LabelReconcile, LabelDeletion, LabelCondition, AreaReconcile, AreaDeletion, AreaCondition,
       Apply, Withdraw
  <1> QED
    BY <1>1 DEF Next

LEMMA TypedKept == Typed /\ [Next]_vars => Typed'
  BY StepCases, LookupFailsShape, LookUpsShape, ListShape, UpdateShape, CreateShape, RemoveShape,
     AddFinalizerShape, SaveShape, FinalizeShape, TakeShape, EditShape, ObserveShape, UserShape,
     CrashShape, QuietShape DEF WorkerStep

LEMMA FirstTyped ==
    ASSUME NEW r \in Resources
    PROVE  First(r) \in Specs(r)
  <1>1. PICK ref \in Refs : ref \in Names
    BY ConstantsAssumption
  <1>2. \E s \in Specs(r) : s.name \in Refs /\ s.icon = 0
                            /\ (r \in Areas => s.floor \in Refs /\ s.labels = Refs)
    <2>1. CASE r \in Areas
      <3> DEFINE s == [name |-> ref, icon |-> 0, floor |-> ref, labels |-> Refs]
      <3>1. s \in Specs(r) /\ s.name \in Refs /\ s.icon = 0 /\ s.floor \in Refs /\ s.labels = Refs
        BY <1>1, <2>1 DEF Specs
      <3> QED
        BY <3>1
    <2>2. CASE r \notin Areas
      <3> DEFINE s == [name |-> ref, icon |-> 0, floor |-> NoName, labels |-> {}]
      <3>1. s \in Specs(r) /\ s.name \in Refs /\ s.icon = 0
        BY <1>1, <2>2 DEF Specs
      <3> QED
        BY <2>2, <3>1
    <2> QED
      BY <2>1, <2>2
  <1> QED
    BY <1>2 DEF First

LEMMA InitCounters ==
    ASSUME Init
    PROVE  Counters /\ down \in BOOLEAN
  <1>1. edits = 0 /\ faults = 0 /\ down = FALSE
    BY DEF Init
  <1>2. 0 \in 0 .. MaxEdits /\ 0 \in 0 .. MaxFaults
    BY Constants
  <1> QED
    BY <1>1, <1>2 DEF Counters

LEMMA InitTyped == Init => Typed
  <1> SUFFICES ASSUME Init PROVE Typed
    OBVIOUS
  <1>1. PICK there \in SUBSET Resources :
          cr = [r \in Resources |->
                  [WithData(New, First(r)) EXCEPT !.state = IF r \in there THEN @ ELSE "gone"]]
    BY DEF Init
  <1>2. ASSUME NEW r \in Resources
        PROVE  [WithData(New, First(r)) EXCEPT !.state = IF r \in there THEN @ ELSE "gone"] \in Copy
    <2>1. 1 \in Names
      <3>1. PICK ref \in Refs : ref \in 1 .. MaxNames
        BY ConstantsAssumption DEF Names
      <3> QED
        BY <3>1, ConstantsAssumption DEF Names
    <2>2. /\ First(r).name \in Names /\ First(r).icon \in {0, 1}
          /\ First(r).floor \in Names \cup {NoName} /\ First(r).labels \in SUBSET Names
      BY FirstTyped, SpecsTyped
    <2>3. New \in Copy
      BY <2>1 DEF New, Copy
    <2>4. WithData(New, First(r)) \in Copy
      BY <2>2, <2>3 DEF WithData, Copy
    <2> QED
      BY <2>4 DEF Copy
  <1>3. Objects
    BY <1>1, <1>2 DEF Init, Objects
  <1>4. Workers
    BY DEF Init, Workers
  <1>5. entries \in [Kinds -> SUBSET Entry] /\ queue \subseteq Resources /\ lost \subseteq Resources
    BY DEF Init
  <1>6. Counters /\ down \in BOOLEAN
    BY InitCounters
  <1> QED
    BY <1>3, <1>4, <1>5, <1>6 DEF Typed

-----------------------------------------------------------------------------
(* The inductive invariant.                                                 *)

\* A cached copy that is current is the newest; one that is not is behind in what
\* only goes one way.
Cached ==
    \A r \in Resources :
        /\ fresh[r] => seen[r] = cr[r]
        /\ cr[r].state # "gone" => /\ seen[r].fin => cr[r].fin
                                   /\ seen[r].state = "deleting" => cr[r] = seen[r]

\* What a worker's copy is worth.
Asking == {"Update", "Create", "Save"}
Leaving == {"Remove", "Finalize"}
WorkingOf(k) ==
    LET r == w[k].who  m == w[k].mine IN
    /\ w[k].valid => cr[r].state # "gone" /\ m.state = cr[r].state /\ m.fin = cr[r].fin
    /\ w[k].valid /\ w[k].pc \notin Asking => m.id = cr[r].id
    /\ w[k].pc \in Leaving => cr[r].state = "deleting" /\ m.id = cr[r].id
    /\ w[k].pc \notin Leaving => m.state # "deleting"
    /\ w[k].pc \notin Leaving \cup {"AddFinalizer"} =>
          m.fin /\ cr[r].fin /\ cr[r].state # "gone"
Working == \A k \in Kinds : w[k] # Idle => WorkingOf(k)

\* Entry i that resource r made: where its ID is known, and what the worker of the
\* resource is not about to do with it.
Kept(k, r, i) ==
    /\ KindOf(r) = k /\ cr[r].state # "gone" /\ cr[r].fin
    /\ \/ cr[r].id = i
       \/ w[k].who = r /\ w[k].pc = "Save" /\ w[k].mine.id = i
    /\ w[k].who = r =>
          /\ w[k].pc # "Finalize"
          /\ w[k].pc = "Create" => ~w[k].valid
          /\ w[k].pc \in {"Update", "Save"} => (w[k].valid => w[k].mine.id = i)
Owned == \A k \in Kinds : \A e \in entries[k] : e.by \in Resources \ lost => Kept(k, e.by, e.id)

IInv == Typed /\ Cached /\ Working /\ Owned

LEMMA CachedSame == ASSUME Cached, UNCHANGED object PROVE Cached'
  BY DEF Cached, object

\* A worker's own new version of a resource.
LEMMA CachedWrites ==
    ASSUME Typed, Cached, Working, NEW k \in Kinds, w[k] # Idle, NEW copy \in Copy,
           Writes(k, copy),
           copy.state = "gone" \/ (w[k].pc \notin Leaving /\ copy.state = w[k].mine.state),
           copy.state = "gone" \/ copy.fin
    PROVE  Cached'
  <1>1. w[k].who \in Resources /\ WorkingOf(k) /\ w[k].valid
    BY WorkerFields DEF Typed, Working, Writes
  <1>2. /\ cr' = [cr EXCEPT ![w[k].who] = copy] /\ seen' = seen
        /\ \A q \in Resources : fresh'[q] => fresh[q] /\ cr'[q] = cr[q]
    BY DEF Writes, Version
  <1> SUFFICES ASSUME NEW r \in Resources
               PROVE  /\ fresh'[r] => seen'[r] = cr'[r]
                      /\ cr'[r].state # "gone" => /\ seen'[r].fin => cr'[r].fin
                                                  /\ seen'[r].state = "deleting" => cr'[r] = seen'[r]
    BY DEF Cached
  <1>3. fresh'[r] => seen'[r] = cr'[r]
    BY <1>2 DEF Cached
  <1>4. CASE r # w[k].who
    BY <1>2, <1>3, <1>4 DEF Cached, Typed, Objects
  <1>5. CASE r = w[k].who /\ copy.state # "gone"
    <2>1. cr'[r] = copy
      BY <1>1, <1>2, <1>5 DEF Typed, Objects
    <2>2. cr[r].state # "gone" /\ cr[r].state # "deleting"
      BY <1>1, <1>5 DEF WorkingOf
    <2>3. seen[r].state # "deleting"
      BY <2>2 DEF Cached
    <2> QED
      BY <1>2, <1>3, <1>5, <2>1, <2>3
  <1>6. CASE r = w[k].who /\ copy.state = "gone"
    <2>1. cr'[r] = copy
      BY <1>1, <1>2, <1>6 DEF Typed, Objects
    <2> QED
      BY <1>3, <1>6, <2>1
  <1> QED
    BY <1>4, <1>5, <1>6

LEMMA CachedTouched ==
    ASSUME Typed, Cached, NEW r \in Resources, Touched(r)
    PROVE  Cached'
  <1>1. PICK copy \in Copy :
           /\ Version(r, copy) /\ ~fresh'[r] /\ cr[r].state = "live"
           /\ copy.id = cr[r].id /\ copy.fin = cr[r].fin
    BY DEF Touched
  <1>2. seen[r].state # "deleting" /\ (seen[r].fin => cr[r].fin)
    BY <1>1 DEF Cached
  <1>3. ASSUME NEW q \in Resources, q # r PROVE cr'[q] = cr[q]
    BY <1>1, <1>3 DEF Version, Typed, Objects
  <1>4. cr'[r] = copy
    BY <1>1 DEF Version, Typed, Objects
  <1> QED
    BY <1>1, <1>2, <1>3, <1>4 DEF Cached, Version

LEMMA CachedObserved ==
    ASSUME Typed, Cached, NEW r \in Resources, Observed(r)
    PROVE  Cached'
  BY DEF Cached, Observed, Typed, Objects

-----------------------------------------------------------------------------
(* What workers know is kept.                                               *)

\* The others' resources are of other kinds.
LEMMA Apart ==
    ASSUME Workers, NEW k \in Kinds, NEW q \in Kinds, q # k, w[k] # Idle, w[q] # Idle
    PROVE  w[k].who # w[q].who
  BY WorkerFields

LEMMA WorkingGoes ==
    ASSUME Typed, Working, UNCHANGED object, NEW k \in Kinds, w[k] # Idle, NEW label, NEW copy,
           Goes(k, label, copy), Same(copy, w[k].mine),
           label \notin Asking => copy.id = w[k].mine.id /\ w[k].pc \notin Asking,
           label \in Leaving <=> w[k].pc \in Leaving,
           "AddFinalizer" \notin {label, w[k].pc}
    PROVE  Working'
  <1> SUFFICES ASSUME NEW q \in Kinds, w'[q] # Idle PROVE WorkingOf(q)'
    BY DEF Working
  <1>1. CASE q # k
    BY <1>1 DEF Goes, Others, Working, WorkingOf, object
  <1>2. CASE q = k
    <2>1. /\ w'[k].pc = label /\ w'[k].mine = copy /\ w'[k].who = w[k].who /\ w'[k].valid = w[k].valid
          /\ copy.state = w[k].mine.state /\ copy.fin = w[k].mine.fin /\ cr' = cr
      BY DEF Goes, Same, object
    <2>2. WorkingOf(k)
      BY DEF Working
    <2>3. Leaving \cap Asking = {}
      BY DEF Leaving, Asking
    <2> DEFINE r == w[k].who
    <2>4. w[k].valid => cr[r].state # "gone" /\ copy.state = cr[r].state /\ copy.fin = cr[r].fin
      BY <2>1, <2>2 DEF WorkingOf
    <2>5. w[k].valid /\ label \notin Asking => copy.id = cr[r].id
      BY <2>2 DEF WorkingOf
    <2>6. label \in Leaving => cr[r].state = "deleting" /\ copy.id = cr[r].id
      BY <2>2, <2>3 DEF WorkingOf
    <2>7. label \notin Leaving => copy.state # "deleting" /\ copy.fin /\ cr[r].fin /\ cr[r].state # "gone"
      BY <2>1, <2>2 DEF WorkingOf
    <2> QED
      BY <1>2, <2>1, <2>4, <2>5, <2>6, <2>7 DEF WorkingOf
  <1> QED
    BY <1>1, <1>2

LEMMA WorkingSame == ASSUME Working, UNCHANGED <<object, w>> PROVE Working'
  BY DEF Working, WorkingOf, object

LEMMA WorkingObserved ==
    ASSUME Working, NEW r \in Resources, Observed(r), w' = w
    PROVE  Working'
  BY DEF Working, WorkingOf, Observed

\* A worker that is done disturbs nobody.
LEMMA WorkingDone ==
    ASSUME Typed, Working, NEW k \in Kinds, w[k] # Idle, w'[k] = Idle, Others(k),
           UNCHANGED object \/ \E copy : Version(w[k].who, copy)
    PROVE  Working'
  <1> SUFFICES ASSUME NEW q \in Kinds, w'[q] # Idle PROVE WorkingOf(q)'
    BY DEF Working
  <1>1. q # k /\ w'[q] = w[q] /\ WorkingOf(q)
    BY DEF Others, Working
  <1>2. w[q].who # w[k].who /\ w[q].who \in Resources /\ w[k].who \in Resources
    BY <1>1, Apart, WorkerFields DEF Typed
  <1>3. cr'[w[q].who] = cr[w[q].who]
    BY <1>2 DEF object, Version, Typed, Objects
  <1> QED
    BY <1>1, <1>3 DEF WorkingOf

LEMMA WorkingTaken ==
    ASSUME Typed, Cached, Working, NEW r \in Resources, UNCHANGED object,
           cr[r].state # "gone", w'[KindOf(r)] # Idle, Others(KindOf(r)),
           w'[KindOf(r)].who = r, w'[KindOf(r)].mine = seen[r], w'[KindOf(r)].valid = fresh[r],
           w'[KindOf(r)].pc = FirstStep(KindOf(r), seen[r])
    PROVE  Working'
  <1> SUFFICES ASSUME NEW q \in Kinds, w'[q] # Idle PROVE WorkingOf(q)'
    BY DEF Working
  <1>1. CASE q # KindOf(r)
    BY <1>1 DEF Others, Working, WorkingOf, object
  <1>2. CASE q = KindOf(r)
    BY <1>2 DEF Cached, WorkingOf, object, FirstStep, Asking, Leaving
  <1> QED
    BY <1>1, <1>2

LEMMA WorkingTouched ==
    ASSUME Typed, Working, NEW r \in Resources, Touched(r)
    PROVE  Working'
  <1>1. PICK copy \in Copy :
           /\ Version(r, copy) /\ ~fresh'[r] /\ cr[r].state = "live"
           /\ copy.id = cr[r].id /\ copy.fin = cr[r].fin /\ (copy.state = "gone" => ~cr[r].fin)
           /\ \A k \in Kinds : IF w[k].who = r THEN /\ w'[k] # Idle /\ ~w'[k].valid /\ w'[k].who = r
                                                    /\ w'[k].pc = w[k].pc /\ w'[k].mine = w[k].mine
                               ELSE w'[k] = w[k]
    BY DEF Touched
  <1> SUFFICES ASSUME NEW q \in Kinds, w'[q] # Idle PROVE WorkingOf(q)'
    BY DEF Working
  <1>2. CASE w[q].who # r
    <2>1. w'[q] = w[q] /\ WorkingOf(q) /\ w[q].who \in Resources
      BY <1>1, <1>2, WorkerFields DEF Working, Typed
    <2>2. cr'[w[q].who] = cr[w[q].who]
      BY <1>1, <1>2, <2>1 DEF Version, Typed, Objects
    <2> QED
      BY <2>1, <2>2 DEF WorkingOf
  <1>3. CASE w[q].who = r
    <2>1. w[q] # Idle /\ WorkingOf(q) /\ cr'[r] = copy
      BY <1>1, <1>3, WorkerFields DEF Working, Typed, Version, Objects
    <2>2. w[q].pc \notin Leaving
      BY <1>1, <1>3, <2>1 DEF WorkingOf
    <2> QED
      BY <1>1, <1>3, <2>1, <2>2 DEF WorkingOf
  <1> QED
    BY <1>2, <1>3

-----------------------------------------------------------------------------
(* What resources own is kept.                                              *)

\* What is left of the entries of others than the one at hand.
LEMMA OwnedByKin ==
    ASSUME Owned, EntriesTyped, Kin, lost \subseteq lost', "user" \notin Resources,
           ASSUME NEW q \in Kinds, NEW r \in Resources \ lost', NEW i \in Ids, Kept(q, r, i),
                  NEW x \in entries'[q], x.id = i, x.by = r
           PROVE  Kept(q, r, i)'
    PROVE  Owned'
  <1> SUFFICES ASSUME NEW q \in Kinds, NEW x \in entries'[q], x.by \in Resources \ lost'
               PROVE  Kept(q, x.by, x.id)'
    BY DEF Owned
  <1>1. PICK e \in entries[q] : x.id = e.id /\ x.by = e.by
    BY DEF Kin
  <1>2. Kept(q, x.by, x.id) /\ x.id \in Ids
    BY <1>1 DEF Owned, EntriesTyped, Entry
  <1> QED
    BY <1>2

\* A worker does not touch what the other resources have.
LEMMA KeptOther ==
    ASSUME Typed, NEW k \in Kinds, Others(k), NEW q \in Kinds, NEW r \in Resources, NEW i \in Ids,
           r # w[k].who, w'[k].who \in {w[k].who, NoOne}, cr'[r] = cr[r], Kept(q, r, i)
    PROVE  Kept(q, r, i)'
  <1>1. r # NoOne
    BY Constants
  <1>2. CASE q # k
    BY <1>2 DEF Others, Kept
  <1>3. CASE q = k
    BY <1>1, <1>3 DEF Kept
  <1> QED
    BY <1>2, <1>3

\* A worker's resource is of its kind.
LEMMA KeptKind ==
    ASSUME Typed, NEW k \in Kinds, w[k] # Idle, NEW q \in Kinds, NEW i \in Ids, Kept(q, w[k].who, i)
    PROVE  q = k
  BY WorkerFields DEF Typed, Kept

LEMMA NothingChanges ==
    ASSUME Typed, Owned, Kin, UNCHANGED <<cr, w, lost>>
    PROVE  Owned'
  <1>1. ASSUME NEW q \in Kinds, NEW r \in Resources, NEW i \in Ids, Kept(q, r, i)
        PROVE  Kept(q, r, i)'
    BY <1>1 DEF Kept
  <1>2. EntriesTyped /\ "user" \notin Resources
    BY Constants DEF Typed, EntriesTyped
  <1> QED
    BY <1>1, <1>2, OwnedByKin

LEMMA KinSame == ASSUME UNCHANGED entries PROVE Kin
  BY DEF Kin

\* A worker that goes on, with what the entries of its resource need of it.
Fits(k, label, copy, i) ==
    /\ label # "Finalize"
    /\ label = "Create" => ~w[k].valid
    /\ label \in {"Update", "Save"} => (w[k].valid => copy.id = i)
Owns(k, i) == /\ w[k].who \notin lost' /\ Kept(k, w[k].who, i)
              /\ \E x \in entries'[k] : x.id = i /\ x.by = w[k].who
LEMMA OwnedGoes ==
    ASSUME Typed, Owned, Kin, UNCHANGED object, lost \subseteq lost',
           NEW k \in Kinds, w[k] # Idle, NEW label, NEW copy, Goes(k, label, copy),
           w[k].pc # "Save", \A i \in Ids : Owns(k, i) => Fits(k, label, copy, i)
    PROVE  Owned'
  <1>0. EntriesTyped /\ "user" \notin Resources /\ cr' = cr
    BY Constants DEF Typed, EntriesTyped, object
  <1>1. Others(k) /\ w'[k].pc = label /\ w'[k].mine = copy /\ w'[k].who = w[k].who
        /\ w'[k].valid = w[k].valid
    BY DEF Goes
  <1>2. ASSUME NEW q \in Kinds, NEW r \in Resources \ lost', NEW i \in Ids, Kept(q, r, i),
               NEW x \in entries'[q], x.id = i, x.by = r
        PROVE  Kept(q, r, i)'
    <2>1. CASE r # w[k].who
      BY <1>0, <1>1, <1>2, <2>1, KeptOther
    <2>2. CASE r = w[k].who
      <3>1. q = k
        BY <1>2, <2>2, KeptKind
      <3>2. /\ label # "Finalize" /\ (label = "Create" => ~w[k].valid)
            /\ label \in {"Update", "Save"} => (w[k].valid => copy.id = i)
        BY <1>2, <2>2, <3>1 DEF Owns, Fits
      <3> QED
        BY <1>0, <1>1, <1>2, <2>2, <3>1, <3>2 DEF Kept
    <2> QED
      BY <2>1, <2>2
  <1> QED
    BY <1>0, <1>2, OwnedByKin

LEMMA OwnedLookupFailed ==
    ASSUME Typed, Working, Owned, Kin, UNCHANGED <<object, lost>>, NEW k \in Kinds, w[k] # Idle,
           w[k].pc \in {"Floor", "Labels", "List", "Update", "Create"}, LookupFailed(k)
    PROVE  Owned'
  <1>1. PICK copy \in Copy : Goes(k, "Save", copy) /\ copy.id = w[k].mine.id
    BY DEF LookupFailed
  <1>2. ASSUME NEW i \in Ids, Kept(k, w[k].who, i), w[k].valid
        PROVE  copy.id = i
    <2>1. CASE w[k].pc \in {"Update", "Create"}
      BY <1>1, <1>2, <2>1 DEF Kept
    <2>2. CASE w[k].pc \in {"Floor", "Labels", "List"}
      BY <1>1, <1>2, <2>2 DEF Kept, Working, WorkingOf, Asking
    <2> QED
      BY <2>1, <2>2
  <1>3. \A i \in Ids : Owns(k, i) => Fits(k, "Save", copy, i)
    BY <1>2 DEF Owns, Fits
  <1>4. w[k].pc # "Save" /\ lost \subseteq lost'
    OBVIOUS
  <1> QED
    BY <1>1, <1>3, <1>4, OwnedGoes

LEMMA OwnedListed ==
    ASSUME Typed, Working, Owned, UNCHANGED <<object, entries, lost>>, NEW k \in Kinds, w[k] # Idle,
           w[k].pc = "List", Listed(k)
    PROVE  Owned'
  <1>0. Kin
    BY KinSame
  <1>1. ASSUME NEW i \in Ids, Owns(k, i), w[k].valid
        PROVE  Found(k, w[k].mine) # {} /\ \A e \in Found(k, w[k].mine) : e.id = i
    <2>1. PICK x \in entries[k] : x.id = i
      BY <1>1 DEF Owns
    <2>2. cr[w[k].who].id = i
      BY <1>1 DEF Owns, Kept
    <2>3. w[k].mine.id = i
      BY <1>1, <2>2 DEF Working, WorkingOf, Asking
    <2>4. x \in {e \in entries[k] : e.id = w[k].mine.id}
      BY <2>1, <2>3
    <2> QED
      BY <2>3, <2>4 DEF Found
  <1>2. w[k].pc # "Save" /\ lost \subseteq lost' /\ UNCHANGED object
    OBVIOUS
  <1>3. ASSUME NEW e \in Found(k, w[k].mine), NEW copy \in Copy, Goes(k, "Update", copy), copy.id = e.id
        PROVE  Owned'
    <2>1. \A i \in Ids : Owns(k, i) => Fits(k, "Update", copy, i)
      BY <1>1, <1>3 DEF Fits
    <2> QED
      BY <1>0, <1>2, <1>3, <2>1, OwnedGoes
  <1>4. ASSUME NEW copy \in Copy, Goes(k, "Create", copy), Found(k, w[k].mine) = {}
        PROVE  Owned'
    <2>1. \A i \in Ids : Owns(k, i) => Fits(k, "Create", copy, i)
      BY <1>1, <1>4 DEF Fits
    <2> QED
      BY <1>0, <1>2, <1>4, <2>1, OwnedGoes
  <1> QED
    BY <1>3, <1>4 DEF Listed

LEMMA OwnedLookedUp ==
    ASSUME Typed, Owned, UNCHANGED <<object, entries, lost>>, NEW k \in Kinds, w[k] # Idle,
           w[k].pc \in {"Floor", "Labels"}, NEW label \in {"Labels", "List"}, NEW copy,
           Goes(k, label, copy)
    PROVE  Owned'
  <1>1. \A i \in Ids : Fits(k, label, copy, i)
    BY DEF Fits
  <1>2. w[k].pc # "Save" /\ lost \subseteq lost' /\ UNCHANGED object
    OBVIOUS
  <1> QED
    BY <1>1, <1>2, KinSame, OwnedGoes

LEMMA OwnedRemoved ==
    ASSUME Typed, Working, Owned, UNCHANGED object, NEW k \in Kinds, w[k] # Idle, w[k].pc = "Remove",
           Goes(k, "Finalize", w[k].mine), Kin,
           \/ lost' = lost /\ \A x \in entries'[k] : x.id # w[k].mine.id
           \/ lost' = lost \cup {w[k].who}
    PROVE  Owned'
  <1>1. ASSUME NEW i \in Ids, Owns(k, i) PROVE FALSE
    <2>1. PICK x \in entries'[k] : x.id = i
      BY <1>1 DEF Owns
    <2>2. cr[w[k].who].id = i
      BY <1>1 DEF Owns, Kept
    <2>3. w[k].mine.id = i
      BY <2>2 DEF Working, WorkingOf, Leaving
    <2> QED
      BY <1>1, <2>1, <2>3 DEF Owns
  <1>2. w[k].pc # "Save" /\ lost \subseteq lost'
    OBVIOUS
  <1> QED
    BY <1>1, <1>2, OwnedGoes

\* A new entry is the one of the copy that will be saved, or counts as lost.
LEMMA OwnedCreated ==
    ASSUME Typed, Working, Owned, UNCHANGED object, NEW k \in Kinds, w[k] # Idle, w[k].pc = "Create",
           Created(k)
    PROVE  Owned'
  <1>0. EntriesTyped /\ "user" \notin Resources /\ cr' = cr
    BY Constants DEF Typed, EntriesTyped, object
  <1>1. CASE LookupFailed(k) /\ UNCHANGED <<entries, lost>>
    BY <1>1, KinSame, OwnedLookupFailed DEF object
  <1>2. ASSUME NEW id \in Ids, NEW copy \in Copy, Born(k, id), Goes(k, "Save", copy),
               \/ copy.id = id /\ lost' = lost
               \/ lost' = lost \cup {w[k].who}
        PROVE  Owned'
    <2> SUFFICES ASSUME NEW q \in Kinds, NEW x \in entries'[q], x.by \in Resources \ lost'
                 PROVE  Kept(q, x.by, x.id)'
      BY DEF Owned
    <2>1. /\ Others(k) /\ w'[k].pc = "Save" /\ w'[k].mine = copy /\ w'[k].who = w[k].who
          /\ w'[k].valid = w[k].valid /\ WorkingOf(k) /\ w[k].who \in Resources /\ KindOf(w[k].who) = k
      BY <1>2, WorkerFields DEF Goes, Working, Typed
    <2>2. CASE q = k /\ x.by = w[k].who /\ x.id = id
      <3>1. copy.id = id
        BY <1>2, <2>2
      <3>2. cr[w[k].who].state # "gone" /\ cr[w[k].who].fin
        BY <2>1 DEF WorkingOf, Leaving
      <3> QED
        BY <1>0, <2>1, <2>2, <3>1, <3>2 DEF Kept
    <2>3. ASSUME NEW e \in entries[q], x.id = e.id, x.by = e.by
          PROVE  Kept(q, x.by, x.id)'
      <3>1. Kept(q, x.by, x.id) /\ x.id \in Ids
        BY <1>0, <1>2, <2>3 DEF Owned, EntriesTyped, Entry
      <3>2. CASE x.by # w[k].who
        BY <1>0, <2>1, <3>1, <3>2, KeptOther
      <3>3. CASE x.by = w[k].who
        <4>1. q = k
          BY <3>1, <3>3, KeptKind
        <4> QED
          BY <1>0, <2>1, <3>1, <3>3, <4>1 DEF Kept
      <3> QED
        BY <3>2, <3>3
    <2> QED
      BY <1>2, <2>2, <2>3 DEF Born
  <1> QED
    BY <1>1, <1>2 DEF Created

\* A worker that is done has written nothing, or a copy that keeps what is known.
LEMMA OwnedDone ==
    ASSUME Typed, Owned, UNCHANGED entries, lost \subseteq lost', NEW k \in Kinds, w[k] # Idle,
           w'[k] = Idle, Others(k), NEW copy \in Copy,
           UNCHANGED object \/ Version(w[k].who, copy),
           ASSUME NEW i \in Ids, Kept(k, w[k].who, i), w[k].who \notin lost'
           PROVE  /\ UNCHANGED object => cr[w[k].who].id = i
                  /\ ~UNCHANGED object => copy.id = i /\ copy.fin /\ copy.state # "gone"
    PROVE  Owned'
  <1>0. EntriesTyped /\ "user" \notin Resources /\ NoOne \notin Resources
    BY Constants DEF Typed, EntriesTyped
  <1>1. w[k].who \in Resources /\ Idle.who = NoOne
    BY WorkerFields DEF Typed, Idle
  <1>2. ASSUME NEW q \in Kinds, NEW r \in Resources \ lost', NEW i \in Ids, Kept(q, r, i),
               NEW x \in entries'[q], x.id = i, x.by = r
        PROVE  Kept(q, r, i)'
    <2>1. CASE r # w[k].who
      <3>1. cr'[r] = cr[r]
        BY <1>1, <2>1 DEF Version, Typed, Objects, object
      <3> QED
        BY <1>1, <1>2, <2>1, <3>1, KeptOther
    <2>2. CASE r = w[k].who
      <3>1. q = k
        BY <1>2, <2>2, KeptKind
      <3>2. CASE UNCHANGED object
        BY <1>0, <1>1, <1>2, <2>2, <3>1, <3>2 DEF Kept, object
      <3>3. CASE ~UNCHANGED object
        <4>1. cr'[r] = copy
          BY <1>1, <2>2, <3>3 DEF Version, Typed, Objects
        <4>2. copy.id = i /\ copy.fin /\ copy.state # "gone"
          BY <1>2, <2>2, <3>1, <3>3
        <4> QED
          BY <1>0, <1>1, <1>2, <2>2, <3>1, <4>1, <4>2 DEF Kept
      <3> QED
        BY <3>2, <3>3
    <2> QED
      BY <2>1, <2>2
  <1> QED
    BY <1>0, <1>2, KinSame, OwnedByKin

LEMMA OwnedSaved ==
    ASSUME Typed, Working, Owned, NEW k \in Kinds, w[k] # Idle, w[k].pc = "Save", w'[k] = Idle, Others(k),
           \/ Writes(k, w[k].mine) /\ lost' = lost
           \/ UNCHANGED object /\ lost' = lost \cup Forgotten(k),
           UNCHANGED entries
    PROVE  Owned'
  <1>0. w[k].mine \in Copy /\ NoId \notin Ids /\ w[k].mine.fin /\ WorkingOf(k)
    BY WorkerFields, Constants DEF Typed, Working, WorkingOf, Leaving
  <1>1. CASE UNCHANGED object /\ lost' = lost \cup Forgotten(k)
    <2>1. ASSUME NEW i \in Ids, Kept(k, w[k].who, i), w[k].who \notin lost'
          PROVE  cr[w[k].who].id = i
      <3>1. w[k].mine.id \in {NoId, cr[w[k].who].id}
        BY <1>1, <2>1 DEF Forgotten
      <3> QED
        BY <1>0, <2>1, <3>1 DEF Kept
    <2> QED
      BY <1>0, <1>1, <2>1, OwnedDone
  <1>2. CASE Writes(k, w[k].mine) /\ lost' = lost
    <2>1. ASSUME NEW i \in Ids, Kept(k, w[k].who, i)
          PROVE  w[k].mine.id = i /\ w[k].mine.state # "gone"
      BY <1>0, <1>2, <2>1 DEF Kept, Writes, WorkingOf
    <2>2. Version(w[k].who, w[k].mine)
      BY <1>2 DEF Writes
    <2>3. UNCHANGED object => w[k].mine = cr[w[k].who]
      BY <1>2, <2>2, WorkerFields DEF object, Version, Typed, Objects
    <2> QED
      BY <1>0, <1>2, <2>1, <2>2, <2>3, OwnedDone
  <1> QED
    BY <1>1, <1>2

LEMMA OwnedFinalizer ==
    ASSUME Typed, Working, Owned, NEW k \in Kinds, w[k] # Idle, w[k].pc = "AddFinalizer",
           w'[k] = Idle, Others(k), UNCHANGED <<entries, lost>>,
           UNCHANGED object \/ Writes(k, [w[k].mine EXCEPT !.fin = TRUE])
    PROVE  Owned'
  <1> DEFINE copy == [w[k].mine EXCEPT !.fin = TRUE]
  <1>1. /\ copy \in Copy /\ copy.fin /\ copy.id = w[k].mine.id /\ copy.state = w[k].mine.state
    BY WorkerFields DEF Typed, Copy
  <1>2. UNCHANGED object \/ (w[k].valid /\ Version(w[k].who, copy))
    BY DEF Writes
  <1> HIDE DEF copy
  <1>3. ASSUME NEW i \in Ids, Kept(k, w[k].who, i)
        PROVE  cr[w[k].who].id = i /\ (w[k].valid => copy.id = i /\ copy.state # "gone")
    BY <1>1, <1>3 DEF Kept, Working, WorkingOf, Asking
  <1> QED
    BY <1>1, <1>2, <1>3, OwnedDone

\* A resource that is finalized has no entry left.
LEMMA OwnedFinalized ==
    ASSUME Typed, Owned, NEW k \in Kinds, w[k] # Idle, w[k].pc = "Finalize",
           w'[k] = Idle, Others(k), UNCHANGED <<entries, lost>>,
           UNCHANGED object \/ Writes(k, [w[k].mine EXCEPT !.fin = FALSE, !.state = "gone"])
    PROVE  Owned'
  <1> DEFINE copy == [w[k].mine EXCEPT !.fin = FALSE, !.state = "gone"]
  <1>1. copy \in Copy
    BY WorkerFields DEF Typed, Copy
  <1>2. UNCHANGED object \/ Version(w[k].who, copy)
    BY DEF Writes
  <1> HIDE DEF copy
  <1>3. ASSUME NEW i \in Ids PROVE ~Kept(k, w[k].who, i)
    BY DEF Kept
  <1> QED
    BY <1>1, <1>2, <1>3, OwnedDone

LEMMA OwnedTouched ==
    ASSUME Typed, Owned, NEW r \in Resources, Touched(r), UNCHANGED <<entries, lost>>
    PROVE  Owned'
  <1>0. EntriesTyped /\ "user" \notin Resources /\ lost \subseteq lost'
    BY Constants DEF Typed, EntriesTyped
  <1>1. PICK copy \in Copy :
           /\ Version(r, copy) /\ copy.id = cr[r].id /\ copy.fin = cr[r].fin
           /\ (copy.state = "gone" => ~cr[r].fin)
           /\ \A k \in Kinds : IF w[k].who = r THEN /\ w'[k] # Idle /\ ~w'[k].valid /\ w'[k].who = r
                                                    /\ w'[k].pc = w[k].pc /\ w'[k].mine = w[k].mine
                               ELSE w'[k] = w[k]
    BY DEF Touched
  <1>2. cr' = [cr EXCEPT ![r] = copy] /\ cr \in [Resources -> Copy]
    BY <1>1 DEF Version, Typed, Objects
  <1>3. ASSUME NEW q \in Kinds, NEW o \in Resources \ lost', NEW i \in Ids, Kept(q, o, i),
               NEW x \in entries'[q], x.id = i, x.by = o
        PROVE  Kept(q, o, i)'
    <2>1. CASE o = r
      <3>1. cr'[o] = copy
        BY <1>2, <2>1
      <3> QED
        BY <1>1, <1>3, <2>1, <3>1 DEF Kept
    <2>2. CASE o # r
      <3>1. cr'[o] = cr[o]
        BY <1>2, <2>2
      <3>2. CASE w[q].who = r
        BY <1>1, <1>3, <2>2, <3>1, <3>2 DEF Kept
      <3>3. CASE w[q].who # r
        BY <1>1, <1>3, <3>1, <3>3 DEF Kept
      <3> QED
        BY <3>2, <3>3
    <2> QED
      BY <2>1, <2>2
  <1> QED
    BY <1>0, <1>3, KinSame, OwnedByKin

LEMMA OwnedTaken ==
    ASSUME Typed, Owned, NEW r \in Resources, UNCHANGED <<object, entries, lost>>,
           w[KindOf(r)] = Idle, Others(KindOf(r)), w'[KindOf(r)].who = r,
           w'[KindOf(r)].pc = FirstStep(KindOf(r), seen[r])
    PROVE  Owned'
  <1>0. EntriesTyped /\ "user" \notin Resources /\ NoOne \notin Resources /\ lost \subseteq lost'
        /\ cr' = cr
    BY Constants DEF Typed, EntriesTyped, object
  <1>1. w'[KindOf(r)].pc \notin {"Finalize", "Create", "Update", "Save"}
    BY DEF FirstStep
  <1>2. w[KindOf(r)].who = NoOne
    BY DEF Idle
  <1>3. ASSUME NEW q \in Kinds, NEW o \in Resources \ lost', NEW i \in Ids, Kept(q, o, i),
               NEW x \in entries'[q], x.id = i, x.by = o
        PROVE  Kept(q, o, i)'
    <2>1. CASE q # KindOf(r)
      BY <1>0, <1>3, <2>1 DEF Others, Kept
    <2>2. CASE q = KindOf(r)
      BY <1>0, <1>1, <1>2, <1>3, <2>2 DEF Kept
    <2> QED
      BY <2>1, <2>2
  <1> QED
    BY <1>0, <1>3, KinSame, OwnedByKin

\* A crash loses what was about to be saved.
LEMMA OwnedCrash ==
    ASSUME Typed, Owned, UNCHANGED <<object, entries>>, w' = [k \in Kinds |-> Idle],
           lost' = lost \cup UNION {Forgotten(k) : k \in {q \in Kinds : w[q].pc = "Save"}}
    PROVE  Owned'
  <1>0. EntriesTyped /\ "user" \notin Resources /\ NoOne \notin Resources /\ lost \subseteq lost'
        /\ NoId \notin Ids /\ cr' = cr
    BY Constants DEF Typed, EntriesTyped, object
  <1>1. ASSUME NEW q \in Kinds, NEW o \in Resources \ lost', NEW i \in Ids, Kept(q, o, i),
               NEW x \in entries'[q], x.id = i, x.by = o
        PROVE  Kept(q, o, i)'
    <2>1. w'[q].who # o
      BY <1>0 DEF Idle
    <2>2. cr[o].id = i
      <3>1. SUFFICES ASSUME w[q].who = o, w[q].pc = "Save", w[q].mine.id = i
                     PROVE  cr[o].id = i
        BY <1>1 DEF Kept
      <3>2. o \notin Forgotten(q)
        BY <3>1
      <3> QED
        BY <1>0, <3>1, <3>2 DEF Forgotten
    <2> QED
      BY <1>0, <1>1, <2>1, <2>2 DEF Kept
  <1> QED
    BY <1>0, <1>1, KinSame, OwnedByKin

-----------------------------------------------------------------------------
(* The invariant is inductive.                                              *)

LEMMA InitIInv == Init => IInv
  <1> SUFFICES ASSUME Init PROVE IInv
    OBVIOUS
  <1>1. Typed
    BY InitTyped
  <1>2. /\ seen = cr /\ entries = [k \in Kinds |-> {}] /\ w = [k \in Kinds |-> Idle]
    BY DEF Init
  <1>3. Cached
    BY <1>2 DEF Cached
  <1>4. Working /\ Owned
    BY <1>2 DEF Working, Owned
  <1> QED
    BY <1>1, <1>3, <1>4 DEF IInv

\* The steps of a reconcile, one by one.
LEMMA WorkerStepIInv ==
    ASSUME IInv, NEW k \in Kinds, WorkerStep(k)
    PROVE  Cached' /\ Working' /\ Owned'
  <1>0. Typed /\ Cached /\ Working /\ Owned
    BY DEF IInv
  <1>1. CASE LookupFails(k)
    <2>1. /\ w[k] # Idle /\ w[k].pc \in {"Floor", "Labels", "List"}
          /\ LookupFailed(k) /\ UNCHANGED <<object, entries, lost>>
      BY <1>0, <1>1, LookupFailsShape
    <2>2. PICK copy \in Copy : Goes(k, "Save", copy) /\ Same(copy, w[k].mine)
      BY <2>1 DEF LookupFailed
    <2>3. Working'
      BY <1>0, <2>1, <2>2, WorkingGoes DEF Asking, Leaving
    <2> QED
      BY <1>0, <2>1, <2>3, CachedSame, KinSame, OwnedLookupFailed
  <1>2. CASE List(k)
    <2>1. /\ w[k] # Idle /\ w[k].pc = "List"
          /\ Listed(k) /\ UNCHANGED <<object, entries, lost>>
      BY <1>0, <1>2, ListShape
    <2>2. PICK label \in {"Update", "Create"}, copy \in Copy :
             Goes(k, label, copy) /\ Same(copy, w[k].mine)
      BY <2>1 DEF Listed
    <2>3. Working'
      BY <1>0, <2>1, <2>2, WorkingGoes DEF Asking, Leaving
    <2> QED
      BY <1>0, <2>1, <2>3, CachedSame, OwnedListed
  <1>3. CASE Update(k)
    <2>1. /\ w[k] # Idle /\ w[k].pc = "Update"
          /\ LookupFailed(k) /\ Kin /\ UNCHANGED <<object, lost>>
      BY <1>0, <1>3, UpdateShape
    <2>2. PICK copy \in Copy : Goes(k, "Save", copy) /\ Same(copy, w[k].mine)
      BY <2>1 DEF LookupFailed
    <2>3. Working'
      BY <1>0, <2>1, <2>2, WorkingGoes DEF Asking, Leaving
    <2> QED
      BY <1>0, <2>1, <2>3, CachedSame, OwnedLookupFailed
  <1>4. CASE Create(k)
    <2>1. w[k] # Idle /\ w[k].pc = "Create" /\ Created(k) /\ UNCHANGED object
      BY <1>0, <1>4, CreateShape
    <2>2. PICK copy \in Copy : Goes(k, "Save", copy) /\ Same(copy, w[k].mine)
      BY <2>1 DEF Created, LookupFailed
    <2>3. Working'
      BY <1>0, <2>1, <2>2, WorkingGoes DEF Asking, Leaving
    <2> QED
      BY <1>0, <2>1, <2>3, CachedSame, OwnedCreated
  <1>5. CASE Remove(k)
    <2>1. /\ w[k] # Idle /\ w[k].pc = "Remove" /\ Goes(k, "Finalize", w[k].mine)
          /\ Kin /\ UNCHANGED object
          /\ \/ lost' = lost /\ \A x \in entries'[k] : x.id # w[k].mine.id
             \/ lost' = lost \cup {w[k].who}
      BY <1>0, <1>5, RemoveShape
    <2>2. Same(w[k].mine, w[k].mine)
      BY DEF Same
    <2>3. Working'
      BY <1>0, <2>1, <2>2, WorkingGoes DEF Asking, Leaving
    <2> QED
      BY <1>0, <2>1, <2>3, CachedSame, OwnedRemoved
  <1>6. CASE Save(k)
    <2>1. /\ w[k] # Idle /\ w[k].pc = "Save" /\ w'[k] = Idle /\ Others(k) /\ UNCHANGED entries
          /\ \/ Writes(k, w[k].mine) /\ lost' = lost
             \/ UNCHANGED object /\ lost' = lost \cup Forgotten(k)
      BY <1>0, <1>6, SaveShape
    <2>2. w[k].mine \in Copy /\ w[k].mine.fin /\ w[k].pc \notin Leaving
      BY <1>0, <2>1, WorkerFields DEF Typed, Working, WorkingOf, Leaving
    <2>3. Cached'
      BY <1>0, <2>1, <2>2, CachedSame, CachedWrites
    <2>4. Working'
      BY <1>0, <2>1, WorkingDone DEF Writes
    <2> QED
      BY <1>0, <2>1, <2>3, <2>4, OwnedSaved
  <1>7. CASE AddFinalizer(k)
    <2> DEFINE copy == [w[k].mine EXCEPT !.fin = TRUE]
    <2>1. /\ w[k] # Idle /\ w[k].pc = "AddFinalizer" /\ w'[k] = Idle /\ Others(k)
          /\ UNCHANGED object \/ Writes(k, copy)
          /\ UNCHANGED <<entries, lost>>
      BY <1>0, <1>7, AddFinalizerShape
    <2>2. copy \in Copy /\ copy.fin /\ copy.state = w[k].mine.state /\ w[k].pc \notin Leaving
      BY <1>0, <2>1, WorkerFields DEF Typed, Copy, Leaving
    <2>3. Owned'
      BY <1>0, <2>1, OwnedFinalizer
    <2> HIDE DEF copy
    <2>4. Cached'
      BY <1>0, <2>1, <2>2, CachedSame, CachedWrites
    <2>5. Working'
      BY <1>0, <2>1, WorkingDone DEF Writes
    <2> QED
      BY <2>3, <2>4, <2>5
  <1>8. CASE Finalize(k)
    <2> DEFINE copy == [w[k].mine EXCEPT !.fin = FALSE, !.state = "gone"]
    <2>1. /\ w[k] # Idle /\ w[k].pc = "Finalize" /\ w'[k] = Idle /\ Others(k)
          /\ UNCHANGED object \/ Writes(k, copy)
          /\ UNCHANGED <<entries, lost>>
      BY <1>0, <1>8, FinalizeShape
    <2>2. copy \in Copy /\ copy.state = "gone"
      BY <1>0, <2>1, WorkerFields DEF Typed, Copy
    <2>3. Owned'
      BY <1>0, <2>1, OwnedFinalized
    <2> HIDE DEF copy
    <2>4. Cached'
      BY <1>0, <2>1, <2>2, CachedSame, CachedWrites
    <2>5. Working'
      BY <1>0, <2>1, WorkingDone DEF Writes
    <2> QED
      BY <2>3, <2>4, <2>5
  <1> QED
    BY <1>1, <1>2, <1>3, <1>4, <1>5, <1>6, <1>7, <1>8 DEF WorkerStep

LEMMA NextIInv ==
    ASSUME IInv, [Next]_vars
    PROVE  IInv'
  <1>0. Typed /\ Cached /\ Working /\ Owned /\ Typed'
    BY TypedKept DEF IInv
  <1> SUFFICES Cached' /\ Working' /\ Owned'
    BY <1>0 DEF IInv
  <1>1. CASE \E k \in Kinds : WorkerStep(k)
    BY <1>1, WorkerStepIInv
  <1>2. CASE LookUpFloor \/ LookUpLabels
    <2>1. /\ w["area"] # Idle /\ w["area"].pc \in {"Floor", "Labels"} /\ "area" \in Kinds
          /\ \/ LookupFailed("area")
             \/ Goes("area", "Labels", w["area"].mine) \/ Goes("area", "List", w["area"].mine)
          /\ UNCHANGED <<object, entries, lost>>
      BY <1>0, <1>2, LookUpsShape DEF Kinds
    <2>2. CASE LookupFailed("area")
      <3>1. PICK copy \in Copy : Goes("area", "Save", copy) /\ Same(copy, w["area"].mine)
        BY <2>2 DEF LookupFailed
      <3>2. Working'
        BY <1>0, <2>1, <3>1, WorkingGoes DEF Asking, Leaving
      <3> QED
        BY <1>0, <2>1, <2>2, <3>2, CachedSame, KinSame, OwnedLookupFailed
    <2>3. ASSUME NEW label \in {"Labels", "List"}, Goes("area", label, w["area"].mine)
          PROVE  Cached' /\ Working' /\ Owned'
      <3>1. Same(w["area"].mine, w["area"].mine)
        BY DEF Same
      <3>2. Working'
        BY <1>0, <2>1, <2>3, <3>1, WorkingGoes DEF Asking, Leaving
      <3> QED
        BY <1>0, <2>1, <2>3, <3>2, CachedSame, OwnedLookedUp
    <2> QED
      BY <2>1, <2>2, <2>3
  <1>3. CASE Crash
    <2>1. /\ UNCHANGED <<object, entries>> /\ w' = [k \in Kinds |-> Idle]
          /\ lost' = lost \cup UNION {Forgotten(k) : k \in {q \in Kinds : w[q].pc = "Save"}}
      BY <1>0, <1>3, CrashShape
    <2>2. Working'
      BY <2>1 DEF Working
    <2> QED
      BY <1>0, <2>1, <2>2, CachedSame, OwnedCrash
  <1>4. ASSUME NEW r \in Resources, Take(r) PROVE Cached' /\ Working' /\ Owned'
    <2>1. /\ w[KindOf(r)] = Idle /\ w'[KindOf(r)] # Idle /\ Others(KindOf(r)) /\ cr[r].state # "gone"
          /\ w'[KindOf(r)].who = r /\ w'[KindOf(r)].mine = seen[r] /\ w'[KindOf(r)].valid = fresh[r]
          /\ w'[KindOf(r)].pc = FirstStep(KindOf(r), seen[r])
          /\ UNCHANGED <<object, entries, lost>>
      BY <1>0, <1>4, TakeShape
    <2> QED
      BY <1>0, <2>1, CachedSame, WorkingTaken, OwnedTaken
  <1>5. ASSUME NEW r \in Resources, Edit(r) \/ Delete(r) PROVE Cached' /\ Working' /\ Owned'
    BY <1>0, <1>5, EditShape, CachedTouched, WorkingTouched, OwnedTouched
  <1>6. ASSUME NEW r \in Resources, Observe(r) PROVE Cached' /\ Working' /\ Owned'
    <2>1. Observed(r) /\ UNCHANGED <<w, entries, lost>> /\ cr' = cr
      BY <1>0, <1>6, ObserveShape DEF Observed
    <2> QED
      BY <1>0, <2>1, CachedObserved, WorkingObserved, KinSame, NothingChanges
  <1>7. ASSUME NEW k \in Kinds, UserActs(k) PROVE Cached' /\ Working' /\ Owned'
    <2>1. Kin /\ UNCHANGED <<object, w, lost>> /\ cr' = cr
      BY <1>0, <1>7, UserShape DEF object
    <2> QED
      BY <1>0, <2>1, CachedSame, WorkingSame, NothingChanges
  <1>8. CASE GoDown \/ (\E r \in Resources : Resync(r)) \/ UNCHANGED vars
    <2>1. UNCHANGED <<object, w, entries, lost>> /\ cr' = cr
      BY <1>0, <1>8, QuietShape DEF object
    <2> QED
      BY <1>0, <2>1, CachedSame, WorkingSame, KinSame, NothingChanges
  <1> QED
    BY <1>1, <1>2, <1>3, <1>4, <1>5, <1>6, <1>7, <1>8, StepCases

LEMMA OwnedIsNothingLeftBehind == Owned => NothingLeftBehind
  BY DEF Owned, Kept, NothingLeftBehind

-----------------------------------------------------------------------------
(* The theorems.                                                            *)

\* The state of the three controllers, the cache and the registries has its types: above
\* all, a worker only ever holds a resource of its own kind, and IDs stay in range.
THEOREM TypeTheorem == Spec => []TypeOK
  <1>1. Init => Typed
    BY InitTyped
  <1>2. Typed /\ [Next]_vars => Typed'
    BY TypedKept
  <1>3. Typed => TypeOK
    BY TypedIsTypeOK
  <1> QED
    BY <1>1, <1>2, <1>3, PTL DEF Spec

\* However reconciles, edits, deletions, refused updates and the users of Home Assistant
\* interleave, an entry that a floor, label or area made is the one of its status or of
\* the copy about to be written there, as long as no answer, no save and no removal was lost.
THEOREM NothingLeftBehindTheorem == Spec => []NothingLeftBehind
  <1>1. Init => IInv
    BY InitIInv
  <1>2. IInv /\ [Next]_vars => IInv'
    BY NextIInv
  <1>3. IInv => NothingLeftBehind
    BY OwnedIsNothingLeftBehind DEF IInv
  <1> QED
    BY <1>1, <1>2, <1>3, PTL DEF Spec
=============================================================================
