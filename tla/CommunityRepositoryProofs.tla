---------------------- MODULE CommunityRepositoryProofs ----------------------
(***************************************************************************)
(* What the community repositories keep, for every number of resources,    *)
(* refs, archives, targets and failures: the types, that no two resources  *)
(* have one target, that an integration is called installed when its files *)
(* are in place, and that it is let go when they are not there any more;   *)
(* and that what the operator accepts of an archive the scripts can place.  *)
EXTENDS MCCommunityRepository, SequenceTheorems, FiniteSetTheorems, TLAPS

Resource == [state : {"live", "deleting", "gone"}, fin : BOOLEAN, ref : Refs,
             seen : BOOLEAN, phase : Phases, target : Targets \cup {""}]
Lists == [Targets -> Entries]
Copies == [ref : Refs \cup {0}, target : Targets \cup {""}, old : Targets \cup {""},
           entries : Lists]
Pods == [made : BOOLEAN, template : Templates, ready : BOOLEAN, init : {"run", "failed", "done"}]

\* The types, with those of what a reconcile has read and of the pod.
Objects == cr \in [Repositories -> Resource] /\ age \in [Repositories -> 0 .. 2]
MapTyped == cm \in Maps /\ cmSeen \in Maps
PodTyped == template \in Templates /\ pod \in Pods
VolumeTyped ==
    /\ disk \in Lists /\ killed \in BOOLEAN
    /\ book \in [Targets -> IF Restarts THEN {None, <<"owned">>} ELSE Entries]
RunTyped ==
    /\ pc \in {"Idle", "Upsert", "Phase", "Release"} /\ who \in Repositories \cup {"none"}
    /\ mine \in Copies /\ valid \in BOOLEAN
    /\ pc # "Idle" => who \in Repositories
    /\ pc = "Upsert" => mine.ref \in Refs /\ mine.target \in Targets
Counted ==
    chosen \in Used /\ home \in {"live", "deleting", "gone"} /\ events \in 0 .. MaxEvents[chosen]
Typed == Objects /\ MapTyped /\ PodTyped /\ VolumeTyped /\ RunTyped /\ Counted

\* A resource that is about to be installed still has the target that nobody else had.
Chosen ==
    pc \in {"Upsert", "Phase"} /\ valid
    => cr[who].phase = "Validating" /\ ~Conflicts(who, cr[who].target)

\* A StatefulSet or a pod without scripts is one of an instance without repositories.
Bare ==
    /\ template.made /\ ~template.scripts => ~HasRepositories
    /\ pod.made /\ ~pod.template.scripts => ~HasRepositories

\* The scripts of the pod are done with its list: all of it is in place, and nothing else
\* if none of them was killed, since what is in place is noted.
Ran == Restarts /\ pod.made /\ pod.init = "done" /\ pod.template.scripts
Filled == Ran => \A t \in Targets : pod.template.hash[t] \in {None, disk[t]}
Noted == Restarts /\ ~killed => \A t \in Targets : disk[t] # None => book[t] # None
Cleaned == Ran /\ ~killed => \A t \in Targets : pod.template.hash[t] = None => disk[t] = None

\* What a removal waits for has no entry of its target.
Dropped ==
    pc = "Release" /\ valid
    => cr[who].state = "deleting" /\ mine.entries[cr[who].target] = None

Placing == Bare /\ Filled /\ Noted /\ Cleaned
IInv == Typed /\ OneOwner /\ Chosen /\ Placing /\ Dropped

-----------------------------------------------------------------------------
(* Types of what the actions write.                                         *)

LEMMA NobodyTyped == None \in Entries /\ Nobody \in Lists /\ \A e \in Lists : Hash(e) \in Lists
  BY DEF Nobody, Entries, Lists, Hash

LEMMA UnreadTyped == Unread \in Copies
  BY NobodyTyped DEF Unread, Copies, Lists

LEMMA Dropping ==
    ASSUME NEW e \in Lists, NEW t
    PROVE  [e EXCEPT ![t] = None] \in Lists
  BY NobodyTyped DEF Lists

LEMMA TypesOf == Typed => TypeOK
<1> SUFFICES ASSUME Typed PROVE TypeOK
  OBVIOUS
<1>1. /\ chosen \in Used /\ home \in {"live", "deleting", "gone"}
      /\ events \in 0 .. MaxEvents[chosen]
  BY DEF Typed, Counted
<1>2. /\ cr \in [Repositories -> [state : {"live", "deleting", "gone"}, fin : BOOLEAN, ref : Refs,
                                  seen : BOOLEAN, phase : Phases, target : Targets \cup {""}]]
      /\ age \in [Repositories -> 0 .. 2]
  BY DEF Typed, Objects, Resource
<1>3. /\ {cm, cmSeen} \subseteq Maps /\ template \in Templates
      /\ pod.template \in Templates /\ pod.init \in {"run", "failed", "done"}
      /\ pod.made \in BOOLEAN /\ pod.ready \in BOOLEAN
  BY DEF Typed, MapTyped, PodTyped, Pods
<1>4. /\ disk \in [Targets -> Entries] /\ killed \in BOOLEAN
      /\ book \in [Targets -> IF Restarts THEN {None, <<"owned">>} ELSE Entries]
  BY DEF Typed, VolumeTyped, Lists
<1>5. /\ pc \in {"Idle", "Upsert", "Phase", "Release"} /\ who \in Repositories \cup {"none"}
      /\ valid \in BOOLEAN
  BY DEF Typed, RunTyped
<1> QED  BY <1>1, <1>2, <1>3, <1>4, <1>5 DEF TypeOK

LEMMA Spending == Counted /\ Spend => events' \in 0 .. MaxEvents[chosen]
<1> SUFFICES ASSUME Counted, Spend PROVE events' \in 0 .. MaxEvents[chosen]
  OBVIOUS
<1>1. MaxEvents \in [Used -> Nat]
  BY ConstantsAssumption
<1>2. MaxEvents[chosen] \in Nat
  BY <1>1 DEF Counted
<1> QED  BY <1>2 DEF Spend, Counted

LEMMA Idling == Idle => RunTyped'
<1>1. Idle => /\ pc' = "Idle" /\ who' = "none" /\ mine' = Unread /\ valid' = FALSE
  BY DEF Idle
<1> QED  BY <1>1, UnreadTyped DEF RunTyped

\* A resource gets another phase.
LEMMA Phased ==
    ASSUME Objects, NEW r \in Repositories, NEW phase \in Phases, SetPhase(r, phase)
    PROVE  /\ Objects'
           /\ \A q \in Repositories : /\ cr'[q].state = cr[q].state /\ cr'[q].target = cr[q].target
                                      /\ cr'[q].phase = IF q = r THEN phase ELSE cr[q].phase
<1>1. cr \in [Repositories -> Resource] /\ age \in [Repositories -> 0 .. 2]
  BY DEF Objects
<1>2. cr' = [cr EXCEPT ![r].phase = phase, ![r].seen = TRUE]
  BY DEF SetPhase
<1>3. cr' \in [Repositories -> Resource]
  BY <1>1, <1>2 DEF Resource
<1>4. age' \in [Repositories -> 0 .. 2]
  BY <1>1 DEF SetPhase
<1>5. \A q \in Repositories : /\ cr'[q].state = cr[q].state /\ cr'[q].target = cr[q].target
                              /\ cr'[q].phase = IF q = r THEN phase ELSE cr[q].phase
  BY <1>1, <1>2 DEF Resource
<1> QED  BY <1>3, <1>4, <1>5 DEF Objects

\* A resource goes.
LEMMA Going ==
    ASSUME Objects, NEW r \in Repositories, Gone(r)
    PROVE  /\ Objects'
           /\ cr'[r].state = "gone" /\ \A q \in Repositories \ {r} : cr'[q] = cr[q]
<1>1. cr \in [Repositories -> Resource] /\ age \in [Repositories -> 0 .. 2]
  BY DEF Objects
<1>2. cr' = [cr EXCEPT ![r].state = "gone", ![r].phase = "", ![r].target = ""]
  BY DEF Gone
<1>3. age' = [age EXCEPT ![r] = 0]
  BY Zenon DEF Gone
<1>4. age' \in [Repositories -> 0 .. 2]
  BY <1>1, <1>3
<1>5. cr' = [cr EXCEPT ![r] = [cr[r] EXCEPT !.state = "gone", !.phase = "", !.target = ""]]
  BY <1>1, <1>2
<1>6. [cr[r] EXCEPT !.state = "gone", !.phase = "", !.target = ""] \in Resource
  BY <1>1 DEF Resource, Phases
<1>7. cr' \in [Repositories -> Resource]
  BY <1>1, <1>5, <1>6
<1>8. cr'[r].state = "gone" /\ \A q \in Repositories \ {r} : cr'[q] = cr[q]
  BY <1>1, <1>5
<1> QED  BY <1>4, <1>7, <1>8 DEF Objects

\* A user's change.
LEMMA Editing ==
    ASSUME Objects, NEW r \in Repositories, Edit(r)
    PROVE  /\ Objects' /\ age' = age
           /\ \A q \in Repositories :
                 /\ cr'[q].target = cr[q].target /\ cr'[q].phase = cr[q].phase
                 /\ cr'[q].state # cr[q].state => q = r /\ cr[q].state = "live"
<1>1. cr \in [Repositories -> Resource] /\ age \in [Repositories -> 0 .. 2]
  BY DEF Objects
<1>2. age' = age
  BY DEF Edit
<1> DEFINE Kept == \A q \in Repositories :
                      /\ cr'[q].target = cr[q].target /\ cr'[q].phase = cr[q].phase
                      /\ cr'[q].state # cr[q].state => q = r /\ cr[q].state = "live"
<1>3. CASE \E ref \in Refs \ {cr[r].ref} : cr' = [cr EXCEPT ![r].ref = ref, ![r].seen = FALSE]
  <2>1. PICK ref \in Refs : cr' = [cr EXCEPT ![r].ref = ref, ![r].seen = FALSE]
    BY <1>3
  <2>2. cr' \in [Repositories -> Resource]
    BY <1>1, <2>1 DEF Resource
  <2>3. Kept
    BY <1>1, <2>1 DEF Resource
  <2> QED  BY <1>1, <1>2, <2>2, <2>3 DEF Objects
<1>4. CASE /\ cr[r].state = "live"
           /\ cr' = [cr EXCEPT ![r].state = IF cr[r].fin THEN "deleting" ELSE "gone"]
  <2>1. PICK state \in {"deleting", "gone"} : cr' = [cr EXCEPT ![r].state = state]
    BY <1>4
  <2>2. cr' \in [Repositories -> Resource]
    BY <1>1, <2>1 DEF Resource
  <2>3. \A q \in Repositories : cr'[q] = IF q = r THEN [cr[r] EXCEPT !.state = state] ELSE cr[q]
    BY <1>1, <2>1
  <2>4. cr[r] \in Resource /\ cr[r].state = "live"
    BY <1>1, <1>4
  <2>5. Kept
    BY <2>3, <2>4 DEF Resource
  <2> QED  BY <1>1, <1>2, <2>2, <2>5 DEF Objects
<1> QED  BY <1>3, <1>4 DEF Edit

\* The ConfigMap that is written.
LEMMA Writing ==
    ASSUME MapTyped, NEW entries \in Lists, Writes(entries)
    PROVE  MapTyped'
<1>1. cm \in Maps /\ cmSeen \in Maps
  BY DEF MapTyped
<1>2. /\ cm' = cm \/ cm' = [made |-> TRUE, entries |-> entries]
      /\ cmSeen' = cmSeen
  BY DEF Writes, map
<1>3. [made |-> TRUE, entries |-> entries] \in Maps
  BY DEF Maps, Lists
<1> QED  BY <1>1, <1>2, <1>3 DEF MapTyped

\* The hash that a template gets.
LEMMA Bumping ==
    ASSUME PodTyped, NEW entries \in Lists, Bump(entries)
    PROVE  /\ template' \in Templates
           /\ template'.made = template.made /\ template'.scripts = template.scripts
<1>1. Hash(entries) \in Lists /\ template \in Templates
  BY NobodyTyped DEF PodTyped
<1> QED  BY <1>1 DEF Bump, Templates, Lists

\* What an action leaves alone keeps its types.
LEMMA Untouched ==
    /\ Objects /\ UNCHANGED <<cr, age>> => Objects'
    /\ MapTyped /\ UNCHANGED map => MapTyped'
    /\ PodTyped /\ UNCHANGED <<template, pod>> => PodTyped'
    /\ VolumeTyped /\ UNCHANGED volume /\ chosen' = chosen => VolumeTyped'
    /\ RunTyped /\ UNCHANGED run => RunTyped'
    /\ Counted /\ UNCHANGED users /\ (Spend \/ UNCHANGED events) => Counted'
<1>1. Objects /\ UNCHANGED <<cr, age>> => Objects'
  BY DEF Objects
<1>2. MapTyped /\ UNCHANGED map => MapTyped'
  BY DEF MapTyped, map
<1>3. PodTyped /\ UNCHANGED <<template, pod>> => PodTyped'
  BY DEF PodTyped
<1>4. VolumeTyped /\ UNCHANGED volume /\ chosen' = chosen => VolumeTyped'
  BY DEF VolumeTyped, volume, Restarts
<1>5. RunTyped /\ UNCHANGED run => RunTyped'
  BY DEF RunTyped, run
<1>6. Counted /\ UNCHANGED users /\ (Spend \/ UNCHANGED events) => Counted'
  BY Spending DEF Counted, users, setting
<1> QED  BY <1>1, <1>2, <1>3, <1>4, <1>5, <1>6

\* What the steps on resources change.
LEMMA PrepareShape ==
    ASSUME Objects, NEW r \in Repositories, Prepare(r)
    PROVE  /\ Objects' /\ pc = "Idle" /\ UNCHANGED <<users, map, template, pod, volume, run, events>>
           /\ \A q \in Repositories :
                 /\ cr'[q].target = cr[q].target /\ cr'[q].state = cr[q].state
                 /\ cr'[q].phase \in {cr[q].phase, "Pending"}
<1>1. cr \in [Repositories -> Resource] /\ age \in [Repositories -> 0 .. 2]
  BY DEF Objects
<1>2. pc = "Idle" /\ UNCHANGED <<users, map, template, pod, volume, run, events>>
  BY DEF Prepare, Serves
<1>3. CASE cr' = [cr EXCEPT ![r].fin = TRUE] /\ UNCHANGED age
  <2>1. cr' \in [Repositories -> Resource]
    BY <1>1, <1>3 DEF Resource
  <2>2. \A q \in Repositories : /\ cr'[q].target = cr[q].target /\ cr'[q].state = cr[q].state
                                /\ cr'[q].phase = cr[q].phase
    BY <1>1, <1>3 DEF Resource
  <2> QED  BY <1>1, <1>2, <1>3, <2>1, <2>2 DEF Objects
<1>4. CASE SetPhase(r, "Pending")
  <2>1. "Pending" \in Phases
    BY DEF Phases
  <2> QED  BY <1>2, <1>4, <2>1, Phased
<1> QED  BY <1>3, <1>4 DEF Prepare

\* The resource's phase changes to one that occupies nothing, or its target is chosen.
LEMMA ValidateShape ==
    ASSUME Objects, NEW r \in Repositories, Validate(r)
    PROVE  /\ Objects' /\ pc = "Idle" /\ cr[r].state = "live" /\ UNCHANGED <<users, map, template, pod, volume>>
           /\ Spend \/ UNCHANGED events
           /\ \A q \in Repositories : cr'[q].state = cr[q].state
           /\ \/ /\ UNCHANGED run
                 /\ \A q \in Repositories :
                       /\ cr'[q].target = cr[q].target
                       /\ cr'[q].phase = cr[q].phase \/ ~Occupies(cr'[q].phase)
              \/ \E target \in Targets :
                    /\ cr[r].phase = "Validating" /\ ~Conflicts(r, target)
                    /\ cr' = [cr EXCEPT ![r].target = target]
                    /\ Takes(r, "Upsert", [ref |-> cr[r].ref, target |-> target, old |-> cr[r].target,
                                           entries |-> Nobody])
<1>1. cr \in [Repositories -> Resource] /\ age \in [Repositories -> 0 .. 2]
  BY DEF Objects
<1>2. /\ pc = "Idle" /\ cr[r].state = "live" /\ UNCHANGED <<users, map, template, pod, volume>>
      /\ Spend \/ UNCHANGED events
  BY DEF Validate, Works, Serves
<1>3. CASE /\ \E phase \in {"Validating", "Retry", "Failed"} : SetPhase(r, phase)
           /\ UNCHANGED run
  <2>1. PICK phase \in {"Validating", "Retry", "Failed"} : SetPhase(r, phase)
    BY <1>3
  <2>2. phase \in Phases /\ ~Occupies(phase)
    BY DEF Phases, Occupies
  <2> QED  BY <1>2, <1>3, <2>1, <2>2, Phased
<1>4. CASE \E target \in Targets :
              /\ cr[r].phase = "Validating" /\ ~Conflicts(r, target) /\ UNCHANGED age
              /\ cr' = [cr EXCEPT ![r].target = target]
              /\ Takes(r, "Upsert", [ref |-> cr[r].ref, target |-> target, old |-> cr[r].target,
                                     entries |-> Nobody])
  <2>1. PICK target \in Targets :
              /\ cr[r].phase = "Validating" /\ ~Conflicts(r, target) /\ UNCHANGED age
              /\ cr' = [cr EXCEPT ![r].target = target]
              /\ Takes(r, "Upsert", [ref |-> cr[r].ref, target |-> target, old |-> cr[r].target,
                                     entries |-> Nobody])
    BY <1>4
  <2>2. cr' \in [Repositories -> Resource] /\ \A q \in Repositories : cr'[q].state = cr[q].state
    BY <1>1, <2>1 DEF Resource
  <2>3. Objects'
    BY <1>1, <2>1, <2>2 DEF Objects
  <2> QED  BY <1>2, <2>1, <2>2, <2>3
<1> QED  BY <1>3, <1>4 DEF Validate

LEMMA WorkingShape ==
    ASSUME Objects, PodTyped, MapTyped, NEW r \in Repositories, Materialize(r) \/ Activate(r)
    PROVE  /\ Objects' /\ PodTyped' /\ pc = "Idle" /\ UNCHANGED <<users, map, pod, volume, run>>
           /\ cr[r].state = "live" /\ cr[r].phase = "Installing"
           /\ Spend \/ UNCHANGED events
           /\ template'.made = template.made /\ template'.scripts = template.scripts
           /\ \A q \in Repositories :
                 /\ cr'[q].target = cr[q].target /\ cr'[q].state = cr[q].state
                 /\ cr'[q].phase = cr[q].phase \/ q = r
           /\ cr'[r].phase = "Installed" /\ Restarts => Confirmed(cmSeen.entries)
<1>1. /\ pc = "Idle" /\ UNCHANGED <<users, map, pod, volume, run>>
      /\ cr[r].state = "live" /\ cr[r].phase = "Installing"
      /\ Spend \/ UNCHANGED events
  BY DEF Materialize, Activate, Works, Serves
<1>2. cmSeen.entries \in Lists
  BY DEF MapTyped, Maps, Lists
<1>3. CASE Spend /\ UNCHANGED <<cr, age, template>>
  BY <1>1, <1>3 DEF Objects, PodTyped, map
<1>4. CASE /\ Bump(cmSeen.entries)
           /\ SetPhase(r, IF Confirmed(cmSeen.entries) /\ pod.ready THEN "Installed" ELSE "Installing")
  <2>1. PICK phase \in {"Installed", "Installing"} :
           SetPhase(r, phase) /\ (phase = "Installed" => Confirmed(cmSeen.entries))
    BY <1>4
  <2>2. phase \in Phases
    BY DEF Phases
  <2>3. PodTyped' /\ template'.made = template.made /\ template'.scripts = template.scripts
    BY <1>1, <1>2, <1>4, Bumping DEF PodTyped
  <2> QED  BY <1>1, <2>1, <2>2, <2>3, Phased
<1>5. CASE /\ ~Restarts /\ UNCHANGED template
           /\ \E phase \in {"Failed", "Installed"} : SetPhase(r, phase)
  <2>1. PICK phase \in {"Failed", "Installed"} : SetPhase(r, phase)
    BY <1>5
  <2>2. phase \in Phases
    BY DEF Phases
  <2>3. PodTyped'
    BY <1>1, <1>5 DEF PodTyped
  <2> QED  BY <1>1, <1>5, <2>1, <2>2, <2>3, Phased
<1> QED  BY <1>3, <1>4, <1>5 DEF Materialize, Activate

\* A removal lets the resource go, or drops its entry first.
LEMMA RemoveShape ==
    ASSUME Objects, MapTyped, RunTyped, NEW r \in Repositories, HandleDeletion(r)
    PROVE  /\ Objects' /\ MapTyped' /\ RunTyped' /\ pc = "Idle" /\ cr[r].state = "deleting"
           /\ UNCHANGED <<users, template, pod, volume>> /\ (Spend \/ UNCHANGED events)
           /\ \A q \in Repositories : cr'[q] = cr[q] \/ (q = r /\ cr'[q].state = "gone")
           /\ \/ UNCHANGED run /\ (UNCHANGED cr \/ cr[r].target = "" \/ home = "gone")
              \/ /\ UNCHANGED cr /\ pc' = "Release" /\ who' = r
                 /\ mine'.entries[cr[r].target] = None
<1>1. cr \in [Repositories -> Resource] /\ age \in [Repositories -> 0 .. 2]
  BY DEF Objects
<1>2. pc = "Idle" /\ cr[r].state = "deleting" /\ UNCHANGED <<users, template, pod, volume>>
  BY DEF HandleDeletion
<1>3. CASE /\ cr[r].target = "" \/ home = "gone"
           /\ Gone(r) /\ UNCHANGED <<map, run, events>>
  BY <1>2, <1>3, Going, Untouched
<1>4. CASE /\ cr[r].target # "" /\ home # "gone" /\ UNCHANGED <<cr, age>>
           /\ Spend /\ UNCHANGED <<map, run>>
  BY <1>2, <1>4, Untouched
<1>5. CASE /\ cr[r].target # "" /\ UNCHANGED <<cr, age, events>>
           /\ Writes([cmSeen.entries EXCEPT ![cr[r].target] = None])
           /\ Takes(r, "Release", [Unread EXCEPT !.entries = [cmSeen.entries EXCEPT ![cr[r].target] = None]])
  <2> DEFINE entries == [cmSeen.entries EXCEPT ![cr[r].target] = None]
  <2>1. cmSeen.entries \in Lists
    BY DEF MapTyped, Maps, Lists
  <2>2. cr[r].target \in Targets
    BY <1>1, <1>5 DEF Resource
  <2>3. entries \in Lists
    BY <2>1, Dropping
  <2>4. entries[cr[r].target] = None
    BY <2>1, <2>2 DEF Lists
  <2> HIDE DEF entries
  <2>5. MapTyped'
    BY <1>5, <2>3, Writing DEF entries
  <2>6. /\ pc' = "Release" /\ who' = r /\ valid' = TRUE
        /\ mine' = [Unread EXCEPT !.entries = entries]
    BY <1>5 DEF Takes, entries
  <2>7. mine' \in Copies /\ mine'.entries = entries
    BY <2>3, <2>6, UnreadTyped DEF Copies
  <2>8. RunTyped'
    BY <2>6, <2>7 DEF RunTyped
  <2>9. Objects'
    BY <1>1, <1>5 DEF Objects
  <2> QED  BY <1>2, <1>5, <2>4, <2>5, <2>6, <2>7, <2>8, <2>9
<1> QED  BY <1>3, <1>4, <1>5 DEF HandleDeletion

LEMMA UpsertShape ==
    ASSUME MapTyped, RunTyped, Upsert
    PROVE  /\ MapTyped' /\ RunTyped' /\ pc = "Upsert" /\ UNCHANGED <<users, cr, age, template, pod, volume>>
           /\ Spend \/ UNCHANGED events
           /\ \/ pc' = "Idle"
              \/ pc' = "Phase" /\ UNCHANGED <<who, valid>>
<1>1. pc = "Upsert" /\ UNCHANGED <<users, cr, age, template, pod, volume>> /\ (Spend \/ UNCHANGED events)
  BY DEF Upsert
<1>2. CASE Idle /\ UNCHANGED map
  BY <1>1, <1>2, Idling, Untouched DEF Idle
<1> DEFINE kept == IF mine.old = "" THEN cmSeen.entries
                   ELSE [cmSeen.entries EXCEPT ![mine.old] = None]
           entries == [kept EXCEPT ![mine.target] = Entry(who, mine.ref)]
<1>3. CASE Writes(entries) /\ pc' = "Phase" /\ UNCHANGED <<who, mine, valid>>
  <2>1. cmSeen.entries \in Lists
    BY DEF MapTyped, Maps, Lists
  <2>2. kept \in Lists
    BY <2>1, Dropping
  <2>3. mine.ref \in Refs /\ who \in Repositories
    BY <1>1 DEF RunTyped
  <2>4. Entry(who, mine.ref) \in Entries
    BY <2>3 DEF Entry, Entries
  <2>5. entries \in Lists
    BY <2>2, <2>4 DEF Lists
  <2>6. MapTyped'
    BY <1>3, <2>5, Writing
  <2>7. RunTyped'
    BY <1>1, <1>3 DEF RunTyped
  <2> QED  BY <1>1, <1>3, <2>6, <2>7
<1> QED  BY <1>1, <1>2, <1>3 DEF Upsert

LEMMA InstallShape ==
    ASSUME Objects, RunTyped, Install
    PROVE  /\ Objects' /\ RunTyped' /\ pc = "Phase" /\ pc' = "Idle" /\ who \in Repositories
           /\ UNCHANGED <<users, map, template, pod, volume, events>>
           /\ \A q \in Repositories :
                 /\ cr'[q].target = cr[q].target /\ cr'[q].state = cr[q].state
                 /\ cr'[q].phase = cr[q].phase \/ (valid /\ q = who /\ cr'[q].phase = "Installing")
<1>1. pc = "Phase" /\ Idle /\ UNCHANGED <<users, map, template, pod, volume, events>>
  BY DEF Install
<1>2. who \in Repositories /\ RunTyped' /\ pc' = "Idle"
  BY <1>1, Idling DEF RunTyped, Idle
<1>3. CASE valid /\ SetPhase(who, "Installing")
  <2>1. "Installing" \in Phases
    BY DEF Phases
  <2> QED  BY <1>1, <1>2, <1>3, <2>1, Phased
<1>4. CASE UNCHANGED <<cr, age>>
  BY <1>1, <1>2, <1>4, Untouched
<1> QED  BY <1>3, <1>4 DEF Install

\* A resource only goes when what it waits for is so.
LEMMA ReleaseShape ==
    ASSUME Objects, RunTyped, PodTyped, Release
    PROVE  /\ Objects' /\ RunTyped' /\ PodTyped' /\ pc = "Release" /\ pc' = "Idle"
           /\ who \in Repositories /\ UNCHANGED <<users, map, pod, volume>>
           /\ Spend \/ UNCHANGED events
           /\ template'.made = template.made /\ template'.scripts = template.scripts
           /\ \A q \in Repositories :
                 \/ cr'[q] = cr[q]
                 \/ /\ q = who /\ valid /\ cr'[q].state = "gone"
                    /\ Restarts => Released(mine.entries)
<1>1. pc = "Release" /\ Idle /\ UNCHANGED <<users, map, pod, volume>>
  BY DEF Release
<1>2. who \in Repositories /\ RunTyped' /\ pc' = "Idle" /\ mine.entries \in Lists
  BY <1>1, Idling DEF RunTyped, Idle, Copies
<1>3. CASE Spend /\ UNCHANGED <<cr, age, template>>
  BY <1>1, <1>2, <1>3, Untouched
<1>4. CASE /\ IF Restarts THEN Bump(mine.entries) ELSE UNCHANGED template
           /\ IF valid /\ (Restarts => Released(mine.entries)) THEN Gone(who)
              ELSE UNCHANGED <<cr, age>>
           /\ UNCHANGED events
  <2>1. PodTyped' /\ template'.made = template.made /\ template'.scripts = template.scripts
    <3>1. CASE Bump(mine.entries)
      BY <1>1, <1>2, <3>1, Bumping DEF PodTyped
    <3>2. CASE UNCHANGED template
      BY <1>1, <3>2 DEF PodTyped
    <3> QED  BY <1>4, <3>1, <3>2
  <2>2. CASE valid /\ (Restarts => Released(mine.entries)) /\ Gone(who)
    BY <1>1, <1>2, <1>4, <2>1, <2>2, Going
  <2>3. CASE UNCHANGED <<cr, age>>
    BY <1>1, <1>2, <1>4, <2>1, <2>3, Untouched
  <2> QED  BY <1>4, <2>2, <2>3
<1> QED  BY <1>3, <1>4 DEF Release

-----------------------------------------------------------------------------
(* The types.                                                               *)

LEMMA InitTyped == Init => Typed
<1> SUFFICES ASSUME Init PROVE Typed
  OBVIOUS
<1>1. Objects
  <2>1. PICK refs \in FirstRefs :
           cr = [r \in Repositories |-> [state |-> "live", fin |-> FALSE, ref |-> refs[r],
                                         seen |-> FALSE, phase |-> "", target |-> ""]]
    BY DEF Init
  <2>2. \A r \in Repositories : refs[r] \in Refs
    <3>1. FirstRefs \subseteq [Repositories -> Refs]
      BY ConstantsAssumption
    <3> QED  BY <3>1
  <2>3. cr \in [Repositories -> Resource]
    BY <2>1, <2>2 DEF Resource, Phases
  <2>4. age = [r \in Repositories |-> 0]
    BY DEF Init
  <2> QED  BY <2>3, <2>4 DEF Objects
<1>2. MapTyped
  <2>1. cm = [made |-> FALSE, entries |-> Nobody] /\ cmSeen = cm
    BY DEF Init
  <2> QED  BY <2>1, NobodyTyped DEF MapTyped, Maps, Lists
<1>3. PodTyped
  <2>1. NoTemplate \in Templates
    BY NobodyTyped DEF NoTemplate, Templates, Lists
  <2>2. /\ template = NoTemplate
        /\ pod = [made |-> FALSE, template |-> NoTemplate, ready |-> FALSE, init |-> "run"]
    BY DEF Init
  <2> QED  BY <2>1, <2>2 DEF PodTyped, Pods
<1>4. VolumeTyped
  <2>1. disk = Nobody /\ book = Nobody /\ killed = FALSE
    BY DEF Init
  <2>2. Nobody \in [Targets -> IF Restarts THEN {None, <<"owned">>} ELSE Entries]
    BY NobodyTyped DEF Nobody
  <2> QED  BY <2>1, <2>2, NobodyTyped DEF VolumeTyped
<1>5. RunTyped
  <2>1. pc = "Idle" /\ who = "none" /\ mine = Unread /\ valid = FALSE
    BY DEF Init
  <2> QED  BY <2>1, UnreadTyped DEF RunTyped
<1>6. Counted
  <2>1. MaxEvents \in [Used -> Nat]
    BY ConstantsAssumption
  <2>2. chosen \in Used /\ home = "live" /\ events = 0
    BY DEF Init
  <2> QED  BY <2>1, <2>2 DEF Counted
<1> QED  BY <1>1, <1>2, <1>3, <1>4, <1>5, <1>6 DEF Typed

LEMMA BuildShape ==
    ASSUME PodTyped, MapTyped, Build
    PROVE  /\ PodTyped' /\ UNCHANGED <<users, cr, age, map, pod, volume, run, events>>
           /\ template'.made = TRUE /\ template'.scripts = HasRepositories
<1>1. UNCHANGED <<users, cr, age, map, pod, volume, run, events>>
  BY DEF Build
<1>2. Hash(cmSeen.entries) \in Lists /\ template.hash \in Lists
  BY NobodyTyped DEF MapTyped, Maps, PodTyped, Templates, Lists
<1>3. template' = [made |-> TRUE, scripts |-> HasRepositories,
                   hash |-> IF HasRepositories THEN Hash(cmSeen.entries) ELSE template.hash]
  BY DEF Build
<1>4. HasRepositories \in BOOLEAN
  BY DEF HasRepositories
<1>5. template' \in Templates
  BY <1>2, <1>3, <1>4 DEF Templates, Lists
<1> QED  BY <1>1, <1>3, <1>5 DEF PodTyped

LEMMA RollShape ==
    ASSUME PodTyped, Roll
    PROVE  /\ PodTyped' /\ UNCHANGED <<users, cr, age, map, template, volume, run>>
           /\ (Spend \/ UNCHANGED events) /\ template.made /\ pod'.template = template
           /\ pod'.init = "done" => ~template.scripts
<1>1. UNCHANGED <<users, cr, age, map, template, volume, run>> /\ (Spend \/ UNCHANGED events) /\ template.made
  BY DEF Roll
<1>2. pod' = [made |-> TRUE, template |-> template, ready |-> FALSE,
              init |-> IF template.scripts THEN "run" ELSE "done"]
  BY DEF Roll
<1>3. pod' \in Pods
  BY <1>2 DEF Pods, PodTyped
<1> QED  BY <1>1, <1>2, <1>3 DEF PodTyped

LEMMA ReadyShape ==
    ASSUME PodTyped, Ready
    PROVE  /\ PodTyped' /\ UNCHANGED <<users, cr, age, map, template, volume, run, events>>
           /\ pod'.made = pod.made /\ pod'.template = pod.template /\ pod'.init = pod.init
  BY DEF Ready, PodTyped, Pods

LEMMA LeaveShape ==
    ASSUME PodTyped, MapTyped, Counted, Leave
    PROVE  /\ PodTyped' /\ MapTyped' /\ Counted' /\ UNCHANGED <<setting, cr, age, volume, run>>
           /\ ~template'.made /\ ~pod'.made
<1>1. UNCHANGED <<setting, cr, age, volume, run>>
  BY DEF Leave
<1>2. /\ template' = [template EXCEPT !.made = FALSE]
      /\ pod' = [pod EXCEPT !.made = FALSE, !.ready = FALSE]
  BY DEF Leave
<1>3. template' \in Templates /\ ~template'.made
  BY <1>2 DEF PodTyped, Templates
<1>4. pod' \in Pods /\ ~pod'.made
  BY <1>2 DEF PodTyped, Pods
<1>5. MapTyped'
  <2>1. CASE UNCHANGED map
    BY <2>1, Untouched
  <2>2. CASE cm' = [made |-> FALSE, entries |-> Nobody] /\ UNCHANGED cmSeen
    BY <2>2, NobodyTyped DEF MapTyped, Maps, Lists
  <2> QED  BY <2>1, <2>2 DEF Leave
<1>6. Counted'
  <2>1. home' \in {"live", "deleting", "gone"} /\ (Spend \/ UNCHANGED events) /\ chosen' = chosen
    BY DEF Leave, setting
  <2> QED  BY <2>1, Spending DEF Counted
<1> QED  BY <1>1, <1>3, <1>4, <1>5, <1>6 DEF PodTyped

LEMMA OwnedIsNoted == <<"owned">> # None
  BY DEF None

\* What the init container puts in place it notes, and when it is done, all of its list is
\* in place and nothing else is.
LEMMA InitScriptShape ==
    ASSUME PodTyped, VolumeTyped, MapTyped, InitScript
    PROVE  /\ PodTyped' /\ VolumeTyped' /\ UNCHANGED <<users, cr, age, map, template, run>>
           /\ (Spend \/ UNCHANGED events) /\ pod.init # "done"
           /\ pod'.made = pod.made /\ pod'.template = pod.template
           /\ Noted => Noted'
           /\ pod'.init = "done" /\ Restarts =>
                /\ \A t \in Targets : pod.template.hash[t] \in {None, disk'[t]}
                /\ Noted /\ ~killed' => \A t \in Targets : pod.template.hash[t] = None => disk'[t] = None
<1> DEFINE entries == Hash(cm.entries)
           listed == {t \in Targets : entries[t] # None}
           own(some) == [t \in Targets |-> IF t \in some THEN <<"owned">> ELSE book[t]]
<1>1. /\ UNCHANGED <<users, cr, age, map, template, run>> /\ (Spend \/ UNCHANGED events)
      /\ pod.init # "done"
  BY DEF InitScript
<1>2. entries \in Lists /\ disk \in Lists
  BY NobodyTyped DEF MapTyped, Maps, Lists, VolumeTyped
<1>3. Restarts' = Restarts
  BY <1>1 DEF Restarts, users, setting
<1>4. ~Restarts => listed = {}
  BY DEF Hash, Nobody
<1>5. book \in [Targets -> IF Restarts THEN {None, <<"owned">>} ELSE Entries]
  BY DEF VolumeTyped
<1>6. killed \in BOOLEAN /\ pod \in Pods /\ template \in Templates
  BY DEF VolumeTyped, PodTyped
<1> HIDE DEF entries
<1>7. CASE /\ pod.template.hash = entries
           /\ disk' = [t \in Targets |-> IF t \in listed THEN entries[t]
                                        ELSE IF Owned[t] THEN None ELSE disk[t]]
           /\ book' = [t \in Targets |-> IF Restarts THEN IF t \in listed THEN <<"owned">> ELSE None
                                        ELSE book[t]]
           /\ pod' = [pod EXCEPT !.init = "done"] /\ UNCHANGED killed
  <2>1. pod' \in Pods /\ pod'.made = pod.made /\ pod'.template = pod.template
    BY <1>6, <1>7 DEF Pods
  <2>2. disk' \in Lists
    BY <1>2, <1>7, NobodyTyped DEF Lists
  <2>3. book' \in [Targets -> IF Restarts THEN {None, <<"owned">>} ELSE Entries]
    BY <1>5, <1>7
  <2>4. VolumeTyped' /\ PodTyped'
    BY <1>1, <1>3, <1>6, <1>7, <2>1, <2>2, <2>3 DEF VolumeTyped, PodTyped
  <2>5. \A t \in Targets : entries[t] \in {None, disk'[t]}
    BY <1>7
  <2>6. ASSUME Restarts, Noted, ~killed, NEW t \in Targets
        PROVE  (entries[t] = None => disk'[t] = None) /\ (disk'[t] # None => book'[t] # None)
    <3>1. disk[t] # None => Owned[t]
      BY <2>6 DEF Noted, Owned
    <3>2. CASE t \in listed
      BY <1>7, <2>6, <3>2, OwnedIsNoted
    <3>3. CASE t \notin listed
      BY <1>7, <2>6, <3>1, <3>3
    <3> QED  BY <3>2, <3>3
  <2>7. Noted => Noted'
    BY <1>3, <1>7, <2>6 DEF Noted
  <2> QED  BY <1>1, <1>7, <2>1, <2>4, <2>5, <2>6, <2>7
<1>8. CASE pod' = [pod EXCEPT !.init = "failed"] /\ UNCHANGED volume
  <2>1. pod' \in Pods /\ pod'.made = pod.made /\ pod'.template = pod.template /\ pod'.init = "failed"
    BY <1>6, <1>8 DEF Pods
  <2>2. Noted => Noted'
    BY <1>3, <1>8 DEF Noted, volume
  <2>3. VolumeTyped' /\ PodTyped'
    BY <1>1, <1>3, <1>6, <1>8, <2>1 DEF VolumeTyped, PodTyped, volume
  <2> QED  BY <1>1, <2>1, <2>2, <2>3
<1>9. ASSUME NEW some \in SUBSET listed, disk' = Placed(entries, some),
             \/ book' = own(some) /\ pod' = [pod EXCEPT !.init = "failed"] /\ UNCHANGED killed
             \/ killed' = TRUE /\ UNCHANGED <<book, pod>>
      PROVE  /\ PodTyped' /\ VolumeTyped' /\ (Noted => Noted') /\ pod'.init # "done"
             /\ pod'.made = pod.made /\ pod'.template = pod.template
  <2>1. disk' = [t \in Targets |-> IF t \in some THEN entries[t] ELSE disk[t]]
    BY <1>9 DEF Placed
  <2>2. disk' \in Lists
    BY <1>2, <2>1 DEF Lists
  <2>3. CASE book' = own(some) /\ pod' = [pod EXCEPT !.init = "failed"] /\ UNCHANGED killed
    <3>1. pod' \in Pods /\ pod'.made = pod.made /\ pod'.template = pod.template /\ pod'.init = "failed"
      BY <1>6, <2>3 DEF Pods
    <3>2. book' \in [Targets -> IF Restarts THEN {None, <<"owned">>} ELSE Entries]
      BY <1>4, <1>5, <2>3
    <3>3. \A t \in Targets : (disk[t] # None => book[t] # None) => (disk'[t] # None => book'[t] # None)
      BY <2>1, <2>3, OwnedIsNoted
    <3>4. Noted => Noted'
      BY <1>3, <2>3, <3>3 DEF Noted
    <3> QED  BY <1>1, <1>3, <1>6, <2>2, <2>3, <3>1, <3>2, <3>4 DEF VolumeTyped, PodTyped
  <2>4. CASE killed' = TRUE /\ UNCHANGED <<book, pod>>
    <3>1. Noted'
      BY <2>4 DEF Noted
    <3> QED  BY <1>1, <1>3, <1>5, <1>6, <2>2, <2>4, <3>1 DEF VolumeTyped, PodTyped
  <2> QED  BY <1>9, <2>3, <2>4
<1>10. \/ /\ pod.template.hash = entries
          /\ disk' = [t \in Targets |-> IF t \in listed THEN entries[t]
                                       ELSE IF Owned[t] THEN None ELSE disk[t]]
          /\ book' = [t \in Targets |-> IF Restarts THEN IF t \in listed THEN <<"owned">> ELSE None
                                       ELSE book[t]]
          /\ pod' = [pod EXCEPT !.init = "done"] /\ UNCHANGED killed
       \/ pod' = [pod EXCEPT !.init = "failed"] /\ UNCHANGED volume
       \/ \E some \in SUBSET listed :
             /\ disk' = Placed(entries, some)
             /\ \/ book' = own(some) /\ pod' = [pod EXCEPT !.init = "failed"] /\ UNCHANGED killed
                \/ killed' = TRUE /\ UNCHANGED <<book, pod>>
  BY DEF InitScript, entries
<1> QED  BY <1>1, <1>7, <1>8, <1>9, <1>10

\* The sidecar is not for integrations.
LEMMA SidecarShape ==
    ASSUME VolumeTyped, MapTyped, Sidecar
    PROVE  /\ ~Restarts /\ VolumeTyped' /\ (Spend \/ UNCHANGED events)
           /\ UNCHANGED <<users, cr, age, map, template, pod, run, killed>>
<1>1. /\ ~Restarts /\ UNCHANGED <<users, cr, age, map, template, pod, run, killed>>
      /\ Spend \/ UNCHANGED events
  BY DEF Sidecar
<1> DEFINE old == {t \in Targets : cm.entries[t] # None /\ (book[t] # None => book[t][2] # cm.entries[t][2])}
           gone == {t \in Targets : cm.entries[t] = None /\ book[t] # None}
           now(some, was) == [t \in Targets |-> IF t \in gone THEN None
                                ELSE IF t \in some THEN cm.entries[t] ELSE was[t]]
<1>2. PICK some \in {old, {}} : disk' = now(some, disk) /\ book' = now(some, book)
  BY DEF Sidecar
<1>3. disk \in Lists /\ book \in Lists /\ cm.entries \in Lists /\ killed \in BOOLEAN
  BY <1>1 DEF VolumeTyped, MapTyped, Maps, Lists
<1> HIDE DEF old, gone
<1>4. \A was \in Lists : now(some, was) \in Lists
  BY <1>3, NobodyTyped DEF Lists
<1>5. disk' \in Lists /\ book' \in Lists
  BY <1>2, <1>3, <1>4
<1>6. Restarts' = Restarts
  BY <1>1 DEF Restarts, users, setting
<1> QED  BY <1>1, <1>3, <1>5, <1>6 DEF VolumeTyped, Lists

LEMMA AgeShape ==
    ASSUME Objects, NEW r \in Repositories, Age(r)
    PROVE  /\ Objects' /\ UNCHANGED <<users, cr, map, template, pod, volume, run>>
           /\ Spend \/ UNCHANGED events
<1>1. age' = [age EXCEPT ![r] = @ + 1] /\ age[r] \in {0, 1}
  BY DEF Age
<1>2. UNCHANGED <<users, cr, map, template, pod, volume, run>> /\ (Spend \/ UNCHANGED events)
  BY DEF Age
<1>3. age' \in [Repositories -> 0 .. 2]
  BY <1>1 DEF Objects
<1> QED  BY <1>2, <1>3 DEF Objects

LEMMA EditShape ==
    ASSUME RunTyped, Counted, NEW r \in Repositories, Edit(r)
    PROVE  /\ RunTyped' /\ Counted' /\ UNCHANGED <<users, map, template, pod, volume, pc, who, mine>>
           /\ valid' = (valid /\ who # r)
<1>1. UNCHANGED <<users, map, template, pod, volume, pc, who, mine>> /\ Spend
  BY DEF Edit, users
<1>2. valid' = (valid /\ who # r)
  BY DEF Edit
<1>3. RunTyped'
  BY <1>1, <1>2 DEF RunTyped
<1> QED  BY <1>1, <1>2, <1>3, Untouched

LEMMA SetUp == UNCHANGED users => chosen' = chosen
  BY DEF users, setting

LEMMA NextTyped == Typed /\ [Next]_vars => Typed'
<1> SUFFICES ASSUME Typed, [Next]_vars PROVE Typed'
  OBVIOUS
<1>0. Objects /\ MapTyped /\ PodTyped /\ VolumeTyped /\ RunTyped /\ Counted
  BY DEF Typed
<1>1. ASSUME NEW r \in Repositories, Prepare(r) PROVE Typed'
  BY <1>0, <1>1, PrepareShape, Untouched, SetUp DEF Typed
<1>2. ASSUME NEW r \in Repositories, Validate(r) PROVE Typed'
  <2>1. /\ Objects' /\ UNCHANGED <<users, map, template, pod, volume>>
        /\ Spend \/ UNCHANGED events
        /\ \/ UNCHANGED run
           \/ \E target \in Targets :
                 Takes(r, "Upsert", [ref |-> cr[r].ref, target |-> target, old |-> cr[r].target,
                                     entries |-> Nobody])
    BY <1>0, <1>2, ValidateShape
  <2>2. ASSUME NEW target \in Targets,
               Takes(r, "Upsert", [ref |-> cr[r].ref, target |-> target, old |-> cr[r].target,
                                   entries |-> Nobody])
        PROVE  RunTyped'
    <3>1. cr[r].ref \in Refs /\ cr[r].target \in Targets \cup {""}
      BY <1>0 DEF Objects, Resource
    <3>2. /\ pc' = "Upsert" /\ who' = r /\ valid' = TRUE
          /\ mine' = [ref |-> cr[r].ref, target |-> target, old |-> cr[r].target, entries |-> Nobody]
      BY <2>2 DEF Takes
    <3>3. mine' \in Copies /\ mine'.ref \in Refs /\ mine'.target \in Targets
      BY <3>1, <3>2, NobodyTyped DEF Copies
    <3> QED  BY <3>2, <3>3 DEF RunTyped
  <2> QED  BY <1>0, <2>1, <2>2, Untouched, SetUp DEF Typed
<1>3. ASSUME NEW r \in Repositories, Materialize(r) \/ Activate(r) PROVE Typed'
  BY <1>0, <1>3, WorkingShape, Untouched, SetUp DEF Typed
<1>4. ASSUME NEW r \in Repositories, HandleDeletion(r) PROVE Typed'
  BY <1>0, <1>4, RemoveShape, Untouched, SetUp DEF Typed
<1>5. ASSUME NEW r \in Repositories, Age(r) PROVE Typed'
  BY <1>0, <1>5, AgeShape, Untouched, SetUp DEF Typed
<1>6. ASSUME NEW r \in Repositories, Edit(r) PROVE Typed'
  BY <1>0, <1>6, EditShape, Editing, Untouched, SetUp DEF Typed
<1>7. CASE Upsert
  BY <1>0, <1>7, UpsertShape, Untouched, SetUp DEF Typed
<1>8. CASE Install
  BY <1>0, <1>8, InstallShape, Untouched, SetUp DEF Typed
<1>9. CASE Release
  BY <1>0, <1>9, ReleaseShape, Untouched, SetUp DEF Typed
<1>10. CASE Build
  BY <1>0, <1>10, BuildShape, Untouched, SetUp DEF Typed
<1>11. CASE Roll
  BY <1>0, <1>11, RollShape, Untouched, SetUp DEF Typed
<1>12. CASE Ready
  BY <1>0, <1>12, ReadyShape, Untouched, SetUp DEF Typed
<1>13. CASE InitScript
  BY <1>0, <1>13, InitScriptShape, Untouched, SetUp DEF Typed
<1>14. CASE Sidecar
  BY <1>0, <1>14, SidecarShape, Untouched, SetUp DEF Typed
<1>15. CASE Leave
  <2>1. chosen' = chosen
    BY <1>0, <1>15, LeaveShape DEF setting
  <2> QED  BY <1>0, <1>15, <2>1, LeaveShape, Untouched DEF Typed
<1>16. CASE ObserveMap
  <2>1. UNCHANGED <<users, cr, age, cm, template, pod, volume, run, events>> /\ cmSeen' = cm
    BY <1>16 DEF ObserveMap
  <2>2. MapTyped'
    BY <1>0, <2>1 DEF MapTyped
  <2> QED  BY <1>0, <2>1, <2>2, Untouched, SetUp DEF Typed
<1>17. CASE Crash
  <2>1. UNCHANGED <<users, cr, age, map, template, pod, volume>> /\ Spend /\ Idle
    BY <1>17 DEF Crash
  <2> QED  BY <1>0, <2>1, Idling, Untouched, SetUp DEF Typed
<1>18. CASE UNCHANGED vars
  <2>1. UNCHANGED <<users, cr, age, map, template, pod, volume, run, events>>
    BY <1>18 DEF vars
  <2> QED  BY <1>0, <2>1, Untouched, SetUp DEF Typed
<1> QED  BY <1>1, <1>2, <1>3, <1>4, <1>5, <1>6, <1>7, <1>8, <1>9, <1>10, <1>11, <1>12, <1>13,
             <1>14, <1>15, <1>16, <1>17, <1>18 DEF Next, Reconcile, Step, Cluster

-----------------------------------------------------------------------------
(* One owner of a target.                                                   *)

\* Nothing more becomes occupied, and what is about to be installed stays as it is.
Quiet ==
    /\ \A q \in Repositories : cr'[q].state = "live" /\ Occupies(cr'[q].phase) =>
          cr[q].state = "live" /\ Occupies(cr[q].phase) /\ cr'[q].target = cr[q].target
    /\ pc' \in {"Upsert", "Phase"} /\ valid' =>
          /\ pc \in {"Upsert", "Phase"} /\ valid /\ who' = who
          /\ cr'[who].phase = cr[who].phase /\ cr'[who].target = cr[who].target

LEMMA QuietKeeps ==
    ASSUME Typed, OneOwner, Chosen, Quiet
    PROVE  OneOwner' /\ Chosen'
<1>1. OneOwner'
  BY DEF OneOwner, Quiet
<1>2. ASSUME pc' \in {"Upsert", "Phase"}, valid'
      PROVE  /\ cr'[who'].phase = "Validating"
             /\ \A q \in Repositories \ {who'} :
                   ~(cr'[q].state = "live" /\ Occupies(cr'[q].phase) /\ cr'[q].target = cr'[who'].target)
  <2>1. /\ who' = who /\ cr'[who].phase = "Validating" /\ cr'[who].target = cr[who].target
        /\ ~Conflicts(who, cr[who].target)
    BY <1>2 DEF Quiet, Chosen
  <2> QED  BY <2>1 DEF Quiet, Conflicts
<1> QED  BY <1>1, <1>2 DEF Chosen, Conflicts

LEMMA NextOwner == Typed /\ OneOwner /\ Chosen /\ [Next]_vars => OneOwner' /\ Chosen'
<1> SUFFICES ASSUME Typed, OneOwner, Chosen, [Next]_vars PROVE OneOwner' /\ Chosen'
  OBVIOUS
<1>0. Objects /\ MapTyped /\ PodTyped /\ VolumeTyped /\ RunTyped /\ Counted
  BY DEF Typed
<1>1. ASSUME NEW r \in Repositories, Prepare(r) PROVE Quiet
  BY <1>0, <1>1, PrepareShape DEF Quiet, Occupies, run
<1>2. ASSUME NEW r \in Repositories, Validate(r) PROVE OneOwner' /\ Chosen'
  <2>1. /\ pc = "Idle" /\ cr[r].state = "live"
        /\ \A q \in Repositories : cr'[q].state = cr[q].state
    BY <1>0, <1>2, ValidateShape
  <2>2. CASE /\ UNCHANGED run
             /\ \A q \in Repositories : /\ cr'[q].target = cr[q].target
                                        /\ cr'[q].phase = cr[q].phase \/ ~Occupies(cr'[q].phase)
    <3>1. Quiet
      BY <2>1, <2>2 DEF Quiet, run
    <3> QED  BY <3>1, QuietKeeps
  <2>3. CASE \E target \in Targets :
                /\ cr[r].phase = "Validating" /\ ~Conflicts(r, target)
                /\ cr' = [cr EXCEPT ![r].target = target]
                /\ Takes(r, "Upsert", [ref |-> cr[r].ref, target |-> target, old |-> cr[r].target,
                                       entries |-> Nobody])
    <3>1. PICK target \in Targets :
                /\ cr[r].phase = "Validating" /\ ~Conflicts(r, target)
                /\ cr' = [cr EXCEPT ![r].target = target]
                /\ Takes(r, "Upsert", [ref |-> cr[r].ref, target |-> target, old |-> cr[r].target,
                                       entries |-> Nobody])
      BY <2>3
    <3>2. /\ \A q \in Repositories \ {r} : cr'[q] = cr[q]
          /\ cr'[r].phase = "Validating" /\ cr'[r].target = target
      BY <1>0, <3>1 DEF Objects, Resource
    <3>3. who' = r
      BY <3>1 DEF Takes
    <3>4. OneOwner'
      BY <3>2 DEF OneOwner, Occupies
    <3>5. ~Conflicts(r, target)'
      BY <3>1, <3>2 DEF Conflicts
    <3>6. Chosen'
      BY <3>2, <3>3, <3>5 DEF Chosen, Conflicts
    <3> QED  BY <3>4, <3>6
  <2> QED  BY <1>0, <1>2, <2>2, <2>3, ValidateShape
<1>3. ASSUME NEW r \in Repositories, Materialize(r) \/ Activate(r) PROVE Quiet
  <2>1. /\ pc = "Idle" /\ UNCHANGED run /\ Occupies(cr[r].phase)
        /\ \A q \in Repositories : /\ cr'[q].target = cr[q].target /\ cr'[q].state = cr[q].state
                                   /\ cr'[q].phase = cr[q].phase \/ q = r
    BY <1>0, <1>3, WorkingShape DEF Occupies
  <2> QED  BY <2>1 DEF Quiet, run
<1>4. ASSUME NEW r \in Repositories, HandleDeletion(r) PROVE Quiet
  <2>1. /\ pc = "Idle" /\ \A q \in Repositories : cr'[q] = cr[q] \/ cr'[q].state = "gone"
        /\ UNCHANGED run \/ pc' = "Release"
    BY <1>0, <1>4, RemoveShape
  <2> QED  BY <2>1 DEF Quiet, run
<1>5. ASSUME NEW r \in Repositories, Age(r) PROVE Quiet
  BY <1>0, <1>5, AgeShape DEF Quiet, run
<1>6. ASSUME NEW r \in Repositories, Edit(r) PROVE Quiet
  <2>1. UNCHANGED <<pc, who>> /\ valid' = (valid /\ who # r)
    BY <1>0, <1>6, EditShape
  <2>2. \A q \in Repositories : /\ cr'[q].target = cr[q].target /\ cr'[q].phase = cr[q].phase
                                /\ cr'[q].state # cr[q].state => cr[q].state = "live"
    BY <1>0, <1>6, Editing
  <2>3. pc \in {"Upsert", "Phase"} => who \in Repositories
    BY <1>0 DEF RunTyped
  <2> QED  BY <2>1, <2>2, <2>3 DEF Quiet
<1>7. CASE Upsert
  <2>1. pc = "Upsert" /\ UNCHANGED cr /\ (pc' = "Idle" \/ (pc' = "Phase" /\ UNCHANGED <<who, valid>>))
    BY <1>0, <1>7, UpsertShape
  <2>2. Quiet
    BY <2>1 DEF Quiet
  <2> QED  BY <2>2, QuietKeeps
<1>8. CASE Install
  <2>1. /\ pc = "Phase" /\ pc' = "Idle" /\ who \in Repositories
        /\ \A q \in Repositories :
              /\ cr'[q].target = cr[q].target /\ cr'[q].state = cr[q].state
              /\ cr'[q].phase = cr[q].phase \/ (valid /\ q = who /\ cr'[q].phase = "Installing")
    BY <1>0, <1>8, InstallShape
  <2>2. Chosen'
    BY <2>1 DEF Chosen
  <2>3. CASE valid
    <3>1. ~Conflicts(who, cr[who].target)
      BY <2>1, <2>3 DEF Chosen
    <3> QED  BY <2>1, <2>2, <3>1 DEF OneOwner, Conflicts
  <2>4. CASE ~valid
    BY <2>1, <2>2, <2>4 DEF OneOwner
  <2> QED  BY <2>3, <2>4
<1>9. CASE Release
  <2>1. pc' = "Idle" /\ \A q \in Repositories : cr'[q] = cr[q] \/ cr'[q].state = "gone"
    BY <1>0, <1>9, ReleaseShape
  <2>2. Quiet
    BY <2>1 DEF Quiet
  <2> QED  BY <2>2, QuietKeeps
<1>10. CASE UNCHANGED <<cr, run>>
  <2>1. Quiet
    BY <1>10 DEF Quiet, run
  <2> QED  BY <2>1, QuietKeeps
<1>11. CASE Crash
  <2>1. UNCHANGED cr /\ pc' = "Idle"
    BY <1>11 DEF Crash, Idle
  <2>2. Quiet
    BY <2>1 DEF Quiet
  <2> QED  BY <2>2, QuietKeeps
<1>12. CASE Cluster \/ Leave \/ ObserveMap \/ UNCHANGED vars
  <2>1. UNCHANGED <<cr, run>>
    BY <1>12 DEF Cluster, Build, Roll, Ready, InitScript, Sidecar, Leave, ObserveMap, vars
  <2> QED  BY <2>1, <1>10
<1> QED  BY <1>1, <1>2, <1>3, <1>4, <1>5, <1>6, <1>7, <1>8, <1>9, <1>11, <1>12, QuietKeeps
            DEF Next, Reconcile, Step

-----------------------------------------------------------------------------
(* What the pod has in place, and what a removal has dropped.               *)

\* A resource that is gone does not come back.
LEMMA StatesKept ==
    ASSUME Typed, [Next]_vars, NEW q \in Repositories, Present(q)'
    PROVE  Present(q)
<1>0. Objects /\ MapTyped /\ PodTyped /\ VolumeTyped /\ RunTyped /\ Counted
  BY DEF Typed
<1>1. ASSUME NEW r \in Repositories, Reconcile(r) PROVE cr'[q].state \in {cr[q].state, "gone"}
  <2>1. CASE Prepare(r)
    BY <1>0, <2>1, PrepareShape
  <2>2. CASE Validate(r)
    BY <1>0, <2>2, ValidateShape
  <2>3. CASE Materialize(r) \/ Activate(r)
    BY <1>0, <2>3, WorkingShape
  <2>4. CASE HandleDeletion(r)
    BY <1>0, <2>4, RemoveShape
  <2> QED  BY <1>1, <2>1, <2>2, <2>3, <2>4 DEF Reconcile
<1>2. ASSUME NEW r \in Repositories, Edit(r)
      PROVE  cr'[q].state # cr[q].state => cr[q].state = "live"
  BY <1>0, <1>2, Editing
<1>3. CASE Install
  BY <1>0, <1>3, InstallShape DEF Present
<1>4. CASE Release
  BY <1>0, <1>4, ReleaseShape DEF Present
<1>5. CASE UNCHANGED cr
  BY <1>5 DEF Present
<1>6. ASSUME (\E r \in Repositories : Age(r)) \/ Upsert \/ Cluster \/ Leave \/ ObserveMap \/ Crash \/ UNCHANGED vars
      PROVE  UNCHANGED cr
  BY <1>6 DEF Age, Upsert, Cluster, Build, Roll, Ready, InitScript, Sidecar, Leave, ObserveMap, Crash, vars
<1> QED  BY <1>1, <1>2, <1>3, <1>4, <1>5, <1>6 DEF Present, Next, Step

\* The pod stays as it is, or goes, and so does the template but for its hash.
Still ==
    /\ chosen' = chosen /\ UNCHANGED volume
    /\ pod'.made => pod.made /\ pod'.template = pod.template /\ pod'.init = pod.init
    /\ template'.made => template.made /\ template'.scripts = template.scripts

LEMMA StillKeeps ==
    ASSUME Placing, Still, HasRepositories' => HasRepositories
    PROVE  Placing'
<1>1. Bare /\ Filled /\ Noted /\ Cleaned
  BY DEF Placing
<1>2. Ran' => Ran
  BY DEF Still, Ran, Restarts
<1>3. Bare'
  BY <1>1 DEF Bare, Still
<1>4. disk' = disk /\ book' = book /\ killed' = killed /\ Restarts' = Restarts
  BY DEF Still, volume, Restarts
<1>5. Ran' => pod'.template = pod.template
  BY DEF Still, Ran
<1>6. Filled'
  BY <1>1, <1>2, <1>4, <1>5 DEF Filled
<1>7. Noted'
  BY <1>1, <1>4 DEF Noted
<1>8. Cleaned'
  BY <1>1, <1>2, <1>4, <1>5 DEF Cleaned
<1> QED  BY <1>3, <1>6, <1>7, <1>8 DEF Placing

LEMMA NextPlacing == Typed /\ Placing /\ [Next]_vars => Placing'
<1> SUFFICES ASSUME Typed, Placing, [Next]_vars PROVE Placing'
  OBVIOUS
<1>0. Objects /\ MapTyped /\ PodTyped /\ VolumeTyped /\ RunTyped /\ Counted
  BY DEF Typed
<1>a. HasRepositories' => HasRepositories
  BY StatesKept DEF HasRepositories
<1>b. Bare /\ Filled /\ Noted /\ Cleaned
  BY DEF Placing
<1>1. ASSUME NEW r \in Repositories, Reconcile(r) PROVE Still
  <2>1. CASE Prepare(r)
    BY <1>0, <2>1, PrepareShape, SetUp DEF Still
  <2>2. CASE Validate(r)
    BY <1>0, <2>2, ValidateShape, SetUp DEF Still
  <2>3. CASE Materialize(r) \/ Activate(r)
    BY <1>0, <2>3, WorkingShape, SetUp DEF Still
  <2>4. CASE HandleDeletion(r)
    BY <1>0, <2>4, RemoveShape, SetUp DEF Still
  <2> QED  BY <1>1, <2>1, <2>2, <2>3, <2>4 DEF Reconcile
<1>2. ASSUME NEW r \in Repositories, Age(r) \/ Edit(r) PROVE Still
  BY <1>2, SetUp DEF Still, Age, Edit, users
<1>3. ASSUME Upsert \/ Install \/ ObserveMap \/ Crash PROVE Still
  BY <1>3, SetUp DEF Still, Upsert, Install, ObserveMap, Crash
<1>4. ASSUME Release PROVE Still
  BY <1>0, <1>4, ReleaseShape, SetUp DEF Still
<1>5. ASSUME Ready PROVE Still
  BY <1>0, <1>5, ReadyShape, SetUp DEF Still
<1>6. ASSUME Leave PROVE Still
  BY <1>0, <1>6, LeaveShape DEF Still, setting
<1>7. ASSUME UNCHANGED vars PROVE Still
  BY <1>7, SetUp DEF Still, vars
<1>8. CASE Build
  <2>1. /\ UNCHANGED <<users, cr, pod, volume>>
        /\ template'.scripts = HasRepositories
    BY <1>0, <1>8, BuildShape
  <2>2. Filled' /\ Noted' /\ Cleaned'
    BY <1>b, <2>1, SetUp DEF Filled, Noted, Cleaned, Ran, Restarts, volume
  <2>3. Bare'
    BY <1>a, <1>b, <2>1 DEF Bare
  <2> QED  BY <2>2, <2>3 DEF Placing
<1>9. CASE Roll
  <2>1. /\ UNCHANGED <<users, cr, template, volume>> /\ template.made /\ pod'.template = template
        /\ pod'.init = "done" => ~template.scripts
    BY <1>0, <1>9, RollShape
  <2>2. ~Ran'
    BY <2>1 DEF Ran
  <2>3. Noted'
    BY <1>b, <2>1, SetUp DEF Noted, Restarts, volume
  <2>4. Bare'
    BY <1>a, <1>b, <2>1 DEF Bare
  <2> QED  BY <2>2, <2>3, <2>4 DEF Placing, Filled, Cleaned
<1>10. CASE InitScript
  <2>1. /\ UNCHANGED <<users, cr, template>> /\ pod'.made = pod.made /\ pod'.template = pod.template
        /\ Noted'
        /\ pod'.init = "done" /\ Restarts =>
             /\ \A t \in Targets : pod.template.hash[t] \in {None, disk'[t]}
             /\ ~killed' => \A t \in Targets : pod.template.hash[t] = None => disk'[t] = None
    BY <1>0, <1>b, <1>10, InitScriptShape
  <2>2. Restarts' = Restarts
    BY <2>1, SetUp DEF Restarts
  <2>3. Filled' /\ Cleaned'
    BY <2>1, <2>2 DEF Filled, Cleaned, Ran
  <2>4. Bare'
    BY <1>a, <1>b, <2>1 DEF Bare
  <2> QED  BY <2>1, <2>3, <2>4 DEF Placing
<1>11. CASE Sidecar
  <2>1. ~Restarts /\ UNCHANGED <<users, template, pod>>
    BY <1>0, <1>11, SidecarShape
  <2>2. ~Restarts'
    BY <2>1, SetUp DEF Restarts
  <2>3. Bare'
    BY <1>a, <1>b, <2>1 DEF Bare
  <2> QED  BY <2>2, <2>3 DEF Placing, Filled, Noted, Cleaned, Ran
<1> QED  BY <1>a, <1>1, <1>2, <1>3, <1>4, <1>5, <1>6, <1>7, <1>8, <1>9, <1>10, <1>11, StillKeeps
            DEF Next, Step, Cluster

LEMMA NextDropped == Typed /\ Dropped /\ [Next]_vars => Dropped'
<1> SUFFICES ASSUME Typed, Dropped, [Next]_vars, pc' = "Release", valid'
             PROVE  cr'[who'].state = "deleting" /\ mine'.entries[cr'[who'].target] = None
  BY DEF Dropped
<1>0. Objects /\ MapTyped /\ PodTyped /\ VolumeTyped /\ RunTyped /\ Counted
  BY DEF Typed
<1>1. CASE UNCHANGED <<cr, run>>
  BY <1>1 DEF Dropped, run
<1>2. ASSUME NEW r \in Repositories, Prepare(r) \/ Validate(r) \/ Materialize(r) \/ Activate(r)
      PROVE  FALSE
  <2>1. pc = "Idle" /\ (UNCHANGED run \/ pc' = "Upsert")
    BY <1>0, <1>2, PrepareShape, ValidateShape, WorkingShape DEF Takes
  <2> QED  BY <2>1 DEF run
<1>3. ASSUME NEW r \in Repositories, HandleDeletion(r)
      PROVE  cr'[who'].state = "deleting" /\ mine'.entries[cr'[who'].target] = None
  <2>1. /\ pc = "Idle" /\ cr[r].state = "deleting"
        /\ \/ UNCHANGED run
           \/ UNCHANGED cr /\ who' = r /\ mine'.entries[cr[r].target] = None
    BY <1>0, <1>3, RemoveShape
  <2> QED  BY <2>1 DEF run
<1>4. ASSUME NEW r \in Repositories, Edit(r)
      PROVE  cr'[who'].state = "deleting" /\ mine'.entries[cr'[who'].target] = None
  <2>1. UNCHANGED <<pc, who, mine>> /\ valid' = (valid /\ who # r) /\ who \in Repositories
    BY <1>0, <1>4, EditShape DEF RunTyped
  <2>2. cr'[who].target = cr[who].target /\ (cr'[who].state # cr[who].state => who = r)
    BY <1>0, <1>4, <2>1, Editing
  <2> QED  BY <2>1, <2>2 DEF Dropped
<1>5. CASE Upsert \/ Install \/ Release
  BY <1>0, <1>5, UpsertShape, InstallShape, ReleaseShape
<1>6. CASE Crash
  BY <1>6 DEF Crash, Idle
<1>7. ASSUME (\E r \in Repositories : Age(r)) \/ Cluster \/ Leave \/ ObserveMap \/ UNCHANGED vars
      PROVE  UNCHANGED <<cr, run>>
  BY <1>7 DEF Age, Cluster, Build, Roll, Ready, InitScript, Sidecar, Leave, ObserveMap, vars
<1> QED  BY <1>1, <1>2, <1>3, <1>4, <1>5, <1>6, <1>7 DEF Next, Reconcile, Step

-----------------------------------------------------------------------------
(* The theorems.                                                            *)

LEMMA InitInv == Init => IInv
<1> SUFFICES ASSUME Init PROVE IInv
  OBVIOUS
<1>1. Typed
  BY InitTyped
<1>2. /\ pc = "Idle" /\ disk = Nobody /\ template = NoTemplate
      /\ pod = [made |-> FALSE, template |-> NoTemplate, ready |-> FALSE, init |-> "run"]
  BY DEF Init
<1>3. \A r \in Repositories : cr[r].phase = ""
  <2>1. PICK refs \in FirstRefs :
           cr = [r \in Repositories |-> [state |-> "live", fin |-> FALSE, ref |-> refs[r],
                                         seen |-> FALSE, phase |-> "", target |-> ""]]
    BY DEF Init
  <2> QED  BY <2>1
<1>4. OneOwner
  BY <1>3 DEF OneOwner, Occupies
<1>5. Chosen /\ Dropped
  BY <1>2 DEF Chosen, Dropped
<1>6. ~template.made /\ ~pod.made
  BY <1>2 DEF NoTemplate
<1>7. Placing
  BY <1>2, <1>6 DEF Placing, Bare, Filled, Noted, Cleaned, Ran, Nobody
<1> QED  BY <1>1, <1>4, <1>5, <1>7 DEF IInv

LEMMA NextInv == IInv /\ [Next]_vars => IInv'
  BY NextTyped, NextOwner, NextPlacing, NextDropped DEF IInv

LEMMA Invariance == Spec => []IInv
  BY InitInv, NextInv, PTL DEF Spec

\* The resources, the shared ConfigMap, the StatefulSet, the pod's volume and the
\* reconciler's copy keep their types, whatever is edited, fails or crashes.
THEOREM TypeTheorem == Spec => []TypeOK
<1>1. IInv => TypeOK
  BY TypesOf DEF IInv
<1> QED  BY <1>1, Invariance, PTL

\* findConflictingOwner and reconcileValidating never let two resources be installed as one
\* target, for any number of resources.
THEOREM OneOwnerTheorem == Spec => []OneOwner
<1>1. IInv => OneOwner
  BY DEF IInv
<1> QED  BY <1>1, Invariance, PTL

\* reconcileInstalling calls an integration installed only when the init container has put
\* in place all that the ConfigMap listed, each at its ref.
THEOREM MaterializedTheorem == Spec => MaterializedWhenInstalled
<1> DEFINE InPlace == \A r \in Repositories :
                      Restarts /\ cr[r].phase = "Installing" /\ cr'[r].phase = "Installed"
                      => \A t \in Targets : cmSeen.entries[t] \in {None, disk[t]}
<1>1. IInv /\ [Next]_vars => [InPlace]_vars
  <2> SUFFICES ASSUME IInv, Next, NEW r \in Repositories,
                      Restarts, cr[r].phase = "Installing", cr'[r].phase = "Installed"
               PROVE  \A t \in Targets : cmSeen.entries[t] \in {None, disk[t]}
    OBVIOUS
  <2>0. Objects /\ MapTyped /\ PodTyped /\ VolumeTyped /\ RunTyped /\ Counted /\ Bare /\ Filled
    BY DEF IInv, Typed, Placing
  <2>1. ASSUME NEW q \in Repositories, Prepare(q) \/ Validate(q) \/ HandleDeletion(q) \/ Edit(q)
        PROVE  FALSE
    <3>1. CASE Prepare(q)
      BY <2>0, <3>1, PrepareShape
    <3>2. CASE Validate(q)
      <4>1. cr'[r].phase = cr[r].phase \/ ~Occupies(cr'[r].phase)
        <5>1. CASE \E target \in Targets : cr' = [cr EXCEPT ![q].target = target]
          <6>1. PICK target \in Targets : cr' = [cr EXCEPT ![q].target = target]
            BY <5>1
          <6> QED  BY <2>0, <6>1 DEF Objects, Resource
        <5> QED  BY <2>0, <3>2, <5>1, ValidateShape
      <4> QED  BY <4>1 DEF Occupies
    <3>3. CASE HandleDeletion(q)
      <4>1. q = r /\ pc = "Idle" /\ Gone(q)
        BY <2>0, <3>3, RemoveShape DEF HandleDeletion
      <4>2. cr'[q].phase = ""
        BY <2>0, <4>1 DEF Gone, Objects, Resource
      <4> QED  BY <4>1, <4>2
    <3>4. CASE Edit(q)
      BY <2>0, <3>4, Editing
    <3> QED  BY <2>1, <3>1, <3>2, <3>3, <3>4
  <2>2. ~(Upsert \/ Cluster \/ Leave \/ ObserveMap \/ Crash) /\ \A q \in Repositories : ~Age(q)
    BY DEF Upsert, Cluster, Build, Roll, Ready, InitScript, Sidecar, Leave, ObserveMap, Crash, Age
  <2>3. ~Install
    BY <2>0, InstallShape
  <2>4. ~Release
    <3>1. ASSUME Release PROVE FALSE
      <4>1. r = who /\ Gone(who)
        BY <2>0, <3>1, ReleaseShape DEF Release
      <4>2. cr'[r].phase = ""
        BY <2>0, <4>1 DEF Gone, Objects, Resource
      <4> QED  BY <4>2
    <3> QED  BY <3>1
  <2>5. PICK q \in Repositories : Materialize(q) \/ Activate(q)
    BY <2>1, <2>2, <2>3, <2>4 DEF Next, Reconcile, Step
  <2>6. q = r /\ cr[r].state = "live" /\ Confirmed(cmSeen.entries)
    BY <2>0, <2>5, WorkingShape
  <2>7. pod.made /\ pod.template.hash = cmSeen.entries /\ pod.init = "done"
    BY <2>6 DEF Confirmed, Hash
  <2>8. pod.template.scripts
    BY <2>0, <2>6, <2>7 DEF Bare, HasRepositories, Present
  <2> QED  BY <2>0, <2>7, <2>8 DEF Filled, Ran
<1> QED  BY <1>1, Invariance, PTL DEF Spec, MaterializedWhenInstalled

\* handleDeletion lets the resource of an integration go only when the init container has
\* removed its files, unless a script was killed before it noted what it had put in place.
THEOREM NothingLeftBehindTheorem == Spec => NothingLeftBehind
<1> DEFINE Leaves == \A r \in Repositories :
                       /\ Restarts /\ home = "live" /\ template.made /\ ~killed
                       /\ cr[r].state = "deleting" /\ cr'[r].state = "gone" /\ cr[r].target # ""
                       => disk[cr[r].target] = None
<1>1. IInv /\ [Next]_vars => [Leaves]_vars
  <2> SUFFICES ASSUME IInv, Next, NEW r \in Repositories,
                      Restarts, home = "live", template.made, ~killed,
                      cr[r].state = "deleting", cr'[r].state = "gone", cr[r].target # ""
               PROVE  disk[cr[r].target] = None
    OBVIOUS
  <2>0. /\ Objects /\ MapTyped /\ PodTyped /\ VolumeTyped /\ RunTyped /\ Counted
        /\ Bare /\ Cleaned /\ Dropped
    BY DEF IInv, Typed, Placing
  <2>1. ASSUME NEW q \in Repositories, Reconcile(q) \/ Edit(q) PROVE FALSE
    <3>1. CASE Prepare(q) \/ Validate(q) \/ Materialize(q) \/ Activate(q)
      BY <2>0, <3>1, PrepareShape, ValidateShape, WorkingShape
    <3>2. CASE HandleDeletion(q)
      BY <2>0, <3>2, RemoveShape
    <3>3. CASE Edit(q)
      BY <2>0, <3>3, Editing
    <3> QED  BY <2>1, <3>1, <3>2, <3>3 DEF Reconcile
  <2>2. ~(Upsert \/ Cluster \/ Leave \/ ObserveMap \/ Crash) /\ \A q \in Repositories : ~Age(q)
    BY DEF Upsert, Cluster, Build, Roll, Ready, InitScript, Sidecar, Leave, ObserveMap, Crash, Age
  <2>3. ~Install
    BY <2>0, InstallShape
  <2>4. Release
    BY <2>1, <2>2, <2>3 DEF Next, Step
  <2>5. r = who /\ valid /\ Released(mine.entries) /\ pc = "Release"
    BY <2>0, <2>4, ReleaseShape
  <2>6. mine.entries[cr[r].target] = None
    BY <2>0, <2>5 DEF Dropped
  <2>7. pod.made /\ pod.template.hash = mine.entries /\ pod.init = "done"
    BY <2>5 DEF Released, Confirmed, Hash
  <2>8. pod.template.scripts
    BY <2>0, <2>7 DEF Bare, HasRepositories, Present
  <2>9. cr[r].target \in Targets
    BY <2>0 DEF Objects, Resource
  <2> QED  BY <2>0, <2>6, <2>7, <2>8, <2>9 DEF Cleaned, Ran
<1> QED  BY <1>1, Invariance, PTL DEF Spec, NothingLeftBehind

-----------------------------------------------------------------------------
(* What the operator validates and what the scripts place.                   *)

\* An archive as a source code host makes it: members with their paths, where those that do
\* not lead outside are in one directory.
Shaped(archive, names) ==
    \A m \in archive :
        /\ m = [path |-> m.path, kind |-> m.kind, size |-> m.size, says |-> m.says]
        /\ m.path \in Seq(names) \ {<<>>} /\ m.size \in Nat
OneTop(archive) ==
    \A m, n \in archive : Up \in {m.path[1], n.path[1]} \/ m.path[1] = n.path[1]
Regular(archive, names) == IsFiniteSet(archive) /\ Shaped(archive, names) /\ OneTop(archive)

LEMMA HeadFirst ==
    ASSUME NEW N, NEW p \in Seq(N), p # <<>>
    PROVE  <<p[1]>> \o Tail(p) = p
<1> DEFINE q == <<p[1]>> \o Tail(p)
<1>1. p[1] \in N /\ Len(p) \in Nat \ {0} /\ <<p[1]>> \in Seq(N) /\ Len(<<p[1]>>) = 1
  BY EmptySeq, ElementOfSeq
<1>2. Tail(p) \in Seq(N) /\ Len(Tail(p)) = Len(p) - 1
      /\ \A i \in 1 .. Len(Tail(p)) : Tail(p)[i] = p[i+1]
  BY HeadTailProperties
<1>3. q \in Seq(N) /\ Len(q) = Len(p)
      /\ \A i \in 1 .. Len(p) : q[i] = IF i <= 1 THEN <<p[1]>>[i] ELSE Tail(p)[i - 1]
  BY <1>1, <1>2, ConcatProperties
<1>4. \A i \in 1 .. Len(p) : q[i] = p[i]
  <2> SUFFICES ASSUME NEW i \in 1 .. Len(p) PROVE q[i] = p[i]
    OBVIOUS
  <2>1. CASE i = 1
    BY <1>1, <1>3, <2>1
  <2>2. CASE i # 1
    <3>1. i - 1 \in 1 .. Len(Tail(p)) /\ ~(i <= 1)
      BY <1>1, <1>2, <2>2
    <3> QED  BY <1>2, <1>3, <3>1
  <2> QED  BY <2>1, <2>2
<1> QED  BY <1>3, <1>4, SeqEqual

LEMMA PrefixOfItself == ASSUME NEW N, NEW p \in Seq(N) PROVE IsPrefix(p, p)
  BY LenProperties DEF IsPrefix

LEMMA PrefixBySub ==
    ASSUME NEW N, NEW p \in Seq(N), NEW n \in 1 .. Len(p)
    PROVE  /\ SubSeq(p, 1, n) \in Seq(N) /\ SubSeq(p, 1, n) # <<>> /\ SubSeq(p, 1, n)[1] = p[1]
           /\ IsPrefix(SubSeq(p, 1, n), p)
<1>1. n \in Int /\ 1 <= n /\ Len(p) \in Nat /\ \A i \in 1 .. n : p[i] \in N
  BY ElementOfSeq, LenProperties
<1>2. SubSeq(p, 1, n) \in Seq(N) /\ Len(SubSeq(p, 1, n)) = n
      /\ \A i \in 1 .. n : SubSeq(p, 1, n)[i] = p[i]
  BY <1>1, SubSeqProperties
<1>3. SubSeq(SubSeq(p, 1, n), 1, n) = SubSeq(p, 1, n)
  BY <1>2, SubSeqFull
<1> QED  BY <1>1, <1>2, <1>3, EmptySeq DEF IsPrefix

LEMMA PrefixByAppend ==
    ASSUME NEW N, NEW p \in Seq(N), NEW e \in N
    PROVE  IsPrefix(p, Append(p, e))
<1>1. Append(p, e) \in Seq(N) /\ Len(Append(p, e)) = Len(p) + 1 /\ Len(p) \in Nat
      /\ \A i \in 1 .. Len(p) : Append(p, e)[i] = p[i]
  BY AppendProperties, LenProperties
<1>2. SubSeq(p, 1, Len(p)) = p
  BY SubSeqFull
<1>3. \A i \in 1 .. Len(p) : Append(p, e)[i] \in N
  BY <1>1, ElementOfSeq
<1>4. SubSeq(Append(p, e), 1, Len(p)) \in Seq(N)
      /\ Len(SubSeq(Append(p, e), 1, Len(p))) = Len(p)
      /\ \A i \in 1 .. Len(p) : SubSeq(Append(p, e), 1, Len(p))[i] = Append(p, e)[i]
  BY <1>1, <1>3, SubSeqProperties
<1>5. SubSeq(Append(p, e), 1, Len(p)) = p
  BY <1>1, <1>4, SeqEqual
<1> QED  BY <1>1, <1>2, <1>5 DEF IsPrefix

LEMMA ChildIsAppend ==
    ASSUME NEW N, NEW d \in Seq(N), NEW p \in Seq(N), DirectChild(d, p)
    PROVE  p = Append(d, Last(p)) /\ Last(p) \in N
<1>1. Len(p) = Len(d) + 1 /\ SubSeq(d, 1, Len(d)) = SubSeq(p, 1, Len(d)) /\ Len(d) \in Nat
  BY LenProperties DEF DirectChild, IsPrefix
<1>2. p[Len(p)] \in N /\ \A i \in 1 .. Len(d) : p[i] \in N
  BY <1>1, ElementOfSeq
<1>3. \A i \in 1 .. Len(d) : SubSeq(p, 1, Len(d))[i] = p[i]
  BY <1>1, <1>2, SubSeqProperties
<1>4. SubSeq(d, 1, Len(d)) = d
  BY SubSeqFull
<1>5. \A i \in 1 .. Len(d) : d[i] = p[i]
  BY <1>1, <1>3, <1>4
<1>6. Append(d, p[Len(p)]) \in Seq(N) /\ Len(Append(d, p[Len(p)])) = Len(d) + 1
      /\ (\A i \in 1 .. Len(d) : Append(d, p[Len(p)])[i] = d[i])
      /\ Append(d, p[Len(p)])[Len(d) + 1] = p[Len(p)]
  BY <1>2, AppendProperties
<1>7. \A i \in 1 .. Len(p) : Append(d, p[Len(p)])[i] = p[i]
  BY <1>1, <1>5, <1>6
<1> QED  BY <1>1, <1>2, <1>6, <1>7, SeqEqual DEF Last

LEMMA OneIsSome == ASSUME NEW S, Cardinality(S) = 1 PROVE \E x : x \in S
<1>1. S # {}
  BY FS_EmptySet
<1> QED  BY <1>1

\* The size of finitely many members is a number.
LEMMA SizeTyped ==
    ASSUME NEW members, IsFiniteSet(members), \A m \in members : m.size \in Nat
    PROVE  Size(members) \in Nat
<1> DEFINE units == [m \in members |-> {m} \X (1 .. m.size)]
           all == {{m} \X (1 .. m.size) : m \in members}
<1>1. \A m \in members : IsFiniteSet({m} \X (1 .. m.size))
  <2> SUFFICES ASSUME NEW m \in members PROVE IsFiniteSet({m} \X (1 .. m.size))
    OBVIOUS
  <2>1. IsFiniteSet({m}) /\ IsFiniteSet(1 .. m.size)
    <3>1. m.size \in Int /\ 1 \in Int
      OBVIOUS
    <3>2. IsFiniteSet(1 .. m.size)
      BY <3>1, FS_Interval
    <3> QED  BY <3>2, FS_Singleton
  <2> QED  BY <2>1, FS_Product
<1>2. IsFiniteSet(all)
  <2>1. units \in Surjection(members, all)
    BY DEF Surjection
  <2> HIDE DEF units, all
  <2> QED  BY <2>1, FS_Surjection
<1>3. IsFiniteSet(UNION all)
  BY <1>1, <1>2, FS_UNION
<1> QED  BY <1>3, FS_CardinalityType DEF Size

\* A tree the operator fetched comes from an archive that the scripts take, all of whose
\* members are in one directory.
LEMMA FetchedIsTaken ==
    ASSUME NEW names, NEW archive, Regular(archive, names), FetchTarball(archive) # NoTree
    PROVE  \E top \in names :
               /\ SafeExtract(archive) /\ TopLevel(archive) = {top}
               /\ \A m \in archive : m.path[1] = top
<1> DEFINE tree == Extract(archive)
           tops == {d \in tree.dirs : Len(d) = 1}
<1>1. tree # NoTree /\ StripTopLevelDir(tree) # NoTree
  BY DEF FetchTarball
<1>2. /\ ~TooBig(archive) /\ \A m \in archive : m.path[1] # Up
      /\ tree.dirs = {m.path : m \in {d \in archive : d.kind = "dir"}} \cup
                       UNION {Parents(m.path) : m \in {d \in archive : d.kind \in {"dir", "file"}}}
  BY <1>1 DEF Extract
<1>3. Cardinality(tops) = 1
  BY <1>1 DEF StripTopLevelDir
<1>4. tops # {}
  BY <1>3, OneIsSome
<1>5. PICK m \in archive : TRUE
  BY <1>2, <1>4
<1>6. m.path[1] \in names
  BY ElementOfSeq, EmptySeq DEF Regular, Shaped
<1>7. \A n \in archive : n.path[1] = m.path[1]
  BY <1>2 DEF Regular, OneTop
<1>8. SafeExtract(archive)
  <2>1. IsFiniteSet(Files(archive)) /\ \A f \in Files(archive) : f.size \in Nat
    BY FS_Subset DEF Files, Regular, Shaped
  <2>2. Size(Files(archive)) \in Nat
    BY <2>1, SizeTyped
  <2> QED  BY <1>2, <2>2 DEF SafeExtract, TooBig, MaxTotal
<1> WITNESS m.path[1] \in names
<1> QED  BY <1>7, <1>8 DEF TopLevel

\* The files and directories of the tree are those of the archive, without its top.
LEMMA FileOrigin ==
    ASSUME NEW names, NEW archive, Regular(archive, names), FetchTarball(archive) # NoTree, NEW top,
           \A m \in archive : m.path[1] = top, NEW f \in FetchTarball(archive).files
    PROVE  /\ f.path \in Seq(names)
           /\ \E m \in Files(archive) : m.path = <<top>> \o f.path /\ m.says = f.says /\ m.size = f.size
<1>1. /\ Extract(archive).files = Files(archive)
      /\ FetchTarball(archive).files =
            {[g EXCEPT !.path = Tail(@)] : g \in {h \in Extract(archive).files : Len(h.path) > 1}}
  BY DEF FetchTarball, StripTopLevelDir, Extract
<1>2. PICK g \in Files(archive) : f = [g EXCEPT !.path = Tail(@)]
  BY <1>1
<1>3. g \in archive /\ g = [path |-> g.path, kind |-> g.kind, size |-> g.size, says |-> g.says]
  BY DEF Files, Regular, Shaped
<1>4. f.path = Tail(g.path) /\ f.says = g.says /\ f.size = g.size
  BY <1>2, <1>3
<1>5. g.path \in Seq(names) /\ g.path # <<>> /\ g.path[1] = top
  BY <1>3 DEF Regular, Shaped
<1>6. Tail(g.path) \in Seq(names) /\ g.path = <<top>> \o Tail(g.path)
  BY <1>5, HeadFirst, HeadTailProperties
<1> QED  BY <1>4, <1>6

LEMMA DirOrigin ==
    ASSUME NEW names, NEW archive, Regular(archive, names), FetchTarball(archive) # NoTree, NEW top,
           \A m \in archive : m.path[1] = top, NEW d \in FetchTarball(archive).dirs
    PROVE  \E m \in archive : m.kind # "link" /\ IsPrefix(<<top>> \o d, m.path)
<1>1. /\ Extract(archive).dirs =
            {m.path : m \in {d0 \in archive : d0.kind = "dir"}} \cup
            UNION {Parents(m.path) : m \in {d0 \in archive : d0.kind \in {"dir", "file"}}}
      /\ FetchTarball(archive).dirs =
            {Tail(d0) : d0 \in {e \in Extract(archive).dirs : Len(e) > 1}}
  BY DEF FetchTarball, StripTopLevelDir, Extract
<1>2. PICK e \in Extract(archive).dirs : d = Tail(e)
  BY <1>1
<1>3. \A m \in archive : m.path \in Seq(names) /\ m.path # <<>> /\ m.path[1] = top
  BY DEF Regular, Shaped
<1>4. PICK m \in archive : /\ m.kind # "link" /\ e \in Seq(names) /\ e # <<>> /\ e[1] = top
                           /\ IsPrefix(e, m.path)
  <2>1. CASE \E m \in archive : m.kind = "dir" /\ e = m.path
    BY <1>3, <2>1, PrefixOfItself
  <2>2. CASE \E m \in archive : m.kind \in {"dir", "file"} /\ e \in Parents(m.path)
    <3>1. PICK m \in archive : m.kind \in {"dir", "file"} /\ e \in Parents(m.path)
      BY <2>2
    <3>2. PICK n \in 1 .. Len(m.path) - 1 : e = SubSeq(m.path, 1, n)
      BY <3>1 DEF Parents
    <3>3. m.path \in Seq(names) /\ m.path[1] = top /\ n \in 1 .. Len(m.path)
      BY <1>3, <3>2, LenProperties
    <3> QED  BY <3>1, <3>2, <3>3, PrefixBySub
  <2> QED  BY <1>1, <2>1, <2>2
<1>5. <<top>> \o d = e
  BY <1>2, <1>4, HeadFirst
<1> QED  BY <1>4, <1>5

\* What the tree has, the archive has in its top-level directory.
LEMMA Reached ==
    ASSUME NEW names, NEW archive, Regular(archive, names), FetchTarball(archive) # NoTree, NEW top,
           \A m \in archive : m.path[1] = top, NEW path, Exists(FetchTarball(archive), path)
    PROVE  \E m \in archive : m.kind # "link" /\ IsPrefix(<<top>> \o path, m.path)
<1>1. CASE path \in FetchTarball(archive).dirs
  BY <1>1, DirOrigin
<1>2. CASE \E f \in FetchTarball(archive).files : f.path = path
  <2>0. PICK f \in FetchTarball(archive).files : f.path = path
    BY <1>2
  <2>1. PICK m \in Files(archive) : m.path = <<top>> \o f.path
    BY FileOrigin
  <2>2. m \in archive /\ m.kind # "link" /\ m.path \in Seq(names)
    BY DEF Files, Regular, Shaped
  <2> QED  BY <2>0, <2>1, <2>2, PrefixOfItself
<1> QED  BY <1>1, <1>2 DEF Exists

\* One file with a fitting extension is there.
LEMMA SingleFileExists ==
    ASSUME NEW names, NEW archive, Regular(archive, names), FetchTarball(archive) # NoTree, NEW top,
           \A m \in archive : m.path[1] = top, NEW others, NEW dir \in Seq(others), NEW extensions,
           ResolveSingleFile(FetchTarball(archive), dir, extensions) # Invalid
    PROVE  Exists(FetchTarball(archive),
                  ResolveSingleFile(FetchTarball(archive), dir, extensions).source)
<1> DEFINE tree == FetchTarball(archive)
           matches == {n \in FileNames(tree, dir) : extensions = {} \/ n.ext \in extensions}
           match == CHOOSE n \in matches : TRUE
<1>1. /\ Cardinality(matches) = 1
      /\ ResolveSingleFile(tree, dir, extensions).source = Append(dir, match)
  BY DEF ResolveSingleFile, Resolved
<1>2. match \in FileNames(tree, dir)
  <2>1. \E n : n \in matches
    BY <1>1, OneIsSome
  <2> QED  BY <2>1
<1>3. PICK f \in tree.files : DirectChild(dir, f.path) /\ match = Last(f.path)
  BY <1>2 DEF FileNames
<1>4. f.path \in Seq(names \cup others) /\ dir \in Seq(names \cup others)
  <2>1. f.path \in Seq(names)
    BY FileOrigin
  <2> QED  BY <2>1, SeqMonotonic
<1>5. f.path = Append(dir, match)
  BY <1>3, <1>4, ChildIsAppend
<1> QED  BY <1>1, <1>5 DEF Exists

\* An integration that is valid is there with its manifest.
LEMMA IntegrationExists ==
    ASSUME NEW names, NEW archive, Regular(archive, names), FetchTarball(archive) # NoTree, NEW top,
           \A m \in archive : m.path[1] = top, ResolveIntegration(FetchTarball(archive)) # Invalid
    PROVE  LET path == <<top>> \o ResolveIntegration(FetchTarball(archive)).source IN
           /\ \E m \in archive : m.kind # "link" /\ IsPrefix(path, m.path)
           /\ \E m \in Files(archive) : m.path = Append(path, Manifest)
<1> DEFINE tree == FetchTarball(archive)
           dirs == DirNames(tree, <<Dir("custom_components")>>)
           name == CHOOSE n \in dirs : TRUE
           source == <<Dir("custom_components"), name>>
<1>1. /\ {m.domain : m \in Reads(tree, Append(source, Manifest))} \ {""} # {}
      /\ ResolveIntegration(tree).source = source
  BY DEF ResolveIntegration, Resolved
<1>2. PICK f \in tree.files : f.path = Append(source, Manifest)
  BY <1>1 DEF Reads
<1>3. PICK m \in Files(archive) : m.path = <<top>> \o f.path
  BY FileOrigin
<1> DEFINE N == {top, Dir("custom_components"), name, Manifest}
           path == <<top>> \o source
<1>4. <<top>> \in Seq(N) /\ source \in Seq(N) /\ <<Manifest>> \in Seq(N) /\ path \in Seq(N)
  OBVIOUS
<1>5. m.path = Append(path, Manifest)
  <2>1. f.path = source \o <<Manifest>>
    BY <1>2, <1>4, AppendIsConcat
  <2>2. <<top>> \o (source \o <<Manifest>>) = path \o <<Manifest>>
    BY <1>4, ConcatAssociative
  <2>3. path \o <<Manifest>> = Append(path, Manifest)
    BY <1>4, AppendIsConcat
  <2> QED  BY <1>3, <2>1, <2>2, <2>3
<1>6. IsPrefix(path, m.path) /\ m \in archive /\ m.kind # "link"
  <2>1. Manifest \in N
    OBVIOUS
  <2> QED  BY <1>4, <1>5, <2>1, PrefixByAppend DEF Files
<1> QED  BY <1>1, <1>5, <1>6

\* What the operator validates (ValidateAndResolve, of what FetchTarball took), the scripts can
\* put in place, for every archive whose members are in one directory, unless it is an integration
\* whose domain is not the name of a directory: nothing is too large, the source is there, and an
\* integration has its manifest.
THEOREM PlaceableTheorem ==
    ASSUME NEW c \in Categories, NEW names, NEW archive, Regular(archive, names)
    PROVE  Placeable(c, archive)
<1> DEFINE tree == FetchTarball(archive)
           resolved == ValidateAndResolve(tree, c)
<1> SUFFICES ASSUME resolved # Invalid, ~Unsafe(c, resolved.target)
             PROVE  Places(archive, c, resolved)
  BY DEF Placeable
<1>1. tree # NoTree
  BY DEF ValidateAndResolve
<1>2. PICK top \in names : /\ SafeExtract(archive) /\ TopLevel(archive) = {top}
                           /\ \A m \in archive : m.path[1] = top
  BY <1>1, FetchedIsTaken
<1>3. Cardinality(TopLevel(archive)) = 1
  BY <1>2, FS_Singleton
<1>4. CASE c = "integration"
  <2>1. resolved = ResolveIntegration(tree)
    BY <1>1, <1>4 DEF ValidateAndResolve
  <2> QED  BY <1>1, <1>2, <1>3, <2>1, IntegrationExists DEF Places
<1>5. CASE c # "integration"
  <2>1. Exists(tree, resolved.source)
    <3> DEFINE hacs == HacsManifest(tree)
    <3> DEFINE others == {Dir("themes"), Dir("python_scripts"), Dir("custom_templates")}
    <3>0. /\ <<Dir("themes")>> \in Seq(others) /\ <<Dir("python_scripts")>> \in Seq(others)
          /\ <<Dir("custom_templates")>> \in Seq(others)
      OBVIOUS
    <3>1. CASE c = "plugin" /\ hacs.filename # <<>>
      <4>1. resolved = ResolvePlugin(tree, hacs)
        BY <1>1, <3>1 DEF ValidateAndResolve
      <4> QED  BY <3>1, <4>1 DEF ResolvePlugin, Resolved
    <3>2. CASE ~(c = "plugin" /\ hacs.filename # <<>>)
      <4>1. \E dir \in Seq(others) : \E extensions : resolved = ResolveSingleFile(tree, dir, extensions)
        <5>1. CASE c = "plugin"
          <6>1. resolved = ResolveSingleFile(tree, <<>>, {"js"})
            BY <1>1, <3>2, <5>1 DEF ValidateAndResolve, ResolvePlugin
          <6> QED  BY <6>1, EmptySeq
        <5>2. CASE c = "theme"
          <6>1. resolved = ResolveSingleFile(tree, <<Dir("themes")>>, {"yaml", "yml"})
            BY <1>1, <5>2 DEF ValidateAndResolve
          <6> QED  BY <3>0, <6>1
        <5>3. CASE c = "python_script"
          <6>1. resolved = ResolveSingleFile(tree, <<Dir("python_scripts")>>, {"py"})
            BY <1>1, <5>3 DEF ValidateAndResolve
          <6> QED  BY <3>0, <6>1
        <5>4. CASE c = "template"
          <6>1. resolved = ResolveSingleFile(tree, <<Dir("custom_templates")>>, {})
            BY <1>1, <5>4 DEF ValidateAndResolve
          <6> QED  BY <3>0, <6>1
        <5> QED  BY <1>5, <5>1, <5>2, <5>3, <5>4 DEF Categories
      <4> QED  BY <1>1, <1>2, <4>1, SingleFileExists
    <3> QED  BY <3>1, <3>2
  <2>2. \E m \in archive : m.kind # "link" /\ IsPrefix(<<top>> \o resolved.source, m.path)
    BY <1>1, <1>2, <2>1, Reached
  <2> QED  BY <1>2, <1>3, <1>5, <2>2 DEF Places
<1> QED  BY <1>4, <1>5

-----------------------------------------------------------------------------
(* The archives of the run.                                                  *)

SampleNames ==
    {Top, Up, Manifest, Hacs, Dir("custom_components"), Dir("code"), Dir("more"), Dir("away"),
     Dir("large"), Dir("themes"), Dir("link"), Dir("x"), Name("t", "yaml"), Name("u", "yml"), Name("t", "js"),
     Name("u", "js")}

LEMMA Below ==
    ASSUME NEW path \in Seq(SampleNames)
    PROVE  /\ <<Top>> \o path \in Seq(SampleNames) \ {<<>>}
           /\ (<<Top>> \o path)[1] = Top
<1>1. <<Top>> \in Seq(SampleNames) /\ Len(<<Top>>) = 1 /\ <<Top>>[1] = Top
  BY DEF SampleNames
<1>2. Len(path) \in Nat
  BY LenProperties
<1>3. /\ <<Top>> \o path \in Seq(SampleNames) /\ Len(<<Top>> \o path) = 1 + Len(path)
      /\ (<<Top>> \o path)[1] = <<Top>>[1]
  BY <1>1, <1>2, ConcatProperties
<1>4. <<Top>> \o path # <<>>
  BY <1>1, ConcatEqualIffEmpty
<1> QED  BY <1>1, <1>3, <1>4

\* The directory of a sample, and what leads outside.
Sampled(m) ==
    /\ m = [path |-> m.path, kind |-> m.kind, size |-> m.size, says |-> m.says]
    /\ m.path \in Seq(SampleNames) \ {<<>>} /\ m.size \in Nat /\ m.path[1] \in {Top, Up}

LEMMA FileSampled ==
    ASSUME NEW path \in Seq(SampleNames), NEW size \in Nat, NEW says
    PROVE  Sampled(File(path, size, says))
<1>1. <<Top>> \o path \in Seq(SampleNames) \ {<<>>} /\ (<<Top>> \o path)[1] = Top
  BY Below
<1> QED  BY <1>1 DEF File, Sampled

LEMMA ComponentSampled ==
    ASSUME NEW dir, Dir(dir) \in SampleNames, NEW domain
    PROVE  Sampled(Component(dir, domain))
<1>1. <<Dir("custom_components"), Dir(dir), Manifest>> \in Seq(SampleNames)
  BY DEF SampleNames
<1> QED  BY <1>1, FileSampled DEF Component

LEMMA MembersSampled == \A m \in Members : Sampled(m)
<1>1. Sampled(Component("code", "t")) /\ Sampled(Component("more", "")) /\ Sampled(Component("away", ".."))
  <2>1. Dir("code") \in SampleNames /\ Dir("more") \in SampleNames /\ Dir("away") \in SampleNames
    BY DEF SampleNames
  <2> QED  BY <2>1, ComponentSampled
<1>2. Sampled(Folder(<<Dir("custom_components"), Dir("code")>>))
  <2>1. <<Dir("custom_components"), Dir("code")>> \in Seq(SampleNames)
    BY DEF SampleNames
  <2>2. /\ <<Top>> \o <<Dir("custom_components"), Dir("code")>> \in Seq(SampleNames) \ {<<>>}
        /\ (<<Top>> \o <<Dir("custom_components"), Dir("code")>>)[1] = Top
    BY <2>1, Below
  <2> QED  BY <2>2 DEF Folder, Sampled
<1>3. Sampled(File(<<Dir("custom_components"), Dir("large"), Manifest>>, 2, Says("", <<>>, "u")))
  <2>1. <<Dir("custom_components"), Dir("large"), Manifest>> \in Seq(SampleNames)
    BY DEF SampleNames
  <2> QED  BY <2>1, FileSampled
<1>4. Sampled(Theme("t")) /\ Sampled(File(<<Dir("themes"), Name("u", "yml")>>, 2, Nothing))
  <2>1. /\ <<Dir("themes"), Name("t", "yaml")>> \in Seq(SampleNames)
        /\ <<Dir("themes"), Name("u", "yml")>> \in Seq(SampleNames)
    BY DEF SampleNames
  <2> QED  BY <2>1, FileSampled DEF Theme
<1>5. /\ Sampled(File(<<Name("t", "js")>>, 1, Nothing))
      /\ Sampled(File(<<Name("u", "js")>>, 1, Nothing))
      /\ Sampled(File(<<Hacs>>, 0, Says("plugin", <<Name("u", "js")>>, "")))
  <2>1. <<Name("t", "js")>> \in Seq(SampleNames) /\ <<Name("u", "js")>> \in Seq(SampleNames)
        /\ <<Hacs>> \in Seq(SampleNames)
    BY DEF SampleNames
  <2> QED  BY <2>1, FileSampled
<1>6. Sampled([path |-> <<Top, Dir("link")>>, kind |-> "link", size |-> 0, says |-> Nothing])
  <2>1. <<Top, Dir("link")>> \in Seq(SampleNames) \ {<<>>} /\ <<Top, Dir("link")>>[1] = Top
    BY DEF SampleNames
  <2> QED  BY <2>1 DEF Sampled
<1>7. Sampled([path |-> <<Up, Dir("x")>>, kind |-> "file", size |-> 0, says |-> Nothing])
  <2>1. <<Up, Dir("x")>> \in Seq(SampleNames) \ {<<>>} /\ <<Up, Dir("x")>>[1] = Up
    BY DEF SampleNames
  <2> QED  BY <2>1 DEF Sampled
<1>8. \A m \in Components : Sampled(m)
  BY <1>1, <1>2, <1>3, Zenon DEF Components
<1>9. \A m \in SingleFiles : Sampled(m)
  BY <1>4, <1>5, Zenon DEF SingleFiles
<1>10. \A m \in OtherMembers : Sampled(m)
  BY <1>5, <1>6, <1>7, Zenon DEF OtherMembers
<1> QED  BY <1>8, <1>9, <1>10 DEF Members

LEMMA SamplesRegular ==
    ASSUME NEW archive \in Samples
    PROVE  Regular(archive, SampleNames)
<1>1. PICK n \in 0 .. MaxEntries + 1 : archive \in kSubset(n, Members)
  BY DEF Samples
<1>2. archive \subseteq Members /\ Cardinality(archive) = n
  BY <1>1 DEF kSubset
<1>3. IsFiniteSet(archive)
  <2>1. IsFiniteSet(Members)
    <3>1. \A a, b, c, d, e : /\ IsFiniteSet({a, b, c}) /\ IsFiniteSet({a, b, c, d})
                             /\ IsFiniteSet({a, b, c, d, e})
      <4> SUFFICES ASSUME NEW a, NEW b, NEW c, NEW d, NEW e
                   PROVE  /\ IsFiniteSet({a, b, c}) /\ IsFiniteSet({a, b, c, d})
                          /\ IsFiniteSet({a, b, c, d, e})
        OBVIOUS
      <4>1. IsFiniteSet({a})
        BY FS_Singleton
      <4>2. IsFiniteSet({a} \cup {b})
        BY <4>1, FS_AddElement
      <4>3. IsFiniteSet(({a} \cup {b}) \cup {c})
        BY <4>2, FS_AddElement
      <4>4. IsFiniteSet((({a} \cup {b}) \cup {c}) \cup {d})
        BY <4>3, FS_AddElement
      <4>5. IsFiniteSet(((({a} \cup {b}) \cup {c}) \cup {d}) \cup {e})
        BY <4>4, FS_AddElement
      <4>6. /\ {a, b, c} = ({a} \cup {b}) \cup {c} /\ {a, b, c, d} = (({a} \cup {b}) \cup {c}) \cup {d}
            /\ {a, b, c, d, e} = ((({a} \cup {b}) \cup {c}) \cup {d}) \cup {e}
        OBVIOUS
      <4> QED  BY <4>3, <4>4, <4>5, <4>6
    <3>2. IsFiniteSet(Components)
      BY <3>1, Zenon DEF Components
    <3>3. IsFiniteSet(SingleFiles)
      BY <3>1, Zenon DEF SingleFiles
    <3>4. IsFiniteSet(OtherMembers)
      BY <3>1, Zenon DEF OtherMembers
    <3>5. IsFiniteSet(Components \cup SingleFiles)
      BY <3>2, <3>3, FS_Union
    <3> QED  BY <3>4, <3>5, FS_Union DEF Members
  <2> QED  BY <1>2, <2>1, FS_Subset
<1>4. \A m \in archive : Sampled(m)
  BY <1>2, MembersSampled
<1>5. Shaped(archive, SampleNames) /\ OneTop(archive)
  BY <1>4 DEF Sampled, Shaped, OneTop
<1> QED  BY <1>3, <1>5 DEF Regular

\* ValidatedIsPlaceable: so it is in the run, with its samples and for any repositories whose
\* archives are in one directory; an unsafe domain, which the operator accepts and the script
\* refuses, is the one exception.
THEOREM ValidatedTheorem ==
    ASSUME NEW names, \A c \in Used, ref \in Refs : Regular(Archive[c][ref], names)
    PROVE  Spec => []ValidatedIsPlaceable
<1>1. Unplaceable = {}
  <2>1. \A c \in Categories, archive \in Samples : Placeable(c, archive)
    BY SamplesRegular, PlaceableTheorem
  <2> QED  BY <2>1 DEF Unplaceable
<1>2. UnplaceableRefs = {}
  <2>1. \A c \in Used, ref \in Refs : Placeable(c, Archive[c][ref])
    BY ConstantsAssumption, PlaceableTheorem
  <2> QED  BY <2>1 DEF UnplaceableRefs
<1>3. ValidatedIsPlaceable
  BY <1>1, <1>2 DEF ValidatedIsPlaceable
<1> QED  BY <1>3, PTL
=============================================================================
