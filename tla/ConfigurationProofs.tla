------------------------ MODULE ConfigurationProofs ------------------------
(***************************************************************************)
(* What the configuration controller keeps, for any number of edits and of *)
(* faults: its types; that the operator confirms no http configuration but *)
(* the one the resource asks for; and that a change that needs a restart   *)
(* is announced in the ConfigMap.  And of the two controllers that write   *)
(* the pod template: its types, and that neither takes back the other's    *)
(* changes.                                                                *)
(***************************************************************************)
EXTENDS ConfigReload, TLAPS

Hashes == Files \cup {NoFile}
Copies == [body : Bodies, http : Sections, hash : Hashes, condition : Conditions]
Maps == [file : Hashes, mark : Hashes]
Slots == [data : Settings, error : BOOLEAN] \cup {NotPending}
Paths == {"undetermined", "yaml", "api"}
Probes == [path : Paths, stable : Settings \cup {NoSettings}, pending : Slots]
Strategies == {"auto", "restart", "hot-reload", "off"}
Labels == {"Idle", "Write", "Decide", "Mark", "Deliver", "Save"}

\* The types, in parts.
SettingTyped == http \in BOOLEAN /\ exposed \in BOOLEAN /\ strategy \in Strategies
ConfTyped == conf \in Copies /\ confSeen \in Copies /\ confFresh \in BOOLEAN
MapTyped == cm \in Maps /\ cmSeen \in Maps /\ cmFresh \in BOOLEAN
RunTyped ==
    /\ pc \in Labels /\ mine \in Copies /\ valid \in BOOLEAN /\ old \in Hashes
    /\ probe \in Probes /\ (probe.path = "api" => probe.stable \in Settings)
HistoryTyped == owed \in Hashes /\ lost \in BOOLEAN /\ raced \in BOOLEAN
BoundsTyped == edits \in 0 .. MaxEdits /\ faults \in 0 .. MaxFaults
HttpTyped == up \in BOOLEAN /\ supported \in BOOLEAN /\ stable \in Settings /\ pending \in Slots
Current == (confFresh => confSeen = conf) /\ (cmFresh => cmSeen = cm)
Typed ==
    /\ SettingTyped /\ ConfTyped /\ MapTyped /\ RunTyped /\ HistoryTyped /\ BoundsTyped
    /\ HttpTyped /\ Current

LEMMA TypedMeans == Typed => TypeOK
<1> SUFFICES ASSUME Typed PROVE TypeOK
  OBVIOUS
<1>1. HttpTypeOK
  BY DEF Typed, HttpTyped, HttpTypeOK, Slots
<1>2. /\ {http, exposed, confFresh, cmFresh, valid, lost, raced} \subseteq BOOLEAN
      /\ strategy \in {"auto", "restart", "hot-reload", "off"}
  BY DEF Typed, SettingTyped, ConfTyped, MapTyped, RunTyped, HistoryTyped, Strategies
<1>3. {conf, confSeen, mine} \subseteq
         [body : Bodies, http : Sections, hash : Files \cup {NoFile}, condition : Conditions]
  BY DEF Typed, ConfTyped, RunTyped, Copies, Hashes
<1>4. {cm.file, cm.mark, cmSeen.file, cmSeen.mark, old, owed} \subseteq Files \cup {NoFile}
  BY DEF Typed, MapTyped, RunTyped, HistoryTyped, Maps, Hashes
<1> QED
  BY <1>1, <1>2, <1>3, <1>4 DEF Typed, Current, RunTyped, BoundsTyped, Labels, TypeOK

-----------------------------------------------------------------------------
(* What the building blocks make.                                           *)

LEMMA Distinct ==
    /\ NoSettings \notin Settings /\ NotPending.data = NoSettings /\ NotPending.error = FALSE
    /\ NotPending \in Slots /\ NoFile \notin Files /\ NoFile \in Hashes /\ Files \subseteq Hashes
  BY DEF NoSettings, Settings, NotPending, Slots, NoFile, Files, Bodies, Hashes

LEMMA BlankTyped == Blank \in Copies
  BY Distinct DEF Blank, Copies, Bodies, Sections, Conditions

LEMMA UnknownTyped == Unknown \in Probes /\ Unknown.path = "undetermined"
  BY Distinct DEF Unknown, Probes, Paths

LEMMA ProbedTyped ==
    ASSUME HttpTyped
    PROVE  Probed \in Probes /\ (Probed.path = "api" => /\ supported /\ Probed.stable = stable
                                                        /\ Probed.pending = pending)
<1>1. CASE ~up
  BY <1>1, UnknownTyped DEF Probed
<1>2. CASE up /\ ~supported
  BY <1>2, UnknownTyped DEF Probed, Probes, Paths
<1>3. CASE up /\ supported
  BY <1>3 DEF Probed, Probes, Paths, HttpTyped
<1> QED  BY <1>1, <1>2, <1>3

LEMMA SectionTyped == ASSUME NEW copy \in Copies PROVE Section(copy) \in Sections
  BY DEF Section, Injected, Sections, Copies

LEMMA FileTyped ==
    ASSUME NEW copy \in Copies, NEW found
    PROVE  File(copy, found) \in Files /\ File(copy, found).body = copy.body
  BY SectionTyped DEF File, Files, Stripped, Sections, Copies

LEMMA DesiredTyped ==
    ASSUME NEW section \in Sections, Readable(section), NEW current \in Settings
    PROVE  Desired(section, current) \in Settings
  BY DEF Desired, Settings, Sections, Readable, Canonical

LEMMA PendingTyped == ASSUME NEW data \in Settings PROVE Pending(data) \in Slots
  BY DEF Pending, Slots

LEMMA PromoteTyped == ASSUME HttpTyped, pending # NotPending PROVE pending.data \in Settings
  BY DEF HttpTyped, Slots

LEMMA SpendTyped == ASSUME BoundsTyped, Spend PROVE faults' \in 0 .. MaxFaults
  BY ConstantsAssumption DEF BoundsTyped, Spend

LEMMA RefusedTyped ==
    ASSUME BoundsTyped, NEW fresh, Refused(fresh)
    PROVE  faults' \in 0 .. MaxFaults
  BY SpendTyped DEF Refused, BoundsTyped

LEMMA IdleTyped == Idle => RunTyped'
  BY BlankTyped, UnknownTyped, Distinct DEF Idle, RunTyped, Labels

LEMMA GotoTyped == ASSUME RunTyped, NEW label \in Labels, Goto(label) PROVE RunTyped'
  BY DEF Goto, RunTyped

LEMMA WantTyped == ASSUME RunTyped PROVE Want \in Files /\ Want.body = mine.body
  BY FileTyped DEF Want, RunTyped

LEMMA FailTyped ==
    ASSUME Typed, Fail
    PROVE  RunTyped' /\ ConfTyped' /\ HistoryTyped' /\ (confFresh' => confSeen' = conf')
<1>1. RunTyped'
  BY IdleTyped DEF Fail
<1>2. ConfTyped' /\ (confFresh' => confSeen' = conf')
  BY DEF Typed, Fail, ConfTyped, Current
<1>3. HistoryTyped'
  BY WantTyped DEF Typed, Fail, HistoryTyped, Hashes
<1> QED  BY <1>1, <1>2, <1>3

LEMMA PutMapTyped ==
    ASSUME MapTyped, Current, NEW map \in Maps, PutMap(map)
    PROVE  MapTyped' /\ (cmFresh' => cmSeen' = cm')
  BY DEF PutMap, MapTyped, Current

LEMMA ConfigureTyped == ASSUME HttpTyped, NEW data \in Settings, Configure(data)
                        PROVE  up' \in BOOLEAN /\ stable' \in Settings /\ pending' \in Slots
<1>1. [data EXCEPT !.known = Normal(@)] \in Settings
  BY DEF Settings, Normal
<1> QED  BY <1>1, PendingTyped DEF Configure, HttpTyped

LEMMA DeliveryTyped ==
    ASSUME Typed, NEW condition, NEW fails, Delivery(probe, Section(mine), condition, fails)
    PROVE  HttpTyped'
<1> DEFINE wanted == Desired(Section(mine), probe.stable)
<1>0. HttpTyped /\ RunTyped /\ mine \in Copies
  BY DEF Typed, RunTyped
<1>1. Delivers(probe, Section(mine)) => wanted \in Settings
  BY <1>0, SectionTyped, DesiredTyped DEF Delivers, RunTyped
<1>2. UNCHANGED supported
  BY DEF Delivery
<1>3. \/ UNCHANGED httpVars \/ ClearPending \/ Promote
      \/ Delivers(probe, Section(mine)) /\ Configure(wanted)
  BY DEF Delivery
<1>4. CASE UNCHANGED httpVars
  BY <1>0, <1>4 DEF httpVars, slots, HttpTyped
<1>5. CASE ClearPending
  BY <1>0, <1>2, <1>5, Distinct DEF ClearPending, HttpTyped
<1>6. CASE Promote
  BY <1>0, <1>2, <1>6, Distinct, PromoteTyped DEF Promote, Promotes, HttpTyped
<1>7. CASE Delivers(probe, Section(mine)) /\ Configure(wanted)
  <2> HIDE DEF wanted
  <2> QED  BY <1>0, <1>1, <1>2, <1>7, ConfigureTyped DEF HttpTyped
<1> QED  BY <1>3, <1>4, <1>5, <1>6, <1>7

LEMMA RevertTyped == ASSUME HttpTyped, Revert PROVE HttpTyped'
  BY Distinct DEF Revert, HttpTyped

LEMMA UpgradeTyped == ASSUME HttpTyped, NEW inFile, Upgrade(inFile) PROVE HttpTyped'
<1>1. CASE stable' = stable
  BY <1>1 DEF Upgrade, HttpTyped
<1>2. CASE inFile \in {"bare", "proxies"} /\ stable' = [stable EXCEPT !.known = Normal(inFile)]
  <2>1. stable' \in Settings
    BY <1>2 DEF HttpTyped, Settings, Normal
  <2> QED  BY <2>1 DEF Upgrade, HttpTyped
<1> QED  BY <1>1, <1>2 DEF Upgrade

LEMMA UserTyped == ASSUME HttpTyped, UserConfigures \/ UserConfirms PROVE HttpTyped'
<1>1. CASE UserConfigures
  <2>1. [known : {"none", "network"}, extra : {0, 1}] \subseteq Settings
    BY DEF Settings
  <2> QED  BY <1>1, <2>1, PendingTyped DEF UserConfigures, HttpTyped
<1>2. CASE UserConfirms
  BY <1>2, Distinct, PromoteTyped DEF UserConfirms, Promote, Promotes, HttpTyped
<1> QED  BY <1>1, <1>2

-----------------------------------------------------------------------------
(* Type correctness.                                                        *)

LEMMA InitTyped == Init => Typed
<1> SUFFICES ASSUME Init PROVE Typed
  OBVIOUS
<1>1. SettingTyped
  BY DEF Init, SettingTyped, Strategies
<1>2. ConfTyped /\ MapTyped /\ Current
  BY BlankTyped, Distinct DEF Init, ConfTyped, MapTyped, Maps, Current
<1>3. RunTyped
  BY BlankTyped, UnknownTyped, Distinct DEF Init, RunTyped, Labels
<1>4. HistoryTyped
  BY Distinct DEF Init, HistoryTyped
<1>5. BoundsTyped
  BY ConstantsAssumption DEF Init, BoundsTyped
<1>6. HttpTyped
  BY Distinct DEF Init, HttpInit, HttpTyped, Settings
<1> QED  BY <1>1, <1>2, <1>3, <1>4, <1>5, <1>6 DEF Typed

LEMMA StartTyped == Typed /\ Start => Typed'
<1> SUFFICES ASSUME Typed, Start PROVE Typed'
  OBVIOUS
<1>1. UNCHANGED <<setting, confVars, cmVars, owed, raced, edits, httpVars>>
  BY DEF Start
<1>2. SettingTyped' /\ ConfTyped' /\ MapTyped' /\ HttpTyped' /\ Current'
  BY <1>1 DEF Typed, SettingTyped, ConfTyped, MapTyped, HttpTyped, Current, setting, confVars,
              cmVars, httpVars, slots
<1>3. mine' \in Copies /\ valid' \in BOOLEAN /\ old' \in Hashes /\ pc' \in Labels
  BY DEF Start, Typed, ConfTyped, MapTyped, Copies, Maps, Conditions, Labels
<1>4. probe' \in Probes /\ (probe'.path = "api" => probe'.stable \in Settings)
  BY ProbedTyped, UnknownTyped DEF Start, Typed, HttpTyped
<1>5. RunTyped'
  BY <1>3, <1>4 DEF RunTyped
<1>6. HistoryTyped'
  <2>1. owed' \in Hashes /\ raced' \in BOOLEAN
    BY <1>1 DEF Typed, HistoryTyped
  <2>2. lost' \in BOOLEAN
    BY DEF Start, Typed, HistoryTyped
  <2> QED  BY <2>1, <2>2 DEF HistoryTyped
<1>7. BoundsTyped'
  BY <1>1, SpendTyped DEF Start, Typed, BoundsTyped
<1> QED  BY <1>2, <1>5, <1>6, <1>7 DEF Typed

LEMMA WriteTyped == Typed /\ Write => Typed'
<1> SUFFICES ASSUME Typed, Write PROVE Typed'
  OBVIOUS
<1>1. UNCHANGED <<setting, edits, httpVars>>
  BY DEF Write
<1>2. SettingTyped' /\ HttpTyped'
  BY <1>1 DEF Typed, SettingTyped, HttpTyped, setting, httpVars, slots
<1>3. [cm EXCEPT !.file = Want] \in Maps
  BY WantTyped, Distinct DEF Typed, MapTyped, Maps
<1>4. UNCHANGED cmVars \/ PutMap([cm EXCEPT !.file = Want])
  BY DEF Write, Written
<1>5. MapTyped' /\ (cmFresh' => cmSeen' = cm')
  <2>1. CASE UNCHANGED cmVars
    BY <2>1 DEF Typed, MapTyped, Current, cmVars
  <2>2. CASE PutMap([cm EXCEPT !.file = Want])
    BY <1>3, <2>2, PutMapTyped DEF Typed
  <2> QED  BY <1>4, <2>1, <2>2
<1>6. Fail \/ ((Goto("Decide") \/ Goto("Deliver")) /\ UNCHANGED <<confVars, history>>)
  BY DEF Write
<1>7. RunTyped' /\ ConfTyped' /\ HistoryTyped' /\ (confFresh' => confSeen' = conf')
  <2>1. CASE Fail
    BY <2>1, FailTyped
  <2>2. CASE (Goto("Decide") \/ Goto("Deliver")) /\ UNCHANGED <<confVars, history>>
    <3>1. RunTyped'
      BY <2>2, GotoTyped DEF Typed, Labels
    <3> QED  BY <2>2, <3>1 DEF Typed, ConfTyped, HistoryTyped, Current, confVars, history
  <2> QED  BY <1>6, <2>1, <2>2
<1>8. BoundsTyped'
  BY <1>1, RefusedTyped DEF Write, Typed, BoundsTyped
<1> QED  BY <1>2, <1>5, <1>7, <1>8 DEF Typed, Current

LEMMA DecideTyped == Typed /\ Decide => Typed'
<1> SUFFICES ASSUME Typed, Decide PROVE Typed'
  OBVIOUS
<1>1. UNCHANGED <<setting, cmVars, edits, faults, httpVars>>
  BY DEF Decide
<1>2. SettingTyped' /\ HttpTyped' /\ MapTyped' /\ (cmFresh' => cmSeen' = cm') /\ BoundsTyped'
  BY <1>1 DEF Typed, SettingTyped, HttpTyped, MapTyped, Current, BoundsTyped, setting, cmVars,
              httpVars, slots
<1>3. Fail \/ ((Goto("Mark") \/ Goto("Deliver")) /\ UNCHANGED <<confVars, history>>)
  BY DEF Decide
<1>4. RunTyped' /\ ConfTyped' /\ HistoryTyped' /\ (confFresh' => confSeen' = conf')
  <2>1. CASE Fail
    BY <2>1, FailTyped
  <2>2. CASE (Goto("Mark") \/ Goto("Deliver")) /\ UNCHANGED <<confVars, history>>
    <3>1. RunTyped'
      BY <2>2, GotoTyped DEF Typed, Labels
    <3> QED  BY <2>2, <3>1 DEF Typed, ConfTyped, HistoryTyped, Current, confVars, history
  <2> QED  BY <1>3, <2>1, <2>2
<1> QED  BY <1>2, <1>4 DEF Typed, Current

LEMMA MarkTyped == Typed /\ Mark => Typed'
<1> SUFFICES ASSUME Typed, Mark PROVE Typed'
  OBVIOUS
<1>1. UNCHANGED <<setting, edits, httpVars>>
  BY DEF Mark
<1>2. SettingTyped' /\ HttpTyped'
  BY <1>1 DEF Typed, SettingTyped, HttpTyped, setting, httpVars, slots
<1>3. [cm EXCEPT !.mark = Want] \in Maps
  BY WantTyped, Distinct DEF Typed, MapTyped, Maps
<1>4. UNCHANGED cmVars \/ PutMap([cm EXCEPT !.mark = Want])
  BY DEF Mark
<1>5. MapTyped' /\ (cmFresh' => cmSeen' = cm')
  <2>1. CASE UNCHANGED cmVars
    BY <2>1 DEF Typed, MapTyped, Current, cmVars
  <2>2. CASE PutMap([cm EXCEPT !.mark = Want])
    BY <1>3, <2>2, PutMapTyped DEF Typed
  <2> QED  BY <1>4, <2>1, <2>2
<1>6. Fail \/ (Goto("Deliver") /\ UNCHANGED <<confVars, history>>)
  BY DEF Mark
<1>7. RunTyped' /\ ConfTyped' /\ HistoryTyped' /\ (confFresh' => confSeen' = conf')
  <2>1. CASE Fail
    BY <2>1, FailTyped
  <2>2. CASE Goto("Deliver") /\ UNCHANGED <<confVars, history>>
    <3>1. RunTyped'
      BY <2>2, GotoTyped DEF Typed, Labels
    <3> QED  BY <2>2, <3>1 DEF Typed, ConfTyped, HistoryTyped, Current, confVars, history
  <2> QED  BY <1>6, <2>1, <2>2
<1>8. BoundsTyped'
  BY <1>1, RefusedTyped DEF Mark, Typed, BoundsTyped
<1> QED  BY <1>2, <1>5, <1>7, <1>8 DEF Typed, Current

LEMMA DeliverTyped == Typed /\ Deliver => Typed'
<1> SUFFICES ASSUME Typed, Deliver PROVE Typed'
  OBVIOUS
<1>1. PICK condition \in Conditions, fails \in BOOLEAN :
          /\ Delivery(probe, Section(mine), condition, fails)
          /\ mine' = [mine EXCEPT !.condition = condition]
          /\ IF fails THEN Spend ELSE UNCHANGED faults
  BY DEF Deliver
<1>2. /\ pc' = "Save" /\ raced' = FALSE
      /\ UNCHANGED <<setting, confVars, cmVars, valid, old, probe, owed, lost, edits>>
  BY DEF Deliver
<1>3. SettingTyped' /\ ConfTyped' /\ MapTyped' /\ Current' /\ HistoryTyped'
  BY <1>2 DEF Typed, SettingTyped, ConfTyped, MapTyped, Current, HistoryTyped, setting,
              confVars, cmVars
<1>4. mine' \in Copies
  BY <1>1 DEF Typed, RunTyped, Copies
<1>5. RunTyped'
  BY <1>2, <1>4 DEF Typed, RunTyped, Labels
<1>6. HttpTyped'
  BY <1>1, DeliveryTyped
<1>7. BoundsTyped'
  BY <1>1, <1>2, SpendTyped DEF Typed, BoundsTyped
<1> QED  BY <1>3, <1>5, <1>6, <1>7 DEF Typed

LEMMA SaveTyped == Typed /\ Save => Typed'
<1> SUFFICES ASSUME Typed, Save PROVE Typed'
  OBVIOUS
<1>1. UNCHANGED <<setting, cmVars, edits, httpVars>>
  BY DEF Save
<1>2. SettingTyped' /\ HttpTyped' /\ MapTyped' /\ (cmFresh' => cmSeen' = cm')
  BY <1>1 DEF Typed, SettingTyped, HttpTyped, MapTyped, Current, setting, cmVars, httpVars,
              slots
<1>3. BoundsTyped'
  BY <1>1, RefusedTyped DEF Save, Typed, BoundsTyped
<1>4. RunTyped' /\ ConfTyped' /\ HistoryTyped' /\ (confFresh' => confSeen' = conf')
  <2>1. CASE Refused(valid) /\ Fail
    BY <2>1, FailTyped
  <2>2. CASE /\ valid /\ Idle
             /\ conf' = [conf EXCEPT !.hash = Want, !.condition = mine.condition]
             /\ confFresh' = (confFresh /\ conf' = conf) /\ UNCHANGED <<confSeen, faults>>
             /\ owed' = IF cm.file = Want THEN NoFile ELSE owed
             /\ raced' = FALSE /\ UNCHANGED lost
    <3>1. conf' \in Copies
      BY <2>2, WantTyped, Distinct DEF Typed, ConfTyped, RunTyped, Copies
    <3>2. ConfTyped' /\ (confFresh' => confSeen' = conf')
      BY <2>2, <3>1 DEF Typed, ConfTyped, Current
    <3>3. HistoryTyped'
      BY <2>2, Distinct DEF Typed, HistoryTyped
    <3> QED  BY <2>2, <3>2, <3>3, IdleTyped
  <2> QED  BY <2>1, <2>2 DEF Save
<1> QED  BY <1>2, <1>3, <1>4 DEF Typed, Current

LEMMA EditTyped == Typed /\ Edit => Typed'
<1> SUFFICES ASSUME Typed, Edit PROVE Typed'
  OBVIOUS
<1>1. PICK body \in Bodies, section \in Sections :
          conf' = [conf EXCEPT !.body = body, !.http = section]
  BY DEF Edit
<1>2. /\ edits < MaxEdits /\ edits' = edits + 1 /\ confFresh' = FALSE /\ valid' = FALSE
      /\ UNCHANGED <<setting, confSeen, cmVars, pc, mine, old, probe, history, faults, httpVars>>
  BY DEF Edit
<1>3. conf' \in Copies
  BY <1>1 DEF Typed, ConfTyped, Copies
<1>4. SettingTyped' /\ MapTyped' /\ HistoryTyped' /\ HttpTyped'
  BY <1>2 DEF Typed, SettingTyped, MapTyped, HistoryTyped, HttpTyped, setting, cmVars, history,
              httpVars, slots
<1>7. RunTyped'
  BY <1>2 DEF Typed, RunTyped
<1>5. ConfTyped' /\ Current'
  BY <1>2, <1>3 DEF Typed, ConfTyped, Current, cmVars
<1>6. BoundsTyped'
  BY <1>2, ConstantsAssumption DEF Typed, BoundsTyped
<1> QED  BY <1>4, <1>5, <1>6, <1>7 DEF Typed

LEMMA TamperTyped == Typed /\ Tamper => Typed'
<1> SUFFICES ASSUME Typed, Tamper PROVE Typed'
  OBVIOUS
<1>1. PICK body \in Bodies : cm' = [cm EXCEPT !.file.body = body]
  BY DEF Tamper
<1>2. /\ cm.file # NoFile /\ Spend /\ lost' = TRUE /\ cmFresh' = FALSE
      /\ UNCHANGED <<setting, confVars, cmSeen, run, owed, raced, edits, httpVars>>
  BY DEF Tamper
<1>3. [cm.file EXCEPT !.body = body] \in Files
  BY <1>2 DEF Typed, MapTyped, Maps, Hashes, Files
<1>4. cm' \in Maps
  BY <1>1, <1>3, Distinct DEF Typed, MapTyped, Maps
<1>5. SettingTyped' /\ ConfTyped' /\ RunTyped' /\ HttpTyped'
  BY <1>2 DEF Typed, SettingTyped, ConfTyped, RunTyped, HttpTyped, setting, confVars, run,
              httpVars, slots
<1>6. MapTyped' /\ Current' /\ HistoryTyped'
  BY <1>2, <1>4 DEF Typed, MapTyped, Current, HistoryTyped, confVars
<1>7. BoundsTyped'
  BY <1>2, SpendTyped DEF Typed, BoundsTyped
<1> QED  BY <1>5, <1>6, <1>7 DEF Typed

LEMMA ObserveTyped == Typed /\ (ObserveConf \/ ObserveMap) => Typed'
<1> SUFFICES ASSUME Typed, ObserveConf \/ ObserveMap PROVE Typed'
  OBVIOUS
<1>1. /\ UNCHANGED <<setting, conf, cm, run, history, edits, faults, httpVars>>
      /\ \/ UNCHANGED cmVars /\ confSeen' = conf /\ confFresh' = TRUE
         \/ UNCHANGED confVars /\ cmSeen' = cm /\ cmFresh' = TRUE
  BY DEF ObserveConf, ObserveMap, cmVars, confVars
<1>2. SettingTyped' /\ RunTyped' /\ HistoryTyped' /\ BoundsTyped' /\ HttpTyped'
  BY <1>1 DEF Typed, SettingTyped, RunTyped, HistoryTyped, BoundsTyped, HttpTyped, setting, run,
              history, httpVars, slots
<1>3. ConfTyped' /\ MapTyped' /\ Current'
  <2>1. CASE UNCHANGED cmVars /\ confSeen' = conf /\ confFresh' = TRUE
    BY <1>1, <2>1 DEF Typed, ConfTyped, MapTyped, Current, cmVars
  <2>2. CASE UNCHANGED confVars /\ cmSeen' = cm /\ cmFresh' = TRUE
    BY <1>1, <2>2 DEF Typed, ConfTyped, MapTyped, Current, confVars
  <2> QED  BY <1>1, <2>1, <2>2
<1> QED  BY <1>2, <1>3 DEF Typed

LEMMA CrashTyped == Typed /\ Crash => Typed'
<1> SUFFICES ASSUME Typed, Crash PROVE Typed'
  OBVIOUS
<1>1. Spend /\ Fail /\ UNCHANGED <<setting, cmVars, edits, httpVars>>
  BY DEF Crash
<1>2. SettingTyped' /\ HttpTyped' /\ MapTyped' /\ (cmFresh' => cmSeen' = cm')
  BY <1>1 DEF Typed, SettingTyped, HttpTyped, MapTyped, Current, setting, cmVars, httpVars,
              slots
<1>3. BoundsTyped'
  BY <1>1, SpendTyped DEF Typed, BoundsTyped
<1> QED  BY <1>1, <1>2, <1>3, FailTyped DEF Typed, Current

LEMMA OutsideTyped == Typed /\ (Instance \/ Meddle) => Typed'
<1> SUFFICES ASSUME Typed, Instance \/ Meddle PROVE Typed'
  OBVIOUS
<1>1. UNCHANGED <<setting, confVars, cmVars, run, owed, lost, edits>>
  BY DEF Instance, Meddle, history
<1>2. SettingTyped' /\ ConfTyped' /\ MapTyped' /\ RunTyped' /\ Current'
  BY <1>1 DEF Typed, SettingTyped, ConfTyped, MapTyped, RunTyped, Current, setting, confVars,
              cmVars, run
<1>3. raced' \in BOOLEAN /\ faults' \in 0 .. MaxFaults
  BY SpendTyped DEF Instance, Meddle, history, Typed, HistoryTyped, BoundsTyped
<1>4. HttpTyped
  BY DEF Typed
<1>5. HttpTyped'
  <2>1. CASE Restarted \/ GoesDown
    BY <1>4, <2>1 DEF Restarted, GoesDown, HttpTyped, slots
  <2>2. CASE Revert
    BY <1>4, <2>2, RevertTyped
  <2>3. CASE Upgrade(cm.file.http)
    BY <1>4, <2>3, UpgradeTyped
  <2>4. CASE UserConfigures \/ UserConfirms
    BY <1>4, <2>4, UserTyped
  <2> QED  BY <2>1, <2>2, <2>3, <2>4 DEF Instance, Meddle
<1> QED  BY <1>1, <1>2, <1>3, <1>5 DEF Typed, HistoryTyped, BoundsTyped

LEMMA NextTyped == Typed /\ [Next]_vars => Typed'
<1> SUFFICES ASSUME Typed, [Next]_vars PROVE Typed'
  OBVIOUS
<1>1. CASE UNCHANGED vars
  BY <1>1 DEF vars, moving, setting, confVars, cmVars, run, history, httpVars, slots, Typed,
              SettingTyped, ConfTyped, MapTyped, RunTyped, HistoryTyped, BoundsTyped, HttpTyped,
              Current
<1>2. CASE Next
  BY <1>2, StartTyped, WriteTyped, DecideTyped, MarkTyped, DeliverTyped, SaveTyped, EditTyped,
     TamperTyped, ObserveTyped, CrashTyped, OutsideTyped DEF Next, Step
<1> QED  BY <1>1, <1>2

-----------------------------------------------------------------------------
(* The configuration that is confirmed.                                     *)

\* Until the delivery, nobody but a user, which raced records, changes what the operator
\* has seen of the slots, other than by dropping what is pending.
Kept ==
    pc \notin {"Idle", "Save"} /\ ~raced /\ probe.path = "api"
    => supported /\ stable = probe.stable /\ pending \in {probe.pending, NotPending}
NoRace == pc = "Idle" => ~raced

LEMMA InitKept == Init => Kept /\ NoRace
  BY DEF Init, Kept, NoRace

LEMMA NextKept == Typed /\ Kept /\ NoRace /\ [Next]_vars => Kept' /\ NoRace'
<1> SUFFICES ASSUME Typed, Kept, NoRace, [Next]_vars PROVE Kept' /\ NoRace'
  OBVIOUS
<1>1. CASE Start
  <2>1. /\ pc' = "Write" /\ UNCHANGED httpVars
        /\ probe' = Probed \/ probe' = Unknown
    BY <1>1 DEF Start
  <2>2. probe'.path = "api" => supported /\ stable = probe'.stable /\ pending = probe'.pending
    BY <2>1, ProbedTyped, UnknownTyped DEF Typed
  <2> QED  BY <2>1, <2>2 DEF Kept, NoRace, httpVars, slots
<1>2. CASE Write \/ Decide \/ Mark
  <2>1. /\ UNCHANGED httpVars /\ pc \notin {"Idle", "Save"}
        /\ (Fail \/ (UNCHANGED <<probe, history>> /\ pc' # "Idle"))
    BY <1>2 DEF Write, Decide, Mark, Goto
  <2> QED  BY <2>1 DEF Fail, Idle, Kept, NoRace, httpVars, slots, history
<1>3. CASE Deliver
  BY <1>3 DEF Deliver, Kept, NoRace
<1>4. CASE Save
  BY <1>4 DEF Save, Fail, Idle, Kept, NoRace
<1>5. CASE ObserveConf \/ ObserveMap \/ Edit \/ Tamper \/ UNCHANGED vars
  <2>1. UNCHANGED <<pc, probe, raced, httpVars>>
    BY <1>5 DEF ObserveConf, ObserveMap, Edit, Tamper, vars, moving, run, history
  <2> QED  BY <2>1 DEF Kept, NoRace, httpVars, slots
<1>6. CASE Crash
  BY <1>6 DEF Crash, Fail, Idle, Kept, NoRace
<1>7. CASE Instance
  <2>1. UNCHANGED <<pc, probe, raced>> /\ UNCHANGED <<supported, stable>>
        /\ pending' \in {pending, NotPending}
    BY <1>7 DEF Instance, Restarted, Revert, run, history, slots
  <2> QED  BY <2>1 DEF Kept, NoRace
<1>8. CASE Meddle
  <2>1. UNCHANGED <<pc, probe>>
    BY <1>8 DEF Meddle, run
  <2>2. CASE (Revert \/ GoesDown \/ Upgrade(cm.file.http)) /\ UNCHANGED raced
    <3>1. \/ UNCHANGED <<supported, stable>> /\ pending' \in {pending, NotPending}
          \/ ~supported
      BY <2>2 DEF Revert, GoesDown, Upgrade, slots
    <3> QED  BY <2>1, <2>2, <3>1 DEF Kept, NoRace
  <2>3. CASE raced' = (pc # "Idle")
    BY <2>1, <2>3 DEF Kept, NoRace
  <2> QED  BY <1>8, <2>2, <2>3 DEF Meddle
<1> QED  BY <1>1, <1>2, <1>3, <1>4, <1>5, <1>6, <1>7, <1>8 DEF Next, Step

\* The step from the delivery is the delivery.
LEMMA DeliveryStep == ASSUME [Next]_vars, pc = "Deliver", pc' = "Save" PROVE Deliver
<1>1. ~(Start \/ Write \/ Decide \/ Mark \/ Save)
  BY DEF Start, Write, Decide, Mark, Save
<1>2. ~(ObserveConf \/ ObserveMap \/ Edit \/ Tamper \/ UNCHANGED vars \/ Instance \/ Meddle)
  BY DEF ObserveConf, ObserveMap, Edit, Tamper, vars, moving, run, Instance, Meddle
<1>3. ~Crash
  BY DEF Crash, Fail, Idle
<1> QED  BY <1>1, <1>2, <1>3 DEF Next, Step

LEMMA OwnPromoted ==
    ASSUME Kept, Deliver, ~raced, stable' # stable
    PROVE  stable' = Desired(Section(mine), stable)
<1> DEFINE wanted == Desired(Section(mine), probe.stable)
<1>1. PICK condition \in Conditions, fails \in BOOLEAN :
          Delivery(probe, Section(mine), condition, fails)
  BY DEF Deliver
<1>2. /\ Delivers(probe, Section(mine)) /\ Verdict(probe, wanted) = "promote" /\ Promote
  <2>1. ~UNCHANGED httpVars /\ ~ClearPending /\ ~Configure(wanted)
    BY DEF httpVars, slots, ClearPending, Configure
  <2> QED  BY <1>1, <2>1 DEF Delivery
<1>3. probe.pending.data = wanted
  BY <1>2 DEF Verdict
<1>4. pending # NotPending /\ stable' = pending.data
  BY <1>2 DEF Promote, Promotes
<1>5. stable = probe.stable /\ pending \in {probe.pending, NotPending}
  BY <1>2 DEF Kept, Deliver, Delivers
<1> QED  BY <1>3, <1>4, <1>5

-----------------------------------------------------------------------------
(* Behaviours without an http section, which are those of the strategies.   *)

Bare(body) == [body |-> body, http |-> "none"]
Goal == Bare(mine.body)

\* Nothing is ever delivered through the API.
NoSection ==
    /\ ~exposed /\ ~supported /\ probe.path # "api"
    /\ conf.http = "none" /\ confSeen.http = "none" /\ mine.http = "none"

\* A copy without the latest hash was read before that one was recorded, for its own body.
Versions ==
    /\ confSeen.hash # conf.hash => conf.hash = Bare(confSeen.body)
    /\ pc # "Idle" /\ mine.hash # conf.hash => conf.hash = Goal
    /\ pc # "Idle" /\ valid => confFresh /\ mine.body = conf.body /\ mine.hash = conf.hash

Plain == IF http THEN lost ELSE NoSection /\ Versions

LEMMA FilePlain ==
    ASSUME NEW copy \in Copies, NEW found, found.path # "api", ~exposed, copy.http = "none"
    PROVE  File(copy, found) = Bare(copy.body)
  BY DEF File, Stripped, Delivers, Section, Injected, Bare

LEMMA WantPlain == ASSUME Typed, NoSection PROVE Want = Goal
  BY FilePlain DEF Typed, RunTyped, NoSection, Want, Goal

LEMMA BeforePlain == ASSUME Typed, NoSection PROVE Before = old /\ ~SwitchOnly
<1>1. Stripped(probe, Section(mine), old.http) = old.http
  BY DEF NoSection, Stripped, Delivers
<1>2. Before = [old EXCEPT !.http = old.http]
  BY <1>1 DEF Before
<1>3. old \in [body : Bodies \cup {-1}, http : Sections]
  BY DEF Typed, RunTyped, Hashes, Files, NoFile, Sections
<1>4. Before = old
  BY <1>2, <1>3
<1> QED  BY <1>4 DEF SwitchOnly

LEMMA BareIsFile == ASSUME NEW body \in Bodies PROVE Bare(body) \in Files /\ Bare(body) # NoFile
  BY DEF Bare, Files, Sections, NoFile, Bodies

LEMMA InitPlain == Init => Plain
<1> SUFFICES ASSUME Init PROVE Plain
  OBVIOUS
<1>1. CASE http
  BY <1>1 DEF Init, Plain
<1>2. CASE ~http
  <2>1. NoSection
    BY <1>2, UnknownTyped DEF Init, NoSection, Blank
  <2>2. Versions
    BY DEF Init, Versions
  <2> QED  BY <1>2, <2>1, <2>2 DEF Plain
<1> QED  BY <1>1, <1>2

LEMMA IdlePlain == ASSUME Idle PROVE pc' = "Idle" /\ probe'.path # "api" /\ mine'.http = "none"
  BY UnknownTyped DEF Idle, Blank

LEMMA FailPlain ==
    ASSUME Typed, NoSection, Versions, Fail, UNCHANGED <<setting, httpVars>>
    PROVE  NoSection' /\ Versions'
<1>1. /\ UNCHANGED <<conf, confSeen, exposed, supported>> /\ Idle
  BY DEF Fail, setting, httpVars
<1> QED  BY <1>1, IdlePlain DEF NoSection, Versions

LEMMA LostStays == ASSUME [Next]_vars, lost PROVE lost'
<1>1. CASE Write \/ Decide \/ Mark \/ Save \/ Crash
  <2>1. Fail \/ UNCHANGED lost
    BY <1>1 DEF Write, Decide, Mark, Save, Crash, history
  <2> QED  BY <2>1 DEF Fail
<1>2. CASE Start \/ Deliver \/ Tamper
  BY <1>2 DEF Start, Deliver, Tamper
<1>3. CASE ObserveConf \/ ObserveMap \/ Edit \/ Instance \/ Meddle \/ UNCHANGED vars
  BY <1>3 DEF ObserveConf, ObserveMap, Edit, Instance, Meddle, vars, moving, history
<1> QED  BY <1>1, <1>2, <1>3 DEF Next, Step

LEMMA NextPlain == Typed /\ Plain /\ [Next]_vars => Plain'
<1> SUFFICES ASSUME Typed, Plain, [Next]_vars PROVE Plain'
  OBVIOUS
<1>1. UNCHANGED setting
  BY DEF Next, Step, Start, Write, Decide, Mark, Deliver, Save, ObserveConf, ObserveMap, Edit,
         Tamper, Crash, Instance, Meddle, vars
<1>2. CASE http
  <2>1. lost'
    BY <1>2, LostStays DEF Plain
  <2> QED  BY <1>1, <1>2, <2>1 DEF Plain, setting
<1>3. CASE ~http
  <2>0. NoSection /\ Versions /\ ~http'
    BY <1>1, <1>3 DEF Plain, setting
  <2> SUFFICES NoSection' /\ Versions'
    BY <2>0 DEF Plain
  <2>1. CASE Start
    <3>1. /\ UNCHANGED <<setting, confVars, httpVars>> /\ valid' = confFresh
          /\ mine' = [confSeen EXCEPT !.condition = "none"]
          /\ probe' = Probed \/ probe' = Unknown
      BY <2>1 DEF Start
    <3>2. mine'.http = confSeen.http /\ mine'.body = confSeen.body /\ mine'.hash = confSeen.hash
      BY <3>1 DEF Typed, ConfTyped, Copies
    <3>3. NoSection'
      BY <2>0, <3>1, <3>2, ProbedTyped, UnknownTyped
         DEF NoSection, Typed, setting, confVars, httpVars
    <3>4. Versions'
      BY <2>0, <3>1, <3>2 DEF Versions, Typed, Current, confVars, Goal
    <3> QED  BY <3>3, <3>4
  <2>2. CASE Write \/ Decide \/ Mark
    <3>1. UNCHANGED <<setting, httpVars>> /\ pc # "Idle"
      BY <2>2 DEF Write, Decide, Mark
    <3>2. Fail \/ UNCHANGED <<confVars, mine, valid, probe>>
      BY <2>2 DEF Write, Decide, Mark, Goto
    <3>3. CASE UNCHANGED <<confVars, mine, valid, probe>>
      BY <2>0, <3>1, <3>3 DEF NoSection, Versions, setting, confVars, httpVars, Goal
    <3> QED  BY <2>0, <3>1, <3>2, <3>3, FailPlain
  <2>3. CASE Deliver
    <3>1. /\ UNCHANGED <<setting, confVars, valid, probe>> /\ pc = "Deliver"
          /\ \E condition \in Conditions, fails \in BOOLEAN :
                /\ Delivery(probe, Section(mine), condition, fails)
                /\ mine' = [mine EXCEPT !.condition = condition]
      BY <2>3 DEF Deliver
    <3>2. UNCHANGED supported
      BY <3>1 DEF Delivery
    <3>3. mine'.http = mine.http /\ mine'.body = mine.body /\ mine'.hash = mine.hash
      BY <3>1 DEF Typed, RunTyped, Copies
    <3> QED  BY <2>0, <3>1, <3>2, <3>3 DEF NoSection, Versions, setting, confVars, Goal
  <2>4. CASE Save
    <3>1. UNCHANGED <<setting, httpVars>> /\ pc = "Save"
      BY <2>4 DEF Save
    <3>2. CASE Fail
      BY <2>0, <3>1, <3>2, FailPlain
    <3>3. CASE /\ valid /\ Idle /\ UNCHANGED confSeen
               /\ conf' = [conf EXCEPT !.hash = Want, !.condition = mine.condition]
      <4>1. conf'.http = conf.http /\ conf'.hash = Goal
        BY <2>0, <3>3, WantPlain DEF Typed, ConfTyped, Copies
      <4>2. confSeen.body = mine.body
        BY <2>0, <3>1, <3>3 DEF Versions, Typed, Current
      <4>3. NoSection'
        BY <2>0, <3>1, <3>3, <4>1, IdlePlain DEF NoSection, setting, httpVars
      <4>4. Versions'
        BY <3>3, <4>1, <4>2, IdlePlain DEF Versions, Goal
      <4> QED  BY <4>3, <4>4
    <3> QED  BY <2>4, <3>2, <3>3 DEF Save
  <2>5. CASE Edit
    <3>1. PICK body \in Bodies, section \in Sections :
              section = "none" /\ conf' = [conf EXCEPT !.body = body, !.http = section]
      BY <1>3, <2>5 DEF Edit
    <3>2. conf'.http = "none" /\ conf'.hash = conf.hash
      BY <3>1 DEF Typed, ConfTyped, Copies
    <3>3. valid' = FALSE /\ UNCHANGED <<setting, confSeen, pc, mine, probe, httpVars>>
      BY <2>5 DEF Edit
    <3> QED  BY <2>0, <3>2, <3>3 DEF NoSection, Versions, setting, httpVars, Goal
  <2>6. CASE ObserveConf
    <3>1. /\ confSeen' = conf /\ confFresh' = TRUE
          /\ UNCHANGED <<setting, conf, pc, mine, valid, probe, httpVars>>
      BY <2>6 DEF ObserveConf, run
    <3> QED  BY <2>0, <3>1 DEF NoSection, Versions, setting, httpVars, Goal
  <2>7. CASE ObserveMap \/ Tamper \/ UNCHANGED vars
    <3>1. UNCHANGED <<setting, confVars, pc, mine, valid, probe, httpVars>>
      BY <2>7 DEF ObserveMap, Tamper, vars, moving, run
    <3> QED  BY <2>0, <3>1 DEF NoSection, Versions, setting, confVars, httpVars, Goal
  <2>8. CASE Crash
    BY <2>0, <2>8, FailPlain DEF Crash
  <2>9. CASE Instance \/ Meddle
    <3>1. UNCHANGED <<setting, confVars, pc, mine, valid, probe, supported>>
      BY <1>3, <2>9 DEF Instance, Meddle, Restarted, Revert, run
    <3> QED  BY <2>0, <3>1 DEF NoSection, Versions, setting, confVars, Goal
  <2> QED  BY <2>1, <2>2, <2>3, <2>4, <2>5, <2>6, <2>7, <2>8, <2>9 DEF Next, Step
<1> QED  BY <1>2, <1>3

-----------------------------------------------------------------------------
(* What is announced.                                                       *)

Applies == ~lost /\ strategy \in {"auto", "restart"}
Same(file, other) == file # NoFile /\ other # NoFile /\ Core(file.body) = Core(other.body)

\* Nothing is in the open: the ConfigMap's file, its annotation and the recorded hash have one
\* critical part, or there is no file yet.
Steady ==
    \/ cm.file = NoFile /\ cm.mark = NoFile /\ conf.hash = NoFile
    \/ Same(cm.mark, cm.file) /\ Same(cm.mark, conf.hash)

\* The cache is one write behind, and shows a file that was announced.
Behind ==
    /\ cmSeen.file = cm.file \/ cmSeen.mark = cm.mark
    /\ cmSeen.file # cm.file => cmSeen.file = NoFile \/ Same(cm.mark, cmSeen.file)
    /\ cmSeen.mark # cm.mark => Same(cm.mark, cm.file)
\* A file that was written in vain is in the ConfigMap, and is the one that is tried again;
\* a file whose hash is recorded was announced.
Owing == owed = NoFile \/ (owed = cm.file /\ (pc # "Idle" => owed = Goal))
Recorded == conf.hash = cm.file /\ conf.hash # NoFile => Same(cm.mark, cm.file)
Settled == owed = NoFile /\ pc \in {"Idle", "Write"} => Steady
\* Once it is written, the file is the one that is wanted, or at least as critical; when the
\* choice of the strategy is behind, it was announced.
After == {"Decide", "Mark", "Deliver", "Save"}
InPlace ==
    pc \in After => /\ Same(cm.file, Goal)
                    /\ cm.file = Goal \/ (owed = NoFile /\ Steady)
Marked == pc \in {"Deliver", "Save"} => Same(cm.mark, Goal)
\* The file that was there before was announced, if it is not the one that is tried again.
Ago == pc \in {"Write", "Decide"} /\ old \notin {NoFile, Goal} => Same(cm.mark, old)

Announced == Behind /\ Owing /\ Recorded /\ Settled /\ InPlace /\ Marked /\ Ago
Announcing == Applies => Announced

LEMMA SameFiles ==
    ASSUME NEW f, NEW g, NEW h
    PROVE  /\ f # NoFile => Same(f, f)
           /\ Same(f, g) => Same(g, f) /\ f # NoFile /\ g # NoFile
           /\ Same(f, g) /\ Same(g, h) => Same(f, h)
  BY DEF Same

\* What the announcements depend on.
scene == <<conf.hash, cm, cmSeen, pc, mine.body, old, owed>>

LEMMA AnnouncedStays == ASSUME Announced, UNCHANGED scene PROVE Announced'
<1>1. /\ conf'.hash = conf.hash /\ cm' = cm /\ cmSeen' = cmSeen /\ pc' = pc
      /\ Goal' = Goal /\ old' = old /\ owed' = owed
  BY DEF scene, Goal, Bare
<1>2. Steady' = Steady
  BY <1>1 DEF Steady
<1>3. Behind' /\ Owing' /\ Recorded' /\ Settled'
  BY <1>1, <1>2 DEF Announced, Behind, Owing, Recorded, Settled
<1>4. InPlace' /\ Marked' /\ Ago'
  BY <1>1, <1>2 DEF Announced, InPlace, Marked, Ago
<1> QED  BY <1>3, <1>4 DEF Announced

LEMMA GoalIsFile == ASSUME Typed PROVE Goal \in Files /\ Goal # NoFile /\ Same(Goal, Goal)
<1>1. Goal \in Files /\ Goal # NoFile
  BY BareIsFile DEF Typed, RunTyped, Copies, Goal
<1> QED  BY <1>1, SameFiles

\* An error in a reconcile leaves the file it has written as owed.
LEMMA FailAnnounced ==
    ASSUME Typed, NoSection, ~lost, Announced, pc # "Idle", Fail, UNCHANGED cmVars
    PROVE  Announced'
<1>1. /\ pc' = "Idle" /\ conf' = conf /\ cm' = cm /\ cmSeen' = cmSeen
      /\ owed' = IF cm.file = Goal THEN Goal ELSE owed
  BY WantPlain DEF Fail, Idle, cmVars
<1>2. Steady' = Steady
  BY <1>1 DEF Steady
<1>3. Behind' /\ Recorded'
  BY <1>1 DEF Announced, Behind, Recorded
<1>4. Owing'
  BY <1>1 DEF Announced, Owing
<1>5. Settled'
  <2> SUFFICES ASSUME owed' = NoFile PROVE Steady
    BY <1>2 DEF Settled
  <2>1. cm.file # Goal /\ owed = NoFile
    BY <1>1, GoalIsFile
  <2>2. pc = "Write" \/ pc \in After
    BY DEF Typed, RunTyped, Labels, After
  <2> QED  BY <2>1, <2>2 DEF Announced, Settled, InPlace
<1>6. InPlace' /\ Marked' /\ Ago'
  BY <1>1 DEF InPlace, Marked, Ago, After
<1> QED  BY <1>3, <1>4, <1>5, <1>6 DEF Announced

LEMMA StartAnnounced ==
    ASSUME Typed, Typed', NoSection, NoSection', Versions, Announced, Start, ~lost'
    PROVE  Announced'
<1>1. /\ pc = "Idle" /\ pc' = "Write" /\ UNCHANGED <<confVars, cmVars, owed>>
      /\ old' = cmSeen.file /\ mine' = [confSeen EXCEPT !.condition = "none"]
      /\ owed \in {NoFile, File(confSeen, probe')} /\ UNCHANGED setting
  BY DEF Start
<1>2. mine'.body = confSeen.body
  BY <1>1 DEF Typed, ConfTyped, Copies
<1>3. File(confSeen, probe') = Goal'
  <2>1. probe'.path # "api" /\ ~exposed /\ confSeen.http = "none" /\ confSeen \in Copies
    BY DEF NoSection, Typed, ConfTyped
  <2> QED  BY <1>2, <2>1, FilePlain DEF Goal
<1>4. owed \in {NoFile, Goal'} /\ cm' = cm /\ cmSeen' = cmSeen /\ conf' = conf /\ owed' = owed
  BY <1>1, <1>3 DEF confVars, cmVars
<1>5. Steady' = Steady
  BY <1>4 DEF Steady
<1>6. Behind' /\ Recorded'
  BY <1>4 DEF Announced, Behind, Recorded
<1>7. Owing' /\ Settled'
  BY <1>1, <1>4, <1>5 DEF Announced, Owing, Settled
<1>8. Ago'
  <2> SUFFICES ASSUME old' \notin {NoFile, Goal'} PROVE Same(cm.mark, cmSeen.file)
    BY <1>1, <1>4 DEF Ago
  <2>1. CASE cmSeen.file # cm.file
    BY <1>1, <2>1 DEF Announced, Behind
  <2>2. CASE cmSeen.file = cm.file
    <3>1. cm.file \notin {NoFile, Goal'}
      BY <1>1, <2>2
    <3>2. owed = NoFile
      BY <1>4, <3>1 DEF Announced, Owing
    <3>3. Steady
      BY <1>1, <3>2 DEF Announced, Settled
    <3> QED  BY <2>2, <3>1, <3>3 DEF Steady
  <2> QED  BY <2>1, <2>2
<1>9. InPlace' /\ Marked'
  BY <1>1 DEF InPlace, Marked, After
<1> QED  BY <1>6, <1>7, <1>8, <1>9 DEF Announced

\* A recorded hash of the file that is wanted was announced, in the copy at hand as well.
LEMMA RecordedGoal ==
    ASSUME Typed, Versions, Announced, pc = "Write", mine.hash = Goal
    PROVE  Same(cm.mark, Goal) /\ conf.hash = Goal
<1>1. conf.hash = Goal /\ Goal # NoFile
  BY GoalIsFile DEF Versions
<1>2. CASE owed = NoFile
  BY <1>1, <1>2 DEF Announced, Settled, Steady
<1>3. CASE owed # NoFile
  <2>1. cm.file = Goal
    BY <1>3 DEF Announced, Owing
  <2> QED  BY <1>1, <2>1 DEF Announced, Recorded
<1> QED  BY <1>1, <1>2, <1>3

LEMMA WriteAnnounced ==
    ASSUME Typed, NoSection, Versions, ~lost, strategy \in {"auto", "restart"}, Announced, Write
    PROVE  Announced'
<1>0. /\ pc = "Write" /\ Want = Goal /\ Goal # NoFile /\ Same(Goal, Goal) /\ ~SwitchOnly
      /\ strategy # "off"
  BY WantPlain, BeforePlain, GoalIsFile DEF Write
<1>1. ASSUME Goto(IF Reloads THEN "Decide" ELSE "Deliver"), UNCHANGED <<confVars, history>>
      PROVE  /\ pc' \in {"Decide", "Deliver"} /\ Goal' = Goal /\ UNCHANGED <<conf, old, owed>>
             /\ pc' = "Deliver" => Same(cm.mark, Goal)
  <2>1. pc' \in {"Decide", "Deliver"} /\ Goal' = Goal /\ UNCHANGED <<conf, old, owed>>
    BY <1>1 DEF Goto, Goal, confVars, history
  <2>2. pc' = "Deliver" => mine.hash = Goal
    BY <1>0, <1>1 DEF Goto, Reloads
  <2> QED  BY <1>0, <2>1, <2>2, RecordedGoal
<1>2. CASE UNCHANGED cmVars /\ Fail
  BY <1>0, <1>2, FailAnnounced
<1>3. CASE /\ cmSeen.file = Goal /\ UNCHANGED cmVars
           /\ Goto(IF Reloads THEN "Decide" ELSE "Deliver") /\ UNCHANGED <<confVars, history>>
  <2>1. /\ pc' \in {"Decide", "Deliver"} /\ Goal' = Goal /\ UNCHANGED <<conf, old, owed, cm, cmSeen>>
        /\ pc' = "Deliver" => Same(cm.mark, Goal)
    BY <1>1, <1>3 DEF cmVars
  <2>2. Steady' = Steady
    BY <2>1 DEF Steady
  <2>3. Behind' /\ Recorded' /\ Settled' /\ Marked'
    BY <2>1 DEF Announced, Behind, Recorded, Settled, Marked
  <2>4. Owing' /\ Ago'
    BY <1>0, <2>1 DEF Announced, Owing, Ago
  <2>5. Same(cm.file, Goal) /\ (cm.file = Goal \/ (owed = NoFile /\ Steady))
    <3>1. CASE cm.file = Goal
      BY <1>0, <3>1
    <3>2. CASE cm.file # Goal
      <4>1. owed = NoFile
        BY <1>0, <3>2 DEF Announced, Owing
      <4>2. Steady
        BY <1>0, <4>1 DEF Announced, Settled
      <4>3. Same(cm.mark, Goal)
        BY <1>0, <1>3, <3>2 DEF Announced, Behind
      <4>4. Same(cm.mark, cm.file)
        BY <4>2, <4>3, SameFiles DEF Steady
      <4> QED  BY <4>1, <4>2, <4>3, <4>4, SameFiles
    <3> QED  BY <3>1, <3>2
  <2>6. InPlace'
    BY <2>1, <2>2, <2>5 DEF InPlace
  <2> QED  BY <2>3, <2>4, <2>6 DEF Announced
<1>4. ASSUME cmFresh, cmSeen.file # Goal, PutMap([cm EXCEPT !.file = Goal])
      PROVE  /\ cmSeen' = cm /\ cm'.file = Goal /\ cm'.mark = cm.mark
             /\ owed = NoFile /\ cm.file # Goal /\ Steady
             /\ Behind'
             /\ conf.hash = Goal => Same(cm.mark, Goal)
  <2>1. cmSeen' = cm /\ cm'.file = Goal /\ cm'.mark = cm.mark /\ cm.file # Goal
    BY <1>4 DEF PutMap, Typed, Current, MapTyped, Maps
  <2>2. owed = NoFile
    BY <1>0, <2>1 DEF Announced, Owing
  <2>3. Steady
    BY <1>0, <2>2 DEF Announced, Settled
  <2>4. Behind'
    BY <2>1, <2>3 DEF Behind, Steady
  <2> QED  BY <1>0, <2>1, <2>2, <2>3, <2>4 DEF Steady
<1>5. CASE /\ cmFresh /\ cmSeen.file # Goal /\ PutMap([cm EXCEPT !.file = Goal])
           /\ Goto(IF Reloads THEN "Decide" ELSE "Deliver") /\ UNCHANGED <<confVars, history>>
  <2>1. /\ pc' \in {"Decide", "Deliver"} /\ Goal' = Goal /\ UNCHANGED <<conf, old, owed>>
        /\ pc' = "Deliver" => Same(cm.mark, Goal)
    BY <1>1, <1>5
  <2>2. /\ cm'.file = Goal /\ cm'.mark = cm.mark /\ owed = NoFile /\ Behind'
        /\ conf.hash = Goal => Same(cm.mark, Goal)
    BY <1>4, <1>5
  <2>3. Owing' /\ Settled' /\ Marked'
    BY <2>1, <2>2 DEF Owing, Settled, Marked
  <2>4. Recorded'
    BY <2>1, <2>2 DEF Recorded
  <2>5. InPlace' /\ Ago'
    BY <1>0, <2>1, <2>2 DEF Announced, InPlace, Ago
  <2> QED  BY <2>2, <2>3, <2>4, <2>5 DEF Announced
<1>6. CASE cmFresh /\ cmSeen.file # Goal /\ PutMap([cm EXCEPT !.file = Goal]) /\ Restores /\ Fail
  <2>1. /\ cm'.file = Goal /\ cm'.mark = cm.mark /\ owed = NoFile /\ Behind' /\ cm.file # Goal
    BY <1>4, <1>6
  <2>2. Same(cm.mark, Goal) /\ conf.hash = Goal
    BY <1>0, <1>6, RecordedGoal DEF Restores
  <2>3. pc' = "Idle" /\ conf' = conf /\ owed' = NoFile
    BY <1>0, <1>6, <2>1 DEF Fail, Idle
  <2>4. Steady'
    BY <2>1, <2>2, <2>3 DEF Steady
  <2>5. Owing' /\ Recorded' /\ Settled'
    BY <2>1, <2>2, <2>3, <2>4 DEF Owing, Recorded, Settled
  <2>6. InPlace' /\ Marked' /\ Ago'
    BY <2>3 DEF InPlace, Marked, Ago, After
  <2> QED  BY <2>1, <2>5, <2>6 DEF Announced
<1> QED  BY <1>0, <1>2, <1>3, <1>5, <1>6 DEF Write, Written, Restores

\* A hot reload is for a change of what is not critical, so what was announced still holds.
LEMMA HotIsAnnounced ==
    ASSUME Typed, NoSection, strategy \in {"auto", "restart"}, Announced, pc = "Decide", HotReloads
    PROVE  Same(cm.mark, Goal)
<1>1. Want = Goal /\ Before = old /\ Goal # NoFile
  BY WantPlain, BeforePlain, GoalIsFile
<1>2. ~NeedsRestart(old, Goal)
  BY <1>1 DEF HotReloads
<1>3. old \notin {NoFile, Goal} /\ Core(old.body) = Core(Goal.body)
  BY <1>2 DEF NeedsRestart
<1>4. Same(cm.mark, old) /\ Same(old, Goal)
  BY <1>1, <1>3 DEF Announced, Ago, Same
<1> QED  BY <1>4, SameFiles

LEMMA DecideAnnounced ==
    ASSUME Typed, NoSection, ~lost, strategy \in {"auto", "restart"}, Announced, Decide
    PROVE  Announced'
<1>1. CASE Fail
  BY <1>1, FailAnnounced DEF Decide
<1>2. CASE /\ Goto("Mark") \/ (HotReloads /\ Goto("Deliver"))
           /\ UNCHANGED <<confVars, history>>
  <2>1. /\ pc = "Decide" /\ pc' \in {"Mark", "Deliver"} /\ Goal' = Goal
        /\ UNCHANGED <<conf, old, owed, cm, cmSeen>>
        /\ pc' = "Deliver" => HotReloads
    BY <1>2 DEF Decide, Goto, Goal, confVars, cmVars, history
  <2>2. Steady' = Steady
    BY <2>1 DEF Steady
  <2>3. Behind' /\ Recorded' /\ Settled' /\ Ago'
    BY <2>1 DEF Announced, Behind, Recorded, Settled, Ago
  <2>4. Owing' /\ InPlace'
    BY <2>1, <2>2 DEF Announced, Owing, InPlace, After
  <2>5. Marked'
    BY <2>1, HotIsAnnounced DEF Marked
  <2> QED  BY <2>3, <2>4, <2>5 DEF Announced
<1> QED  BY <1>1, <1>2 DEF Decide

LEMMA MarkAnnounced ==
    ASSUME Typed, NoSection, ~lost, Announced, Mark
    PROVE  Announced'
<1>0. pc = "Mark" /\ Want = Goal /\ Goal # NoFile /\ Same(Goal, Goal)
  BY WantPlain, GoalIsFile DEF Mark
<1>1. Same(cm.file, Goal) /\ (cm.file = Goal \/ (owed = NoFile /\ Steady))
  BY <1>0 DEF Announced, InPlace, After
<1>2. CASE Fail /\ UNCHANGED cmVars
  BY <1>0, <1>2, FailAnnounced
<1>3. ASSUME Goto("Deliver"), UNCHANGED <<confVars, history>>
      PROVE  pc' = "Deliver" /\ Goal' = Goal /\ UNCHANGED <<conf, old, owed>>
  BY <1>3 DEF Goto, Goal, confVars, history
<1>4. CASE /\ cmSeen.mark = Goal /\ UNCHANGED cmVars
           /\ Goto("Deliver") /\ UNCHANGED <<confVars, history>>
  <2>1. /\ pc' = "Deliver" /\ Goal' = Goal /\ UNCHANGED <<conf, old, owed, cm, cmSeen>>
    BY <1>3, <1>4 DEF cmVars
  <2>2. Steady' = Steady
    BY <2>1 DEF Steady
  <2>3. Behind' /\ Recorded' /\ Settled' /\ Ago'
    BY <2>1 DEF Announced, Behind, Recorded, Settled, Ago
  <2>4. Owing' /\ InPlace'
    BY <1>0, <1>1, <2>1, <2>2 DEF Announced, Owing, InPlace
  <2>5. Same(cm.mark, Goal)
    <3>1. CASE cm.mark = cmSeen.mark
      BY <1>0, <1>4, <3>1
    <3>2. CASE cm.mark # cmSeen.mark
      <4>1. Same(cm.mark, cm.file)
        BY <3>2 DEF Announced, Behind
      <4> QED  BY <1>1, <4>1, SameFiles
    <3> QED  BY <3>1, <3>2
  <2>6. Marked'
    BY <2>1, <2>5 DEF Marked
  <2> QED  BY <2>3, <2>4, <2>6 DEF Announced
<1>5. CASE /\ cmFresh /\ PutMap([cm EXCEPT !.mark = Goal])
           /\ Goto("Deliver") /\ UNCHANGED <<confVars, history>>
  <2>1. pc' = "Deliver" /\ Goal' = Goal /\ UNCHANGED <<conf, old, owed>>
    BY <1>3, <1>5
  <2>2. cmSeen' = cm /\ cm'.file = cm.file /\ cm'.mark = Goal
    BY <1>5 DEF PutMap, Typed, Current, MapTyped, Maps
  <2>3. Same(Goal, cm.file)
    BY <1>1, SameFiles
  <2>4. Behind'
    BY <2>2, <2>3 DEF Behind
  <2>5. Owing' /\ Recorded' /\ Settled' /\ Marked' /\ Ago'
    BY <1>0, <2>1, <2>2, <2>3 DEF Announced, Owing, Recorded, Settled, Marked, Ago
  <2>6. Steady => Steady'
    <3> SUFFICES ASSUME Steady PROVE Steady'
      OBVIOUS
    <3>1. Same(cm.mark, cm.file) /\ Same(cm.mark, conf.hash)
      BY <1>1, SameFiles DEF Steady
    <3>2. Same(cm.file, cm.mark)
      BY <3>1, SameFiles
    <3>3. Same(cm.file, conf.hash)
      BY <3>1, <3>2, SameFiles
    <3>4. Same(Goal, conf.hash)
      BY <2>3, <3>3, SameFiles
    <3> QED  BY <2>1, <2>2, <2>3, <3>4 DEF Steady
  <2>7. InPlace'
    BY <1>1, <2>1, <2>2, <2>6 DEF InPlace
  <2> QED  BY <2>4, <2>5, <2>7 DEF Announced
<1> QED  BY <1>0, <1>2, <1>4, <1>5 DEF Mark

LEMMA DeliverAnnounced ==
    ASSUME Typed, Announced, Deliver
    PROVE  Announced'
<1>1. /\ pc = "Deliver" /\ pc' = "Save" /\ UNCHANGED <<confVars, cmVars, old, owed>>
      /\ \E condition \in Conditions : mine' = [mine EXCEPT !.condition = condition]
  BY DEF Deliver
<1>2. mine'.body = mine.body
  BY <1>1 DEF Typed, RunTyped, Copies
<1>3. Goal' = Goal /\ UNCHANGED <<conf, cm, cmSeen>>
  BY <1>1, <1>2 DEF Goal, confVars, cmVars
<1>4. Steady' = Steady
  BY <1>3 DEF Steady
<1>5. Behind' /\ Recorded' /\ Settled' /\ Ago'
  BY <1>1, <1>3 DEF Announced, Behind, Recorded, Settled, Ago
<1>6. Owing' /\ InPlace' /\ Marked'
  BY <1>1, <1>3, <1>4 DEF Announced, Owing, InPlace, Marked, After
<1> QED  BY <1>5, <1>6 DEF Announced

LEMMA SaveAnnounced ==
    ASSUME Typed, NoSection, ~lost, Announced, Save
    PROVE  Announced'
<1>0. pc = "Save" /\ UNCHANGED cmVars /\ Want = Goal /\ Goal # NoFile
  BY WantPlain, GoalIsFile DEF Save
<1>1. CASE Fail
  BY <1>0, <1>1, FailAnnounced
<1>2. CASE /\ Idle /\ conf' = [conf EXCEPT !.hash = Want, !.condition = mine.condition]
           /\ owed' = IF cm.file = Want THEN NoFile ELSE owed
  <2>1. pc' = "Idle" /\ conf'.hash = Goal /\ cm' = cm /\ cmSeen' = cmSeen
    BY <1>0, <1>2 DEF Idle, Typed, ConfTyped, Copies, cmVars
  <2>2. owed' = NoFile
    BY <1>0, <1>2 DEF Announced, Owing
  <2>3. Same(cm.mark, Goal) /\ Same(cm.file, Goal)
    BY <1>0 DEF Announced, Marked, InPlace, After
  <2>4. Same(cm.mark, cm.file)
    BY <2>3, SameFiles
  <2>5. Steady'
    BY <2>1, <2>3, <2>4 DEF Steady
  <2>6. Behind' /\ Owing' /\ Recorded' /\ Settled'
    BY <2>1, <2>2, <2>4, <2>5 DEF Announced, Behind, Owing, Recorded, Settled
  <2>7. InPlace' /\ Marked' /\ Ago'
    BY <2>1 DEF InPlace, Marked, Ago, After
  <2> QED  BY <2>6, <2>7 DEF Announced
<1> QED  BY <1>1, <1>2 DEF Save

\* The cached ConfigMap catches up.
LEMMA ObserveAnnounced ==
    ASSUME Announced, ObserveMap
    PROVE  Announced'
<1>1. cmSeen' = cm /\ UNCHANGED <<conf, cm, pc, mine, old, owed>>
  BY DEF ObserveMap, confVars, run, history
<1>2. Goal' = Goal /\ Steady' = Steady
  BY <1>1 DEF Goal, Steady
<1>3. Behind'
  BY <1>1 DEF Behind
<1>4. Owing' /\ Recorded' /\ Settled'
  BY <1>1, <1>2 DEF Announced, Owing, Recorded, Settled
<1>5. InPlace' /\ Marked' /\ Ago'
  BY <1>1, <1>2 DEF Announced, InPlace, Marked, Ago
<1> QED  BY <1>3, <1>4, <1>5 DEF Announced

LEMMA InitAnnounced == Init => Announcing
<1> SUFFICES ASSUME Init PROVE Announced
  BY DEF Announcing
<1>1. /\ conf.hash = NoFile /\ cm.file = NoFile /\ cm.mark = NoFile /\ cmSeen = cm
      /\ pc = "Idle" /\ owed = NoFile
  BY DEF Init, Blank
<1> QED  BY <1>1 DEF Announced, Behind, Owing, Recorded, Settled, Steady, InPlace, Marked, Ago,
                     After

LEMMA NextAnnounced ==
    ASSUME Typed, Typed', Plain, Plain', Announcing, [Next]_vars
    PROVE  Announcing'
<1>1. UNCHANGED setting
  BY DEF Next, Step, Start, Write, Decide, Mark, Deliver, Save, ObserveConf, ObserveMap, Edit,
         Tamper, Crash, Instance, Meddle, vars
<1> SUFFICES ASSUME ~lost', strategy' \in {"auto", "restart"} PROVE Announced'
  BY DEF Announcing, Applies
<1>2. ~lost /\ strategy \in {"auto", "restart"} /\ Announced
  BY <1>1, LostStays DEF Announcing, Applies, setting, Typed, HistoryTyped
<1>3. NoSection /\ Versions /\ NoSection'
  BY <1>2, <1>1 DEF Plain, setting
<1>4. CASE Start
  BY <1>2, <1>3, <1>4, StartAnnounced
<1>5. CASE Write
  BY <1>2, <1>3, <1>5, WriteAnnounced
<1>6. CASE Decide \/ Mark
  BY <1>2, <1>3, <1>6, DecideAnnounced, MarkAnnounced
<1>7. CASE Deliver \/ Save
  BY <1>2, <1>3, <1>7, DeliverAnnounced, SaveAnnounced
<1>8. CASE ObserveMap
  BY <1>2, <1>8, ObserveAnnounced
<1>9. CASE Crash
  BY <1>2, <1>3, <1>9, FailAnnounced DEF Crash
<1>10. CASE Edit
  <2>1. PICK body \in Bodies, section \in Sections :
            conf' = [conf EXCEPT !.body = body, !.http = section]
    BY <1>10 DEF Edit
  <2>2. conf'.hash = conf.hash
    BY <2>1 DEF Typed, ConfTyped, Copies
  <2>3. UNCHANGED scene
    BY <1>10, <2>2 DEF Edit, scene, cmVars, history
  <2> QED  BY <1>2, <2>3, AnnouncedStays
<1>11. CASE ObserveConf \/ Instance \/ Meddle \/ UNCHANGED vars
  <2>1. UNCHANGED scene
    BY <1>11 DEF ObserveConf, Instance, Meddle, scene, confVars, cmVars, run, history, vars,
                 moving
  <2> QED  BY <1>2, <2>1, AnnouncedStays
<1>12. ~Tamper
  BY DEF Tamper
<1> QED  BY <1>4, <1>5, <1>6, <1>7, <1>8, <1>9, <1>10, <1>11, <1>12 DEF Next, Step

-----------------------------------------------------------------------------
(* The theorems.                                                            *)

IInv == Typed /\ Kept /\ NoRace /\ Plain /\ Announcing

LEMMA Invariant == Spec => []IInv
<1>1. Init => IInv
  BY InitTyped, InitKept, InitPlain, InitAnnounced DEF IInv
<1>2. IInv /\ [Next]_vars => IInv'
  BY NextTyped, NextKept, NextPlain, NextAnnounced DEF IInv
<1> QED  BY <1>1, <1>2, PTL DEF Spec

\* The resource, the ConfigMap, their cached copies, the reconcile and Home Assistant's slots
\* keep their types.
THEOREM TypeTheorem == Spec => []TypeOK
<1>1. IInv => TypeOK
  BY TypedMeans DEF IInv
<1> QED  BY <1>1, Invariant, PTL

\* performConfigReload and updateConfigMapHashAnnotation: once the ConfigMap has the file that
\* the status records and the spec asks for, a restart was announced for its critical part,
\* whatever failed and was retried.
THEOREM MarkedTheorem == Spec => []CoreChangesMarked
<1>1. IInv => CoreChangesMarked
  <2> SUFFICES ASSUME IInv, pc = "Idle", strategy \in {"auto", "restart"}, ~lost,
                      conf.hash = cm.file, cm.file.body = conf.body
               PROVE  cm.mark # NoFile /\ Core(cm.mark.body) = Core(conf.body)
    BY DEF CoreChangesMarked
  <2>1. conf.hash # NoFile
    BY DEF IInv, Typed, ConfTyped, Copies, Bodies, NoFile
  <2>2. Same(cm.mark, cm.file)
    BY <2>1 DEF IInv, Announcing, Applies, Announced, Recorded
  <2> QED  BY <2>2 DEF Same
<1> QED  BY <1>1, Invariant, PTL

\* reconcileHTTPConfig confirms no configuration but the one the resource asks for, while no
\* user acts between its look and its confirmation.
THEOREM PromotedTheorem == Spec => OnlyOwnPromoted
<1> DEFINE Own == pc = "Deliver" /\ pc' = "Save" /\ ~raced /\ stable' # stable
                  => stable' = Desired(Section(mine), stable)
<1>1. IInv /\ [Next]_vars => [Own]_vars
  BY DeliveryStep, OwnPromoted DEF IInv
<1> QED  BY <1>1, Invariant, PTL DEF Spec, OnlyOwnPromoted

-----------------------------------------------------------------------------
(* The pod template, which two controllers write.  Its specification and this *)
(* one have nothing in common but the names of the bounded counters.          *)

CONSTANTS PodEdits, PodFaults
VARIABLES sts, stsSeen, stsFresh, mark, image, source, generated, pod, hpc, want, recent, spc,
          hash, early
Pod == INSTANCE PodTemplate WITH MaxEdits <- PodEdits, MaxFaults <- PodFaults

\* A write, or none, keeps the types of the StatefulSet and of its cached copy.
LEMMA WritesKeepTypes ==
    ASSUME Pod!TypeOK, NEW set \in Pod!Sets, Pod!Put(set) \/ UNCHANGED Pod!stsVars
    PROVE  /\ {sts', stsSeen'} \subseteq Pod!Sets /\ stsFresh' \in BOOLEAN
           /\ (stsFresh' => stsSeen' = sts')
<1>1. {sts, stsSeen} \subseteq Pod!Sets /\ stsFresh \in BOOLEAN /\ (stsFresh => stsSeen = sts)
  BY DEF Pod!TypeOK
<1>2. CASE Pod!Put(set)
  BY <1>1, <1>2 DEF Pod!Put
<1>3. CASE UNCHANGED Pod!stsVars
  BY <1>1, <1>3 DEF Pod!stsVars
<1> QED BY <1>2, <1>3

\* Every step of the model keeps the types, and a cached copy that is taken for
\* current is the StatefulSet as the API server has it.
LEMMA TemplateTyped ==
    ASSUME Pod!ConstantsAssumption, Pod!TypeOK, [Pod!Next]_Pod!vars
    PROVE  Pod!TypeOK'
<1> USE DEF Pod!TypeOK, Pod!Sets, Pod!Hashes, Pod!Values, Pod!NoHash, Pod!ConstantsAssumption
<1>1. CASE Pod!Create
  <2> DEFINE new == [Pod!Built(stsSeen, image) EXCEPT !.made = TRUE]
  <2>1. new \in Pod!Sets /\ Pod!Synced(new) \in Pod!Sets
    BY DEF Pod!Built, Pod!Synced
  <2>2. recent' \in BOOLEAN
    BY <1>1 DEF Pod!Create, Pod!SyncTime
  <2>3. {sts', stsSeen'} \subseteq Pod!Sets /\ stsFresh' \in BOOLEAN /\ (stsFresh' => stsSeen' = sts')
    <3>1. Pod!Put(Pod!Synced(new)) \/ UNCHANGED Pod!stsVars
      BY <1>1 DEF Pod!Create, Pod!stsVars
    <3> QED BY <2>1, <3>1, WritesKeepTypes
  <2>4. faults' \in 0 .. PodFaults
    BY <1>1 DEF Pod!Create, Pod!Spend
  <2> QED BY <1>1, <2>2, <2>3, <2>4 DEF Pod!Create, Pod!users, Pod!kubelet, Pod!sRun
<1>2. CASE Pod!Compare
  BY <1>2 DEF Pod!Compare, Pod!SyncTime, Pod!stsVars, Pod!users, Pod!kubelet, Pod!sRun
<1>3. CASE Pod!Update
  <2>1. Pod!Synced(Pod!Built(stsSeen, want)) \in Pod!Sets
    BY DEF Pod!Built, Pod!Synced
  <2>2. recent' \in BOOLEAN
    BY <1>3 DEF Pod!Update, Pod!SyncTime
  <2>3. {sts', stsSeen'} \subseteq Pod!Sets /\ stsFresh' \in BOOLEAN /\ (stsFresh' => stsSeen' = sts')
    <3>1. Pod!Put(Pod!Synced(Pod!Built(stsSeen, want))) \/ UNCHANGED Pod!stsVars
      BY <1>3 DEF Pod!Update
    <3> QED BY <2>1, <3>1, WritesKeepTypes
  <2>4. faults' \in 0 .. PodFaults
    BY <1>3 DEF Pod!Update, Pod!Spend
  <2>5. hpc' \in {"Idle", "Update"} /\ want' \in Pod!Values
    BY <1>3 DEF Pod!Update, Pod!Done
  <2>6. UNCHANGED <<Pod!users, Pod!kubelet, Pod!sRun>>
    BY <1>3 DEF Pod!Update
  <2> QED BY <2>2, <2>3, <2>4, <2>5, <2>6 DEF Pod!users, Pod!kubelet, Pod!sRun
<1>4. CASE Pod!Expire
  BY <1>4 DEF Pod!Expire, Pod!stsVars, Pod!users, Pod!kubelet, Pod!sRun
<1>5. CASE Pod!Generate
  BY <1>5 DEF Pod!Generate, Pod!Spend, Pod!stsVars, Pod!users, Pod!kubelet, Pod!hRun, Pod!sRun
<1>6. CASE Pod!Annotate
  <2>1. [stsSeen EXCEPT !.secrets = hash] \in Pod!Sets
    OBVIOUS
  <2>2. {sts', stsSeen'} \subseteq Pod!Sets /\ stsFresh' \in BOOLEAN /\ (stsFresh' => stsSeen' = sts')
    <3>1. Pod!Put([stsSeen EXCEPT !.secrets = hash]) \/ UNCHANGED Pod!stsVars
      BY <1>6 DEF Pod!Annotate, Pod!stsVars
    <3> QED BY <2>1, <3>1, WritesKeepTypes
  <2>3. faults' \in 0 .. PodFaults
    BY <1>6 DEF Pod!Annotate, Pod!Spend
  <2>4. spc' \in {"Idle", "Annotate"} /\ hash' \in Pod!Hashes
    BY <1>6 DEF Pod!Annotate
  <2>5. UNCHANGED <<generated, Pod!users, Pod!kubelet, Pod!hRun>>
    BY <1>6 DEF Pod!Annotate
  <2> QED BY <2>2, <2>3, <2>4, <2>5 DEF Pod!users, Pod!kubelet, Pod!hRun
<1>7. CASE Pod!Edit
  BY <1>7 DEF Pod!Edit, Pod!stsVars, Pod!kubelet, Pod!hRun, Pod!sRun
<1>8. CASE Pod!Roll
  <2>1. early' \in BOOLEAN
    BY <1>8 DEF Pod!Roll
  <2>2. faults' \in 0 .. PodFaults
    BY <1>8 DEF Pod!Roll, Pod!Spend
  <2>3. pod' \in [template : Pod!Sets, secrets : Pod!Hashes]
    BY <1>8 DEF Pod!Roll
  <2> QED BY <1>8, <2>1, <2>2, <2>3 DEF Pod!Roll, Pod!stsVars, Pod!users, Pod!hRun, Pod!sRun
<1>9. CASE Pod!Observe
  BY <1>9 DEF Pod!Observe, Pod!users, Pod!kubelet, Pod!hRun, Pod!sRun
<1>10. CASE Pod!Crash
  <2>1. faults' \in 0 .. PodFaults
    BY <1>10 DEF Pod!Crash, Pod!Spend
  <2> QED BY <1>10, <2>1 DEF Pod!Crash, Pod!Done, Pod!stsVars, Pod!users, Pod!kubelet
<1>11. CASE UNCHANGED Pod!vars
  BY <1>11 DEF Pod!vars, Pod!stsVars, Pod!users, Pod!kubelet, Pod!hRun, Pod!sRun
<1> QED BY <1>1, <1>2, <1>3, <1>4, <1>5, <1>6, <1>7, <1>8, <1>9, <1>10, <1>11 DEF Pod!Next

\* The types hold initially.
LEMMA TemplateInit ==
    ASSUME Pod!ConstantsAssumption
    PROVE  Pod!Init => Pod!TypeOK
<1> SUFFICES ASSUME Pod!Init PROVE Pod!TypeOK
  OBVIOUS
<1>1. Pod!NoSet \in Pod!Sets
  BY DEF Pod!NoSet, Pod!Sets, Pod!Hashes, Pod!Values, Pod!NoHash
<1>2. {sts, stsSeen} \subseteq Pod!Sets /\ stsSeen = sts
  BY <1>1 DEF Pod!Init
<1>3. pod \in [template : Pod!Sets, secrets : Pod!Hashes]
  BY <1>1 DEF Pod!Init, Pod!Hashes
<1>4. edits \in 0 .. PodEdits /\ faults \in 0 .. PodFaults
  BY DEF Pod!Init, Pod!ConstantsAssumption
<1> QED BY <1>2, <1>3, <1>4 DEF Pod!Init, Pod!TypeOK, Pod!Hashes, Pod!Values, Pod!NoHash

\* TypeOK holds of the two controllers, whatever the bounds on edits and failures.
THEOREM TemplateTypeTheorem ==
    ASSUME Pod!ConstantsAssumption
    PROVE  Pod!Spec => []Pod!TypeOK
<1>1. Pod!Init => Pod!TypeOK
  BY TemplateInit
<1>2. Pod!TypeOK /\ [Pod!Next]_Pod!vars => Pod!TypeOK'
  BY TemplateTyped
<1> QED BY <1>1, <1>2, PTL DEF Pod!Spec

\* The invariant of the action property: a StatefulSet that is not there yet has no
\* annotation, one that was seen stays, and only one that was seen is updated.
MadeOnce ==
    /\ \A set \in {sts, stsSeen} : ~set.made => set.secrets = Pod!NoHash
    /\ stsSeen.made => sts.made
    /\ hpc = "Update" => stsSeen.made

\* What the HomeAssistant controller would write keeps the secrets' hash of its copy.
LEMMA BuildKeepsHash ==
    ASSUME NEW set \in Pod!Sets, NEW rest \in Pod!Values, NEW made \in BOOLEAN,
           mark \in Pod!Hashes
    PROVE  LET new == [Pod!Built(set, rest) EXCEPT !.made = made] IN
           /\ Pod!Synced(new) \in Pod!Sets /\ Pod!Synced(new).secrets = set.secrets
           /\ Pod!Synced(new).made = made
           /\ Pod!Synced(Pod!Built(set, rest)) \in Pod!Sets
           /\ Pod!Synced(Pod!Built(set, rest)).secrets = set.secrets
           /\ Pod!Synced(Pod!Built(set, rest)).made = set.made
<1>1. /\ Pod!Built(set, rest) \in Pod!Sets
      /\ Pod!Built(set, rest).secrets = set.secrets /\ Pod!Built(set, rest).made = set.made
  BY DEF Pod!Built, Pod!Sets
<1>2. \A s \in Pod!Sets : /\ Pod!Synced(s) \in Pod!Sets
                             /\ Pod!Synced(s).secrets = s.secrets /\ Pod!Synced(s).made = s.made
  BY DEF Pod!Synced, Pod!Sets
<1>3. /\ [Pod!Built(set, rest) EXCEPT !.made = made] \in Pod!Sets
      /\ [Pod!Built(set, rest) EXCEPT !.made = made].secrets = set.secrets
      /\ [Pod!Built(set, rest) EXCEPT !.made = made].made = made
  BY <1>1 DEF Pod!Sets
<1> QED BY <1>1, <1>2, <1>3

\* MadeOnce is inductive.
LEMMA MadeOncePreserved ==
    ASSUME Pod!TypeOK, MadeOnce, [Pod!Next]_Pod!vars
    PROVE  MadeOnce'
<1>0. /\ sts \in Pod!Sets /\ stsSeen \in Pod!Sets /\ mark \in Pod!Hashes /\ image \in Pod!Values
      /\ want \in Pod!Values
      /\ (stsFresh => stsSeen = sts)
  BY DEF Pod!TypeOK
<1>1. CASE Pod!Create
  <2>1. PICK new : new = Pod!Synced([Pod!Built(stsSeen, image) EXCEPT !.made = TRUE])
    OBVIOUS
  <2>2. new.made /\ (Pod!Put(new) \/ UNCHANGED Pod!stsVars)
    BY <1>0, <1>1, <2>1, BuildKeepsHash DEF Pod!Create, Pod!stsVars
  <2>3. hpc = "Idle" /\ hpc' = hpc
    BY <1>1 DEF Pod!Create
  <2>4. (sts' = new \/ sts' = sts) /\ stsSeen' = stsSeen
    BY <2>2 DEF Pod!Put, Pod!stsVars
  <2> QED BY <2>2, <2>3, <2>4 DEF MadeOnce
<1>2. CASE Pod!Compare
  BY <1>2 DEF Pod!Compare, Pod!stsVars, MadeOnce
<1>3. CASE Pod!Update
  <2>1. PICK new : new = Pod!Synced(Pod!Built(stsSeen, want))
    OBVIOUS
  <2>2. new.made /\ (Pod!Put(new) \/ UNCHANGED Pod!stsVars)
    BY <1>0, <1>3, <2>1, BuildKeepsHash DEF Pod!Update, MadeOnce
  <2>3. hpc' = "Update" => hpc = "Update"
    BY <1>3 DEF Pod!Update, Pod!Done
  <2>4. (sts' = new \/ sts' = sts) /\ stsSeen' = stsSeen
    BY <2>2 DEF Pod!Put, Pod!stsVars
  <2> QED BY <2>2, <2>3, <2>4 DEF MadeOnce
<1>4. CASE Pod!Annotate
  <2>1. PICK new : new = [stsSeen EXCEPT !.secrets = hash]
    OBVIOUS
  <2>2. (Pod!Put(new) /\ stsSeen.made) \/ UNCHANGED Pod!stsVars
    BY <1>4, <2>1 DEF Pod!Annotate, Pod!NeedsAnnotation, Pod!stsVars
  <2>3. new.made = stsSeen.made
    BY <1>0, <2>1 DEF Pod!Sets
  <2>4. hpc' = hpc
    BY <1>4 DEF Pod!Annotate, Pod!hRun
  <2>5. ((sts' = new /\ stsSeen.made) \/ sts' = sts) /\ stsSeen' = stsSeen
    BY <2>2 DEF Pod!Put, Pod!stsVars
  <2> QED BY <2>3, <2>4, <2>5 DEF MadeOnce
<1>5. CASE Pod!Observe
  BY <1>5 DEF Pod!Observe, Pod!hRun, MadeOnce
<1>6. CASE Pod!Expire \/ Pod!Generate \/ Pod!Edit \/ Pod!Roll
  BY <1>6 DEF Pod!Expire, Pod!Generate, Pod!Edit, Pod!Roll, Pod!stsVars, Pod!hRun, MadeOnce
<1>7. CASE Pod!Crash
  BY <1>7 DEF Pod!Crash, Pod!Done, Pod!stsVars, MadeOnce
<1>8. CASE UNCHANGED Pod!vars
  BY <1>8 DEF Pod!vars, Pod!stsVars, Pod!hRun, MadeOnce
<1> QED BY <1>1, <1>2, <1>3, <1>4, <1>5, <1>6, <1>7, <1>8 DEF Pod!Next

\* The secrets' hash in the template changes in a step of the Secrets controller
\* only, to the hash it has just generated, and that step changes nothing else: its
\* copy of the StatefulSet is current, and reconcileStatefulSet keeps the annotation
\* of its own copy, which is current as well or the update is refused.
LEMMA StepKeepsHashes ==
    ASSUME Pod!TypeOK, MadeOnce, [Pod!Next]_Pod!vars, sts'.secrets # sts.secrets
    PROVE  sts' = [sts EXCEPT !.secrets = hash] /\ spc = "Annotate"
<1>0. /\ sts \in Pod!Sets /\ stsSeen \in Pod!Sets /\ mark \in Pod!Hashes /\ image \in Pod!Values
      /\ want \in Pod!Values
      /\ (stsFresh => stsSeen = sts)
  BY DEF Pod!TypeOK
<1>1. CASE Pod!Create
  <2>1. PICK new : new = Pod!Synced([Pod!Built(stsSeen, image) EXCEPT !.made = TRUE])
    OBVIOUS
  <2>2. new.secrets = stsSeen.secrets
    BY <1>0, <2>1, BuildKeepsHash
  <2>3. (sts' = new /\ ~sts.made /\ ~stsSeen.made) \/ sts' = sts
    BY <1>1, <2>1 DEF Pod!Create, Pod!Put, Pod!stsVars
  <2> QED BY <2>2, <2>3 DEF MadeOnce
<1>2. CASE Pod!Update
  <2>1. PICK new : new = Pod!Synced(Pod!Built(stsSeen, want))
    OBVIOUS
  <2>2. new.secrets = stsSeen.secrets
    BY <1>0, <2>1, BuildKeepsHash
  <2>3. (sts' = new /\ stsFresh) \/ sts' = sts
    BY <1>2, <2>1 DEF Pod!Update, Pod!Put, Pod!Current, Pod!stsVars
  <2> QED BY <1>0, <2>2, <2>3
<1>3. CASE Pod!Annotate
  <2>1. (sts' = [stsSeen EXCEPT !.secrets = hash] /\ stsFresh) \/ sts' = sts
    BY <1>3 DEF Pod!Annotate, Pod!Put, Pod!Current, Pod!stsVars
  <2>2. spc = "Annotate"
    BY <1>3 DEF Pod!Annotate
  <2> QED BY <1>0, <2>1, <2>2
<1>4. CASE Pod!Compare \/ Pod!Expire \/ Pod!Generate \/ Pod!Edit \/ Pod!Roll
         \/ Pod!Observe \/ Pod!Crash \/ UNCHANGED Pod!vars
  BY <1>4 DEF Pod!Compare, Pod!Expire, Pod!Generate, Pod!Edit, Pod!Roll, Pod!Observe,
     Pod!Crash, Pod!stsVars, Pod!vars
<1> QED BY <1>1, <1>2, <1>3, <1>4 DEF Pod!Next

\* HashesKept: for any number of edits and failures, conflicts and stale copies, no
\* controller takes back what the other wrote into the template in the meantime.
THEOREM HashesKeptTheorem ==
    ASSUME Pod!ConstantsAssumption
    PROVE  Pod!Spec => Pod!HashesKept
<1>1. Pod!Init => Pod!TypeOK /\ MadeOnce
  <2>1. Pod!Init => MadeOnce
    BY DEF Pod!Init, Pod!NoSet, MadeOnce
  <2> QED BY <2>1, TemplateInit
<1>2. Pod!TypeOK /\ MadeOnce /\ [Pod!Next]_Pod!vars => (Pod!TypeOK /\ MadeOnce)'
  BY TemplateTyped, MadeOncePreserved
<1>3. Pod!TypeOK /\ MadeOnce /\ [Pod!Next]_Pod!vars =>
        [sts'.secrets # sts.secrets =>
            sts' = [sts EXCEPT !.secrets = hash] /\ spc = "Annotate"]_Pod!vars
  BY StepKeepsHashes
<1> QED BY <1>1, <1>2, <1>3, PTL DEF Pod!Spec, Pod!HashesKept
=============================================================================
