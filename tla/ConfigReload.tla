---------------------------- MODULE ConfigReload ----------------------------
(***************************************************************************)
(* How a change of a HomeAssistantConfiguration gets into the generated    *)
(* ConfigMap, is announced there as one that needs a restart, and how its  *)
(* http section reaches Home Assistant (Reconcile and performConfigReload  *)
(* of homeassistantconfiguration_controller.go, with HttpConfig).          *)
(*                                                                         *)
(* One worker, which reads the resource and the ConfigMap from caches that *)
(* may lag and is refused an update made from a copy that is not current.  *)
(* A file is what configuration.yaml holds: a number for all of it but the *)
(* http section, and that section.  A file stands for its own hash.        *)
(***************************************************************************)
EXTENDS HttpConfig

CONSTANTS
    MaxEdits,     \* bound: changes of the spec
    MaxFaults     \* bound: failed calls, crashes, ConfigMaps edited by somebody, UI changes

ASSUME ConstantsAssumption == MaxEdits \in Nat \ {0} /\ MaxFaults \in Nat

Bodies == 0 .. 3
\* The part whose change needs a restart: added, removed and critical sections.
Core(body) == body \div 2
Files == [body : Bodies, http : Sections]
NoFile == [body |-> -1, http |-> "none"]

VARIABLES
    http, exposed,                \* the behaviour is about http; the instance is exposed
    strategy,                     \* "off" stands for autoReload: false
    conf, confSeen, confFresh,    \* the resource with its status, its cached copy
    cm, cmSeen, cmFresh,          \* the ConfigMap's file and hash annotation, its copy
    pc, mine, valid, old, probe,  \* next step, copy of the resource, file before, probe
    owed, lost,                   \* history: a file written in vain; one was given up for another
    raced,                        \* history: a user acted since the probe
    edits, faults

setting == <<http, exposed, strategy>>
confVars == <<conf, confSeen, confFresh>>
cmVars == <<cm, cmSeen, cmFresh>>
run == <<pc, mine, valid, old, probe>>
history == <<owed, lost, raced>>
moving == <<confVars, cmVars, run, history, edits, faults, httpVars>>
vars == <<setting, moving>>

Spend == faults < MaxFaults /\ faults' = faults + 1
Refused(fresh) == IF fresh THEN Spend ELSE UNCHANGED faults

-----------------------------------------------------------------------------
(* Reconcile.                                                               *)

Blank == [body |-> 0, http |-> "none", hash |-> NoFile, condition |-> "none"]
Idle == pc' = "Idle" /\ mine' = Blank /\ valid' = FALSE /\ old' = NoFile /\ probe' = Unknown
Goto(label) == pc' = label /\ UNCHANGED <<mine, valid, old, probe>>

\* buildConfigContent, and without its http section what the API delivers.
Section(copy) == Injected(copy.http, exposed)
File(copy, found) ==
    [body |-> copy.body, http |-> Stripped(found, Section(copy), Section(copy))]
Want == File(mine, probe)

\* An error ends the reconcile; the condition that reports it is a new version, unless
\* the copy it is written from is not current.
Fail ==
    /\ Idle /\ owed' = IF cm.file = Want /\ ~lost THEN Want ELSE owed
    /\ confFresh' \in {confFresh, confFresh /\ ~valid} /\ raced' = FALSE
    /\ UNCHANGED <<conf, confSeen, lost>>

\* The probe decides where the http section goes.  The file of the ConfigMap is
\* remembered for the choice of the strategy.
Start ==
    /\ pc = "Idle" /\ (http => confFresh /\ cmFresh) /\ pc' = "Write" /\ valid' = confFresh
    /\ mine' = [confSeen EXCEPT !.condition = "none"]
    /\ \/ probe' = Probed /\ UNCHANGED faults
       \/ up /\ Spend /\ probe' = Unknown
    /\ old' = cmSeen.file
    /\ lost' = (lost \/ owed \notin {NoFile, File(confSeen, probe')})
    /\ UNCHANGED <<setting, confVars, cmVars, owed, raced, edits, httpVars>>

\* Mutation of Written: the file that exists is kept.
WrittenOnce(file) == IF file = NoFile THEN Want ELSE file

Written(file) == Want

PutMap(map) == cm' = map /\ cmFresh' = (cmFresh /\ map = cm) /\ UNCHANGED cmSeen

\* The file that was there, without what is not the file's concern any more.
Before == [old EXCEPT !.http = Stripped(probe, Section(mine), @)]

\* isDeliveryChannelSwitchOnly: the http section moved from the file to the API.
SwitchOnly == Before # old /\ Before = Want

Reloads == strategy # "off" /\ mine.hash # Want /\ ~SwitchOnly

\* The hash in the status says there is nothing new, and still the ConfigMap differs.
Restores == mine.hash = Want /\ cmSeen.file # Written(cmSeen.file)

\* reconcileGeneratedConfigMap, and before it syncConfigMapFromCRD for a file to be
\* restored: the annotation stays as it is.  When both write, from a cache that does
\* not show the first write yet, the second is refused.
Write ==
    /\ pc = "Write"
    /\ \/ /\ cmFresh \/ cmSeen.file = Written(cmSeen.file)
          /\ IF cmSeen.file = Written(cmSeen.file) THEN UNCHANGED cmVars
             ELSE PutMap([cm EXCEPT !.file = Written(@)])
          /\ \/ Goto(IF Reloads THEN "Decide" ELSE "Deliver") /\ UNCHANGED <<confVars, history>>
             \/ Restores /\ Fail
          /\ UNCHANGED faults
       \/ Refused(cmFresh) /\ Fail /\ UNCHANGED cmVars
    /\ UNCHANGED <<setting, edits, httpVars>>

\* httpSectionChanged: proxies and networks can be reloaded; what Home Assistant refuses
\* stands for the other keys.
HttpCritical(before, after) == before # after /\ {before, after} \cap {"bad", "include"} # {}

\* Mutation of NeedsRestart: no restart for a file that an earlier, failed reconcile
\* has written.
ForgottenRestart(before, after) ==
    before = NoFile \/ Core(before.body) # Core(after.body) \/ HttpCritical(before.http, after.http)

\* needsRestart, and the retry safety: a file that is there already.
NeedsRestart(before, after) ==
    \/ before = NoFile \/ before = after
    \/ Core(before.body) # Core(after.body) \/ HttpCritical(before.http, after.http)

\* Chosen by the user, or by performConfigReload itself for a change it can take.
HotReloads == strategy = "hot-reload" \/ (strategy = "auto" /\ ~NeedsRestart(Before, Want))
\* "auto" falls back to a restart when there is no API token.
Restarts == strategy = "restart" \/ (strategy = "auto" /\ (~HotReloads \/ probe.path = "undetermined"))

\* performConfigReload.  A hot reload that fails is an error for "auto", too, whose
\* name for the strategy it chose is the one the user would have given; the retry
\* then finds the file written.
Decide ==
    /\ pc = "Decide"
    /\ \/ Restarts /\ Goto("Mark") /\ UNCHANGED <<confVars, history>>
       \/ HotReloads /\ Goto("Deliver") /\ UNCHANGED <<confVars, history>>
       \/ HotReloads /\ Fail
    /\ UNCHANGED <<setting, cmVars, edits, faults, httpVars>>

\* updateConfigMapHashAnnotation.
Mark ==
    /\ pc = "Mark"
    /\ \/ /\ cmFresh \/ cmSeen.mark = Want
          /\ IF cmSeen.mark = Want THEN UNCHANGED cmVars
             ELSE PutMap([cm EXCEPT !.mark = Want])
          /\ Goto("Deliver") /\ UNCHANGED <<confVars, history, faults>>
       \/ Refused(cmFresh) /\ Fail /\ UNCHANGED cmVars
    /\ UNCHANGED <<setting, edits, httpVars>>

\* reconcileHTTPConfig, which fails in no way that ends the reconcile.
Deliver ==
    /\ pc = "Deliver" /\ pc' = "Save"
    /\ \E condition \in Conditions, fails \in BOOLEAN :
           /\ Delivery(probe, Section(mine), condition, fails)
           /\ mine' = [mine EXCEPT !.condition = condition]
           /\ IF fails THEN Spend ELSE UNCHANGED faults
    /\ raced' = FALSE /\ UNCHANGED <<setting, confVars, cmVars, valid, old, probe, owed, lost, edits>>

\* The status records the hash, and the condition of the delivery.
Save ==
    /\ pc = "Save"
    /\ \/ /\ valid /\ Idle
          /\ conf' = [conf EXCEPT !.hash = Want, !.condition = mine.condition]
          /\ confFresh' = (confFresh /\ conf' = conf) /\ UNCHANGED <<confSeen, faults>>
          /\ owed' = IF cm.file = Want THEN NoFile ELSE owed
          /\ raced' = FALSE /\ UNCHANGED lost
       \/ Refused(valid) /\ Fail
    /\ UNCHANGED <<setting, cmVars, edits, httpVars>>

-----------------------------------------------------------------------------
(* Users, the caches, failures.                                             *)

Edit ==
    /\ edits < MaxEdits /\ edits' = edits + 1
    /\ \E body \in Bodies, section \in Sections \ {"proxies"} :
           /\ IF http THEN body = 0 ELSE section = "none"
           /\ conf' = [conf EXCEPT !.body = body, !.http = section]
    /\ conf' # conf /\ confFresh' = FALSE /\ valid' = FALSE
    /\ UNCHANGED <<setting, confSeen, cmVars, pc, mine, old, probe, history, faults, httpVars>>

\* Somebody edits the generated ConfigMap.
Tamper ==
    /\ cm.file # NoFile /\ Spend /\ lost' = TRUE
    /\ \E body \in Bodies \ {cm.file.body} : cm' = [cm EXCEPT !.file.body = body]
    /\ cmFresh' = FALSE
    /\ UNCHANGED <<setting, confVars, cmSeen, run, owed, raced, edits, httpVars>>

ObserveConf ==
    /\ ~confFresh /\ confSeen' = conf /\ confFresh' = TRUE
    /\ UNCHANGED <<setting, conf, cmVars, run, history, edits, faults, httpVars>>
ObserveMap ==
    /\ ~cmFresh /\ cmSeen' = cm /\ cmFresh' = TRUE
    /\ UNCHANGED <<setting, confVars, cm, run, history, edits, faults, httpVars>>

Crash == pc # "Idle" /\ Spend /\ Fail /\ UNCHANGED <<setting, cmVars, edits, httpVars>>

\* Home Assistant by itself: it comes back, and drops what nobody confirmed.
Instance == /\ Restarted \/ (pending.data # Desired(Section(conf), stable) /\ Revert)
            /\ UNCHANGED <<setting, confVars, cmVars, run, history, edits, faults>>

\* What costs: a revert before the operator's next reconcile, outages, an upgrade,
\* users of the UI.
Meddle ==
    /\ http /\ Spend
    /\ \/ Revert /\ UNCHANGED raced
       \/ GoesDown /\ UNCHANGED raced
       \/ Upgrade(cm.file.http) /\ UNCHANGED raced
       \/ (UserConfigures \/ UserConfirms) /\ raced' = (pc # "Idle")
    /\ UNCHANGED <<setting, confVars, cmVars, run, owed, lost, edits>>

\* The bounds of a behaviour: it is about the strategies, or about http.
Init ==
    /\ http \in BOOLEAN
    /\ IF http THEN strategy = "auto" /\ exposed \in BOOLEAN /\ edits = MaxEdits - 1
       ELSE strategy \in {"auto", "restart", "hot-reload", "off"} /\ exposed = FALSE /\ edits = 0
    /\ HttpInit /\ (~http => up /\ ~supported)
    /\ conf = Blank /\ confSeen = conf /\ confFresh = TRUE
    /\ cm = [file |-> NoFile, mark |-> NoFile] /\ cmSeen = cm /\ cmFresh = TRUE
    /\ pc = "Idle" /\ mine = Blank /\ valid = FALSE /\ old = NoFile /\ probe = Unknown
    /\ owed = NoFile /\ lost = http /\ raced = FALSE /\ faults = 0

Step == Write \/ Decide \/ Mark \/ Deliver \/ Save
Next == Start \/ Step \/ ObserveConf \/ ObserveMap \/ Edit \/ Tamper \/ Crash \/ Instance \/ Meddle

Spec == Init /\ [][Next]_vars

\* The queue serves the resource again after failures, events and resyncs, the
\* caches catch up, and Home Assistant comes back.
FairSpec == /\ Spec /\ WF_vars(Step) /\ SF_vars(Start /\ confFresh /\ cmFresh)
            /\ WF_vars(ObserveConf) /\ WF_vars(ObserveMap) /\ WF_vars(Instance)

-----------------------------------------------------------------------------
TypeOK ==
    /\ HttpTypeOK /\ {http, exposed, confFresh, cmFresh, valid, lost, raced} \subseteq BOOLEAN
    /\ strategy \in {"auto", "restart", "hot-reload", "off"}
    /\ {conf, confSeen, mine} \subseteq
           [body : Bodies, http : Sections, hash : Files \cup {NoFile}, condition : Conditions]
    /\ {cm.file, cm.mark, cmSeen.file, cmSeen.mark, old, owed} \subseteq Files \cup {NoFile}
    /\ (confFresh => confSeen = conf) /\ (cmFresh => cmSeen = cm)
    /\ pc \in {"Idle", "Write", "Decide", "Mark", "Deliver", "Save"}
    /\ edits \in 0 .. MaxEdits /\ faults \in 0 .. MaxFaults

\* A change that needs a restart is announced: once the ConfigMap has the file that the
\* status records and the spec asks for, its annotation is of a file with the same critical
\* part, whatever failed and was retried, unless the spec changed again between a failed
\* reconcile and its retry, or the ConfigMap was tampered with.
CoreChangesMarked ==
    /\ pc = "Idle" /\ strategy \in {"auto", "restart"} /\ ~lost
    /\ conf.hash = cm.file /\ cm.file.body = conf.body
    => cm.mark # NoFile /\ Core(cm.mark.body) = Core(conf.body)

\* The ConfigMap ends up with the file of the spec, whatever somebody writes there and
\* whichever hot reload fails; with the http section where the API cannot take it, and
\* without where it can.
Delivered ==
    <>[](/\ cm.file.body = conf.body
         /\ ~(supported /\ conf.http = "bad")
            => cm.file.http = IF supported /\ Readable(Section(conf)) THEN "none"
                              ELSE Section(conf))

\* Home Assistant ends up running with the http configuration of the spec, nothing waits
\* for a confirmation and the status says so, whatever restarts, reverts and users of the
\* UI come in between; unless Home Assistant refuses it, which the status ends up saying
\* again and again.
HttpConverges ==
    /\ <>[](supported /\ Readable(Section(conf)) /\ conf.http # "bad"
            => /\ stable.known = Canonical(Section(conf)) /\ pending = NotPending
               /\ conf.condition = "applied")
    /\ []<>(supported /\ conf.http = "bad" => conf.condition = "rejected")

\* The operator confirms no configuration but the one the resource asks for, at least
\* while nobody replaces what is pending between its look and its confirmation.
OnlyOwnPromoted ==
    [][pc = "Deliver" /\ pc' = "Save" /\ ~raced /\ stable' # stable
       => stable' = Desired(Section(mine), stable)]_vars
=============================================================================
