---------------------------- MODULE BanRecovery ----------------------------
(***************************************************************************)
(* Recovery from an IP ban (handleSelfBan and resetBanRecovery in          *)
(* bootstrap_controller.go).  When Home Assistant answers 403 the operator *)
(* deletes its pod; an init container of the new pod removes the           *)
(* operator's address from the ban list.  The restarts are limited by a    *)
(* window, a cooldown and a counter, all kept in the resource's status.    *)
(*                                                                         *)
(* A timestamp in the status is modelled by its age, which the clock       *)
(* advances and caps just above Window: every decision compares an age     *)
(* with Window or Cooldown, so nothing is lost and time never runs out.    *)
(***************************************************************************)
EXTENDS Integers, Sequences, FiniteSets

CONSTANTS
    MaxRestarts,  \* banRestartMaxCount
    Window,       \* banRestartWindow, in clock ticks
    Cooldown,     \* selfUnbanCooldown, in clock ticks
    MaxFaults     \* bound: lost status patches, crashes, outdated reads

ASSUME ConstantsAssumption ==
    /\ MaxRestarts \in Nat \ {0}
    /\ Window \in Nat \ {0} /\ Cooldown \in Nat \ {0} /\ Cooldown <= Window
    /\ MaxFaults \in Nat

VARIABLES
    given,     \* what this cluster is like, see UnbanWorks and Prompt; never changed
    status,    \* the ban fields of the HomeAssistant status in the API server
    view,      \* the informer's copy, which a reconcile starts from
    mine,      \* the copy of the reconcile that has just deleted the pod
    pc,        \* "idle", or "commit" between the deletion and its status patch
    pod,       \* "up" or "starting"
    banned,    \* Home Assistant refuses the operator's address
    recent,    \* history: ages of the deletions since the last connection
    blurred,   \* history: restarts the status cannot account for
    faults     \* how much of the fault budget is spent

vars == <<given, status, view, mine, pc, pod, banned, recent, blurred, faults>>

\* The init container can clear the operator's address.
UnbanWorks == "curable" \in given
\* Requeues, watches and boots take less than a tick, so that no reconcile starts
\* from an outdated copy.
Prompt == "prompt" \in given

None == -1                       \* an unset timestamp
Expired == Window + 1            \* any age beyond the window
Ages == 0 .. Expired
Fields == [start : Ages \cup {None}, count : 0 .. MaxRestarts,
           last : Ages \cup {None}, cond : {"none", "progress", "failed"}]
Clear == [start |-> None, count |-> 0, last |-> None, cond |-> "none"]

Older(a) == IF a \in {None, Expired} THEN a ELSE a + 1
Aged(s) == [s EXCEPT !.start = Older(@), !.last = Older(@)]

Spend == faults < MaxFaults /\ faults' = faults + 1

-----------------------------------------------------------------------------
(* handleSelfBan.                                                           *)

\* Mutation of WindowReset: the window never expires.
WindowKept(s) == s

\* An expired window is forgotten, in the reconcile's own copy only.
WindowReset(s) ==
    IF s.start = Expired THEN [s EXCEPT !.start = None, !.count = 0] ELSE s

\* The last restart is too recent, so a 403 changes nothing.
CoolingDown(s) == s.last # None /\ s.last < Cooldown

\* Mutation of Exhausted: off by one.
ExhaustedEarly(s) == s.count >= MaxRestarts - 1

Exhausted(s) == s.count >= MaxRestarts

Refused == pc = "idle" /\ pod = "up" /\ banned

\* A decision on an outdated copy is one of the faults the budget bounds, and the
\* status can no longer account for what follows.
Decide == IF view = status THEN UNCHANGED <<blurred, faults>>
          ELSE ~Prompt /\ Spend /\ blurred' = blurred + 1

\* The limit is reached: report it and wait.  The patch may be lost.
ReportLimit ==
    /\ Refused
    /\ ~CoolingDown(view) /\ Exhausted(WindowReset(view))
    /\ \/ status' = [status EXCEPT !.cond = "failed"] /\ Decide
       \/ Spend /\ UNCHANGED <<status, blurred>>
    /\ UNCHANGED <<given, view, mine, pc, pod, banned, recent>>

\* The new pod's init container takes the address off the list if it can.
Restarted == /\ pod' = "starting"
             /\ banned' = (banned /\ ~UnbanWorks)

\* The pod is deleted before anything is counted; a failed deletion changes
\* nothing at all.
DeletePod ==
    /\ Refused
    /\ ~CoolingDown(view) /\ ~Exhausted(WindowReset(view))
    /\ Restarted
    /\ mine' = WindowReset(view)
    /\ pc' = "commit"
    /\ recent' = Append(recent, 0)
    /\ Decide
    /\ UNCHANGED <<given, status, view>>

\* Mutation of Counted: the restart is dated but not counted.
CountedNot(s, m) == [s EXCEPT !.start = IF m.start = None THEN 0 ELSE @,
                              !.count = m.count, !.last = 0, !.cond = "progress"]

\* The merge patch carries what the handler changed in its copy m: the counter,
\* the time of the restart, and the start of a window it opens.
Counted(s, m) == [s EXCEPT !.start = IF m.start = None THEN 0 ELSE @,
                           !.count = m.count + 1, !.last = 0, !.cond = "progress"]

\* The restart is counted; or the patch is lost, with the operator's process or
\* without, and the restart is not.
CountRestart ==
    /\ pc = "commit"
    /\ \/ status' = Counted(status, mine) /\ UNCHANGED <<blurred, faults>>
       \/ Spend /\ blurred' = blurred + 1 /\ UNCHANGED status
    /\ pc' = "idle" /\ mine' = Clear
    /\ UNCHANGED <<given, view, pod, banned, recent>>

\* resetBanRecovery: a healthy probe clears whatever the copy at hand shows.
Reset(s, v) == [start |-> IF v.start = None THEN s.start ELSE None,
                count |-> IF v.count = 0 THEN s.count ELSE 0,
                last |-> IF v.last = None THEN s.last ELSE None,
                cond |-> IF v.cond = "none" THEN s.cond ELSE "none"]
NothingToReset(v) == v.count = 0 /\ v.last = None /\ v.cond = "none"

Connect ==
    /\ pc = "idle" /\ pod = "up" /\ ~banned
    /\ \/ /\ status' = IF NothingToReset(view) THEN status ELSE Reset(status, view)
          /\ Decide
       \/ Spend /\ UNCHANGED <<status, blurred>>
    /\ recent' = <<>>
    /\ UNCHANGED <<given, view, mine, pc, pod, banned>>

-----------------------------------------------------------------------------
(* Around the operator.                                                     *)

\* Failed logins get the operator's address banned.
Ban ==
    /\ pod = "up" /\ ~banned /\ banned' = TRUE
    /\ UNCHANGED <<given, status, view, mine, pc, pod, recent, blurred, faults>>

Boot ==
    /\ pod = "starting" /\ pod' = "up"
    /\ UNCHANGED <<given, status, view, mine, pc, banned, recent, blurred, faults>>

\* Somebody clears the ban list by hand and restarts Home Assistant.
RepairByHand ==
    /\ banned /\ Spend
    /\ pod' = "starting" /\ banned' = FALSE
    /\ UNCHANGED <<given, status, view, mine, pc, recent, blurred>>

InformerSync ==
    /\ view # status /\ view' = status
    /\ UNCHANGED <<given, status, mine, pc, pod, banned, recent, blurred, faults>>

\* Nothing is overdue: the informer caught up, the pod booted, and a restart or a
\* report that the requeue interval calls for was made.
KeptUp == /\ view = status /\ pod = "up"
          /\ banned => CoolingDown(view) \/ status.cond = "failed"
          /\ banned /\ ~CoolingDown(view) => Exhausted(WindowReset(view))

\* The restarts, oldest first, a tick later: those beyond the window are dropped.
OneTickOlder ==
    \E k \in 0 .. Len(recent) :
        /\ \A i \in 1 .. Len(recent) : recent[i] = Window <=> i <= k
        /\ recent' = [i \in 1 .. Len(recent) - k |-> recent[i + k] + 1]

\* Time passes between the handler's calls, never within one.
Tick ==
    /\ pc = "idle" /\ (Prompt => KeptUp)
    /\ status' = Aged(status) /\ view' = Aged(view)
    /\ OneTickOlder
    /\ UNCHANGED <<given, mine, pc, pod, banned, blurred, faults>>

Init ==
    /\ given \in SUBSET {"curable", "prompt"}
    /\ status = Clear /\ view = Clear /\ mine = Clear /\ pc = "idle"
    /\ pod = "up" /\ banned = FALSE
    /\ recent = <<>> /\ blurred = 0 /\ faults = 0

Operator == ReportLimit \/ DeletePod \/ CountRestart \/ Connect
Next == Operator \/ Ban \/ Boot \/ RepairByHand \/ InformerSync \/ Tick

Spec == Init /\ [][Next]_vars

\* The handler asks to be requeued after every outcome and the health cycle
\* runs every two minutes; pods boot, watches deliver and clocks advance.
FairSpec == /\ Spec
            /\ WF_vars(ReportLimit) /\ WF_vars(DeletePod) /\ WF_vars(CountRestart)
            /\ WF_vars(Boot) /\ WF_vars(InformerSync) /\ WF_vars(Tick)

-----------------------------------------------------------------------------
TypeOK ==
    /\ given \in SUBSET {"curable", "prompt"}
    /\ status \in Fields /\ view \in Fields /\ mine \in Fields
    /\ pc \in {"idle", "commit"} /\ pod \in {"up", "starting"} /\ banned \in BOOLEAN
    /\ recent \in Seq(0 .. Window) /\ blurred \in Nat
    /\ faults \in 0 .. MaxFaults

\* The restarts of the current window, counted at the pod and not in the status,
\* stay within the limit, apart from those whose record was lost or overwritten.
WindowBudget ==
    status.start \in 0 .. Window =>
        Cardinality({i \in 1 .. Len(recent) : recent[i] <= status.start})
            <= MaxRestarts + blurred

\* A pod that was just restarted is left alone until the cooldown is over, even
\* across the expiry of a window, unless the status missed the restart.
CooldownKept ==
    [][Len(recent') > Len(recent) /\ recent # <<>> /\ blurred = 0 /\ view = status
         => recent[Len(recent)] >= Cooldown]_vars

\* BanRecoveryFailed is reported only when every restart of the window is used.
FailedMeansExhausted ==
    status.cond = "failed" => status.count = MaxRestarts \/ blurred > 0

\* While the init container works, every ban ends without anybody's help, even
\* one that has exhausted a window.
EveryBanEnds == UnbanWorks /\ Prompt /\ banned ~> ~banned

\* A ban the restarts cannot cure is reported, again and again, for as long as
\* it lasts.
LastingBanReported == <>[](banned /\ Prompt) => []<>(status.cond = "failed")
=============================================================================
