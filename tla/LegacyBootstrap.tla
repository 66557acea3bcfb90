-------------------------- MODULE LegacyBootstrap --------------------------
(***************************************************************************)
(* Onboarding of one HomeAssistant resource in legacy mode                 *)
(* (reconcileBootstrap and its helpers in bootstrap_controller.go, and     *)
(* PerformBootstrap in haclient/client.go): the owner is created through   *)
(* the onboarding API, or, when onboarding turns out to be over, the       *)
(* operator logs in with the configured password and issues a token.       *)
(*                                                                         *)
(* A booting Home Assistant answers 404 on /api/onboarding although        *)
(* onboarding is open, so the first 404 only starts a confirmation window. *)
(* Its start is modelled by its age, capped at ConfirmDelay.               *)
(***************************************************************************)
EXTENDS Integers

CONSTANTS
    MaxRetries,    \* maxLoginRecoveryRetries
    ConfirmDelay,  \* onboardingConfirmDelay, in clock ticks
    MaxFaults      \* bound: restarts of HA, failed calls, crashes

ASSUME ConstantsAssumption ==
    /\ MaxRetries \in Nat \ {0} /\ ConfirmDelay \in Nat \ {0} /\ MaxFaults \in Nat

VARIABLES
    wants,      \* what spec.bootstrap asks for: "token", "location"; never changed
    status,     \* status.bootstrap and the reason of condition BootstrapReady
    cache,      \* the informer's copy of it
    mine,       \* the reconcile's copy, taken from the informer's
    pc,         \* the next call of the running reconcile, or "Idle"
    phase,      \* Home Assistant: "down", "booting" (404s) or "up"
    booted,     \* ticks since it started to boot, capped at ConfirmDelay
    owner,      \* it has an owner
    finished,   \* its onboarding steps after the owner are complete
    password,   \* the configured password is the owner's
    secret,     \* the API token Secret exists
    failed,     \* history: logins that failed, other than with a form, since
                \* the retry budget was last reset
    lost,       \* history: status updates that failed or were overlooked
    faults      \* how much of the fault budget is spent

vars == <<wants, status, cache, mine, pc, phase, booted, owner, finished, password, secret,
          failed, lost, faults>>
world == <<phase, booted, owner, finished, password>>

\* createAPIToken, and a location among the settings.
WantToken == "token" \in wants
HasLocation == "location" \in wants

None == -1
Ages == 0 .. ConfirmDelay
Status == [completed : BOOLEAN, ready : BOOLEAN, seen : Ages \cup {None},
           attempts : 0 .. MaxRetries,
           reason : {"none", "notReady", "alreadyDone", "failed", "loginFailed", "completed"}]
Blank == [completed |-> FALSE, ready |-> FALSE, seen |-> None, attempts |-> 0,
          reason |-> "none"]

Older(a) == IF a \in {None, ConfirmDelay} THEN a ELSE a + 1

Spend == faults < MaxFaults /\ faults' = faults + 1

-----------------------------------------------------------------------------
(* Building blocks.                                                         *)

Goto(label) == pc' = label /\ UNCHANGED <<mine, status, cache, lost, faults>>
Return == pc' = "Idle" /\ mine' = Blank

\* updateBootstrapStatus: the status is read again, changed and written.  A
\* conflict is tried again, so the write goes through when the informer has caught
\* up, or fails and ends the reconcile with an error.
Report(new) ==
    /\ Return
    /\ \/ status' = new /\ cache' = status /\ UNCHANGED <<lost, faults>>
       \/ Spend /\ lost' = lost + 1 /\ UNCHANGED <<status, cache>>

Because(reason) == [status EXCEPT !.reason = reason, !.completed = FALSE]
Reset(reason) == [Because(reason) EXCEPT !.seen = None, !.attempts = 0]
Completed(base, token) == [base EXCEPT !.completed = TRUE, !.ready = @ \/ token]
Done(reason, token) == Completed(Reset(reason), token)

\* A call to Home Assistant fails for a reason of its own.
CallFails(reason) ==
    /\ Spend /\ Return
    /\ status' = Because(reason) /\ cache' = status /\ UNCHANGED lost

\* What /api/onboarding answers: 404 while booting, and once an owner exists.
Open == phase = "up" /\ ~owner
LooksDone == phase = "booting" \/ (phase = "up" /\ owner)

-----------------------------------------------------------------------------
(* reconcileBootstrap.                                                      *)

\* The informer's copy of the bootstrap status is read, which may be one write
\* behind; a healthy API with all routes is required.
Start ==
    /\ pc = "Idle" /\ ~cache.completed
    /\ IF phase = "down" THEN Report(Because("notReady"))
       ELSE /\ pc' = "Bootstrap" /\ mine' = cache
            /\ \/ cache = status /\ UNCHANGED <<lost, faults>>
               \/ /\ cache # status /\ Spend
                  /\ lost' = IF cache.attempts = status.attempts THEN lost ELSE lost + 1
            /\ UNCHANGED <<status, cache>>
    /\ UNCHANGED <<world, secret, failed>>

\* PerformBootstrap up to the owner: created, or found, or not reachable.  The
\* answer to the creation may be lost.
Bootstrap ==
    /\ pc = "Bootstrap"
    /\ \/ Open /\ owner' = TRUE /\ Goto("Steps")
       \/ Open /\ owner' = TRUE /\ CallFails("failed")
       \/ LooksDone /\ Goto("Decide") /\ UNCHANGED owner
       \/ /\ phase = "down" /\ UNCHANGED owner
          /\ \E reason \in {"notReady", "failed"} : Report(Because(reason))
    /\ UNCHANGED <<phase, booted, finished, password, secret, failed>>

\* PerformBootstrap, the other onboarding steps and the settings.
Steps ==
    /\ pc = "Steps"
    /\ \/ /\ phase # "down" /\ finished' = TRUE
          /\ IF WantToken THEN Goto("IssueToken")
             ELSE Report(Completed(Because("completed"), FALSE))
       \/ /\ phase = "down" /\ UNCHANGED finished
          /\ \E reason \in {"notReady", "failed"} : Report(Because(reason))
       \/ CallFails("failed") /\ UNCHANGED finished
    /\ UNCHANGED <<phase, booted, owner, password, secret, failed>>

-----------------------------------------------------------------------------
(* Onboarding seems to be over.                                             *)

\* Mutation of Unconfirmed: the age of the first 404 is taken from the last
\* attempt, which every reconcile renews.
NeverConfirmed(s) == TRUE

\* The first 404 is too recent, or was never noted.
Unconfirmed(s) == s.seen # ConfirmDelay

\* handleBootstrapError.  After the retries are used up only a reopened
\* onboarding helps; a first 404 opens the confirmation window, and until it has
\* passed the next reconcile asks again.
Decide ==
    /\ pc = "Decide"
    /\ \/ /\ mine.reason = "loginFailed"
          /\ IF Open THEN Report(Reset("notReady")) /\ failed' = 0
             ELSE Return /\ UNCHANGED <<status, cache, lost, faults, failed>>
       \/ /\ mine.reason # "loginFailed" /\ Unconfirmed(mine)
          /\ IF mine.seen = None THEN Report([Because("alreadyDone") EXCEPT !.seen = 0])
             ELSE Return /\ UNCHANGED <<status, cache, lost, faults>>
          /\ UNCHANGED failed
       \/ /\ mine.reason # "loginFailed" /\ ~Unconfirmed(mine)
          /\ Goto("Resume") /\ UNCHANGED failed
    /\ UNCHANGED <<world, secret>>

\* Mutation of Retried: each failure counts as the first.
RetriedOnce(s) == 1

Retried(s) == s.attempts + 1

\* LoginWithCredentials succeeds.
LoginWorks == phase # "down" /\ owner /\ password

\* The login flow ends with another form, which the client takes for a missing
\* user, be there one or not: the confirmation window starts again, and no retry
\* is used up.
NoUser ==
    /\ phase # "down" /\ ~(owner /\ password)
    /\ Report([Because("notReady") EXCEPT !.seen = None])
    /\ UNCHANGED failed

\* Any other answer, or none, uses up a retry, counted from the reconcile's copy.
Refused ==
    /\ phase # "up" \/ ~(owner /\ password)
    /\ failed' = failed + 1
    /\ Report([Because(IF Retried(mine) >= MaxRetries THEN "loginFailed" ELSE "alreadyDone")
                 EXCEPT !.attempts = Retried(mine)])

\* handleBootstrapLoginError.
LoginFails == NoUser \/ Refused

Exhausted(s) == s.attempts >= MaxRetries

\* Mutation of NeedsSettings: skipped when no token is wanted.
NeedsSettingsForToken == HasLocation /\ WantToken

NeedsSettings == HasLocation

\* handleOnboardingAlreadyDone, first part: the requested settings are applied,
\* with the stored token or else the owner's session.
Resume ==
    /\ pc = "Resume"
    /\ \/ /\ Exhausted(mine) /\ Return
          /\ UNCHANGED <<status, cache, lost, faults, finished, failed>>
       \/ /\ ~Exhausted(mine) /\ NeedsSettings /\ ~secret
          /\ LoginFails
          /\ UNCHANGED finished
       \/ /\ ~Exhausted(mine) /\ NeedsSettings /\ secret /\ phase = "down"
          /\ Report(Because("failed")) /\ UNCHANGED <<finished, failed>>
       \/ /\ ~Exhausted(mine) /\ NeedsSettings /\ phase # "down"
          /\ secret \/ LoginWorks
          /\ finished' = TRUE /\ Goto("Shortcut") /\ UNCHANGED failed
       \/ /\ ~Exhausted(mine) /\ ~NeedsSettings
          /\ Goto("Shortcut") /\ UNCHANGED <<finished, failed>>
    /\ UNCHANGED <<phase, booted, owner, password, secret>>

\* Mutation of NothingLeft: an earlier report is trusted.
NothingLeftAsReported(s) == ~WantToken \/ s.reason = "alreadyDone"

NothingLeft(s) == ~WantToken \/ secret

\* Second part: nothing more to do without a token, or with one already stored;
\* otherwise onboarding is asked about once more before a login.
Shortcut ==
    /\ pc = "Shortcut"
    /\ \/ /\ NothingLeft(mine) /\ failed' = 0
          /\ Report(Done("alreadyDone", WantToken))
       \/ ~NothingLeft(mine) /\ Open /\ Report(Reset("notReady")) /\ failed' = 0
       \/ ~NothingLeft(mine) /\ LooksDone /\ Goto("Login") /\ UNCHANGED failed
       \/ /\ ~NothingLeft(mine) /\ phase = "down" /\ Report(Because("notReady"))
          /\ UNCHANGED failed
    /\ UNCHANGED <<world, secret>>

Login ==
    /\ pc = "Login"
    /\ \/ LoginFails
       \/ LoginWorks /\ Goto("RecoverToken") /\ UNCHANGED failed
    /\ UNCHANGED <<world, secret>>

-----------------------------------------------------------------------------
(* The token.                                                               *)

IssueToken ==
    /\ \/ pc = "IssueToken" /\ phase # "down" /\ Goto("SaveSecret")
       \/ pc = "RecoverToken" /\ phase # "down" /\ Goto("SaveRecovered")
       \/ pc \in {"IssueToken", "RecoverToken"} /\ phase = "down" /\ Report(Because("failed"))
       \/ pc \in {"IssueToken", "RecoverToken"} /\ CallFails("failed")
    /\ UNCHANGED <<world, secret, failed>>

\* createAPITokenSecret: created, or updated if there is one.  Only a recovery
\* clears the confirmation window and the retries.
SaveSecret ==
    /\ \/ /\ pc = "SaveSecret" /\ secret' = TRUE
          /\ Report(Completed(Because("completed"), TRUE)) /\ UNCHANGED failed
       \/ /\ pc = "SaveRecovered" /\ secret' = TRUE
          /\ Report(Done("completed", TRUE)) /\ failed' = 0
       \/ /\ pc \in {"SaveSecret", "SaveRecovered"}
          /\ CallFails("failed") /\ UNCHANGED <<secret, failed>>
    /\ UNCHANGED world

-----------------------------------------------------------------------------
(* Around the operator.                                                     *)

\* Home Assistant starts, registers its routes and views, and restarts.  A boot
\* takes less time than the confirmation window.
Serve ==
    /\ phase = "down" /\ phase' = "booting" /\ booted' = 0
    /\ UNCHANGED <<status, cache, mine, pc, owner, finished, password, secret, failed, lost, faults>>
FinishBoot ==
    /\ phase = "booting" /\ phase' = "up"
    /\ UNCHANGED <<status, cache, mine, pc, booted, owner, finished, password, secret, failed, lost, faults>>
Restart ==
    /\ phase # "down" /\ Spend
    /\ phase' = "down"
    /\ UNCHANGED <<status, cache, mine, pc, booted, owner, finished, password, secret, failed, lost>>

Crash ==
    /\ pc # "Idle" /\ Spend /\ Return
    /\ UNCHANGED <<status, cache, world, secret, failed, lost>>

\* Somebody puts the right password into the credentials Secret.
CorrectPassword ==
    /\ ~password /\ password' = TRUE
    /\ UNCHANGED <<status, cache, mine, pc, phase, booted, owner, finished, secret, failed, lost, faults>>

\* The informer catches up.
Observe ==
    /\ cache # status /\ cache' = status
    /\ UNCHANGED <<status, mine, pc, world, secret, failed, lost, faults>>

Tick ==
    /\ phase = "booting" => booted + 1 < ConfirmDelay
    /\ booted' = IF phase = "booting" THEN booted + 1 ELSE booted
    /\ status' = [status EXCEPT !.seen = Older(@)]
    /\ cache' = [cache EXCEPT !.seen = Older(@)]
    /\ mine' = [mine EXCEPT !.seen = Older(@)]
    /\ UNCHANGED <<pc, phase, owner, finished, password, secret, failed, lost, faults>>

Init ==
    /\ status = Blank /\ cache = Blank /\ mine = Blank /\ pc = "Idle"
    /\ phase = "down" /\ booted = 0
    /\ wants \in SUBSET {"token", "location"}
    /\ owner \in BOOLEAN /\ finished = owner
    /\ password \in BOOLEAN /\ (~owner => password)
    /\ secret = FALSE
    /\ failed = 0 /\ lost = 0 /\ faults = 0

Operator ==
    /\ \/ Start \/ Bootstrap \/ Steps \/ Decide \/ Resume \/ Shortcut \/ Login
       \/ IssueToken \/ SaveSecret
    /\ UNCHANGED wants
Pod == (Serve \/ FinishBoot) /\ UNCHANGED wants
Clock == Tick /\ UNCHANGED wants
Informer == Observe /\ UNCHANGED wants
Mishap == (Restart \/ Crash \/ CorrectPassword) /\ UNCHANGED wants

Next == Operator \/ Pod \/ Clock \/ Informer \/ Mishap

Spec == Init /\ [][Next]_vars

\* Every outcome short of completion requeues; pods start, clocks advance and
\* informers catch up.
FairSpec ==
    Spec /\ WF_vars(Operator) /\ WF_vars(Pod) /\ WF_vars(Clock) /\ WF_vars(Informer)

-----------------------------------------------------------------------------
Labels == {"Idle", "Bootstrap", "Steps", "Decide", "Resume", "Shortcut", "Login",
           "IssueToken", "RecoverToken", "SaveSecret", "SaveRecovered"}
TypeOK ==
    /\ wants \in SUBSET {"token", "location"}
    /\ status \in Status /\ cache \in Status /\ mine \in Status /\ pc \in Labels
    /\ phase \in {"down", "booting", "up"} /\ booted \in Ages
    /\ owner \in BOOLEAN /\ finished \in BOOLEAN /\ password \in BOOLEAN
    /\ secret \in BOOLEAN
    /\ failed \in Nat /\ lost \in 0 .. MaxFaults /\ faults \in 0 .. MaxFaults

\* At most MaxRetries logins fail until onboarding reopens or a token is stored,
\* however the confirmation windows between them restart, apart from those whose
\* record was lost, or overlooked by a reconcile on an outdated copy.  Logins that
\* end with another form are not among them: the code counts none of these, not
\* even when it is a wrong password that Home Assistant answers like that.
LoginsBounded == failed <= MaxRetries + lost

\* With a token requested, bootstrap is never called complete on an instance that
\* has no owner or before the token is stored, however the 404s of restarting
\* instances fall.
CompletedMeansUsable == WantToken /\ status.completed => owner /\ secret

\* With the right password bootstrap completes in the end, or the login retries
\* are used up (a login that did not reach Home Assistant uses one up, too).  Where
\* a location is requested, the instance has an owner by then and the onboarding
\* steps after the owner are finished, whichever of them failed before.
Finished == status.completed /\ (HasLocation => owner /\ finished)
Bootstrapped == password ~> Finished \/ status.attempts = MaxRetries
=============================================================================
