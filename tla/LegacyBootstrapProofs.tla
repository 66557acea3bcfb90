------------------------ MODULE LegacyBootstrapProofs ------------------------
(***************************************************************************)
(* What the legacy onboarding keeps, for every retry limit, confirmation   *)
(* delay and number of faults: its types, the bound on failed logins, and  *)
(* that completion means an owner and a stored token.                      *)
(***************************************************************************)
EXTENDS LegacyBootstrap, TLAPS

Reasons == {"none", "notReady", "alreadyDone", "failed", "loginFailed", "completed"}

\* The retries of the status account for every failed login but the lost ones.
\* The informer is at most one failure behind; a reconcile's copy is not, because
\* one that overlooks a failure has it counted among the lost.  A login is only
\* tried while there are retries left.  What is lost costs a fault each.
RetriesAgree ==
    /\ lost <= faults
    /\ failed <= status.attempts + lost
    /\ failed <= cache.attempts + lost + 1
    /\ pc # "Idle" => failed <= mine.attempts + lost
    /\ pc \in {"Shortcut", "Login"} => mine.attempts < MaxRetries

\* The steps that only an owner's session can reach, and what a stored token
\* says of the owner.
Session == {"Steps", "IssueToken", "SaveSecret", "RecoverToken", "SaveRecovered"}
OwnerFirst ==
    /\ pc \in Session => owner
    /\ secret => owner

\* The inductive invariant.
IInv == TypeOK /\ RetriesAgree /\ OwnerFirst /\ CompletedMeansUsable

-----------------------------------------------------------------------------
(* What the building blocks write.                                          *)

\* The new statuses are statuses, and which of their fields are the old ones.
LEMMA NewStatus ==
    ASSUME status \in Status, NEW reason \in Reasons
    PROVE  /\ Because(reason) \in Status
           /\ Because(reason).attempts = status.attempts
           /\ Because(reason).completed = FALSE
           /\ Reset(reason) \in Status
           /\ Reset(reason).attempts = 0
           /\ Reset(reason).completed = FALSE
<1>1. /\ Because(reason) \in Status
      /\ Because(reason).attempts = status.attempts
      /\ Because(reason).completed = FALSE
  BY DEF Status, Because, Reasons
<1>2. None \in Ages \cup {None} /\ 0 \in 0 .. MaxRetries
  BY ConstantsAssumption
<1>3. Reset(reason) \in Status
  BY <1>1, <1>2 DEF Status, Reset
<1>4. Reset(reason).attempts = 0 /\ Reset(reason).completed = FALSE
  BY <1>1 DEF Status, Reset
<1> QED  BY <1>1, <1>3, <1>4

LEMMA CompletedStatus ==
    ASSUME NEW base \in Status, NEW token \in BOOLEAN
    PROVE  /\ Completed(base, token) \in Status
           /\ Completed(base, token).attempts = base.attempts
  BY DEF Status, Completed

LEMMA BlankIsStatus == Blank \in Status
  BY ConstantsAssumption DEF Blank, Status, Ages, None

\* An update of the status ends the reconcile, and loses at most one update.
LEMMA Reporting ==
    ASSUME TypeOK, RetriesAgree, NEW new \in Status, Report(new)
    PROVE  /\ pc' = "Idle" /\ mine' \in Status /\ status' \in Status /\ cache' \in Status
           /\ lost' \in 0 .. MaxFaults /\ faults' \in 0 .. MaxFaults /\ lost' <= faults'
           /\ \/ status' = new /\ cache' = status /\ lost' = lost
              \/ status' = status /\ cache' = cache /\ lost' = lost + 1
  BY BlankIsStatus, ConstantsAssumption DEF TypeOK, RetriesAgree, Report, Return, Spend

\* A failed call to Home Assistant only changes what the status says.
LEMMA Failing ==
    ASSUME TypeOK, RetriesAgree, NEW reason \in Reasons, CallFails(reason)
    PROVE  /\ pc' = "Idle" /\ mine' \in Status /\ status' \in Status /\ cache' = status
           /\ lost' = lost /\ faults' \in 0 .. MaxFaults /\ lost' <= faults'
           /\ status'.attempts = status.attempts /\ ~status'.completed
<1>1. status \in Status
  BY DEF TypeOK
<1>2. Because(reason) \in Status /\ Because(reason).attempts = status.attempts
      /\ Because(reason).completed = FALSE
  BY <1>1, NewStatus
<1>3. pc' = "Idle" /\ mine' \in Status
  BY BlankIsStatus DEF CallFails, Return
<1>4. status' = Because(reason) /\ cache' = status /\ lost' = lost
  BY DEF CallFails
<1>5. faults' \in 0 .. MaxFaults /\ lost' <= faults'
  BY ConstantsAssumption DEF TypeOK, RetriesAgree, CallFails, Spend
<1> QED  BY <1>2, <1>3, <1>4, <1>5

-----------------------------------------------------------------------------
(* The ways a step can leave the reconcile, each keeping the invariant.     *)

\* What a step may do around the reconcile: an owner and a token stay, and a
\* token comes after the owner.
Around ==
    /\ phase' \in {"down", "booting", "up"} /\ booted' \in Ages
    /\ owner' \in BOOLEAN /\ finished' \in BOOLEAN /\ password' \in BOOLEAN
    /\ secret' \in BOOLEAN
    /\ owner => owner'
    /\ secret => secret'
    /\ secret' => owner'
    /\ wants' = wants

LEMMA ReportKeeps ==
    ASSUME IInv, NEW new \in Status, Report(new), Around,
           failed' \in Nat, failed' <= new.attempts + lost, failed' <= failed + 1,
           WantToken /\ new.completed => secret'
    PROVE  IInv'
<1>1. TypeOK /\ RetriesAgree
  BY DEF IInv
<1>2. /\ pc' = "Idle" /\ mine' \in Status /\ status' \in Status /\ cache' \in Status
      /\ lost' \in 0 .. MaxFaults /\ faults' \in 0 .. MaxFaults /\ lost' <= faults'
      /\ \/ status' = new /\ cache' = status /\ lost' = lost
         \/ status' = status /\ cache' = cache /\ lost' = lost + 1
  BY <1>1, Reporting
<1>3. TypeOK'
  BY <1>1, <1>2 DEF Around, TypeOK, Labels
<1>4. RetriesAgree'
  <2>1. CASE status' = new /\ cache' = status /\ lost' = lost
    BY <1>1, <1>2, <2>1 DEF RetriesAgree, TypeOK, Status
  <2>2. CASE status' = status /\ cache' = cache /\ lost' = lost + 1
    BY <1>1, <1>2, <2>2 DEF RetriesAgree, TypeOK, Status
  <2> QED  BY <1>2, <2>1, <2>2
<1>5. OwnerFirst'
  BY <1>2 DEF Around, OwnerFirst, Session
<1>6. CompletedMeansUsable'
  BY <1>2 DEF IInv, OwnerFirst, Around, CompletedMeansUsable, WantToken
<1> QED  BY <1>3, <1>4, <1>5, <1>6 DEF IInv

LEMMA FailKeeps ==
    ASSUME IInv, NEW reason \in Reasons, CallFails(reason), Around, UNCHANGED failed
    PROVE  IInv'
<1>1. TypeOK /\ RetriesAgree
  BY DEF IInv
<1>2. /\ pc' = "Idle" /\ mine' \in Status /\ status' \in Status /\ cache' = status
      /\ lost' = lost /\ faults' \in 0 .. MaxFaults /\ lost' <= faults'
      /\ status'.attempts = status.attempts /\ ~status'.completed
  BY <1>1, Failing
<1>3. TypeOK' /\ RetriesAgree'
  BY <1>1, <1>2 DEF Around, TypeOK, RetriesAgree, Labels, Status
<1>4. OwnerFirst' /\ CompletedMeansUsable'
  BY <1>2 DEF Around, OwnerFirst, Session, CompletedMeansUsable, WantToken
<1> QED  BY <1>3, <1>4 DEF IInv

LEMMA GotoKeeps ==
    ASSUME IInv, NEW label \in Labels, Goto(label), Around, UNCHANGED failed,
           pc # "Idle",
           label \in Session => owner',
           label \in {"Shortcut", "Login"} => mine.attempts < MaxRetries
    PROVE  IInv'
<1>1. TypeOK' /\ RetriesAgree'
  BY DEF IInv, Goto, Around, TypeOK, RetriesAgree
<1>2. OwnerFirst' /\ CompletedMeansUsable'
  BY DEF IInv, Goto, Around, OwnerFirst, CompletedMeansUsable, WantToken
<1> QED  BY <1>1, <1>2 DEF IInv

LEMMA ReturnKeeps ==
    ASSUME IInv, Return, Around, UNCHANGED <<status, cache, lost, failed>>,
           faults' \in faults .. MaxFaults
    PROVE  IInv'
<1>1. TypeOK' /\ RetriesAgree'
  BY BlankIsStatus DEF IInv, Return, Around, TypeOK, RetriesAgree, Labels
<1>2. OwnerFirst' /\ CompletedMeansUsable'
  BY DEF IInv, Return, Around, OwnerFirst, Session, CompletedMeansUsable, WantToken
<1> QED  BY <1>1, <1>2 DEF IInv

-----------------------------------------------------------------------------
(* Every action keeps the invariant.                                        *)

\* A retry counted, and the report of a failed login.
LEMMA RetriedStatus ==
    ASSUME status \in Status, mine \in Status, mine.attempts < MaxRetries,
           NEW reason \in Reasons
    PROVE  /\ [Because(reason) EXCEPT !.attempts = Retried(mine)] \in Status
           /\ [Because(reason) EXCEPT !.attempts = Retried(mine)].attempts
                = mine.attempts + 1
           /\ ~[Because(reason) EXCEPT !.attempts = Retried(mine)].completed
<1>1. Because(reason) \in Status /\ ~Because(reason).completed
  BY NewStatus
<1>2. Retried(mine) \in 0 .. MaxRetries /\ Retried(mine) = mine.attempts + 1
  BY ConstantsAssumption DEF Status, Retried
<1> QED  BY <1>1, <1>2 DEF Status

\* The confirmation window is opened or forgotten.
LEMMA SeenStatus ==
    ASSUME status \in Status, NEW reason \in Reasons, NEW age \in {None, 0}
    PROVE  /\ [Because(reason) EXCEPT !.seen = age] \in Status
           /\ [Because(reason) EXCEPT !.seen = age].attempts = status.attempts
           /\ ~[Because(reason) EXCEPT !.seen = age].completed
<1>1. /\ Because(reason) \in Status /\ ~Because(reason).completed
      /\ Because(reason).attempts = status.attempts
  BY NewStatus
<1>2. age \in Ages \cup {None}
  BY ConstantsAssumption DEF Ages
<1> QED  BY <1>1, <1>2 DEF Status

\* A login that fails restarts the confirmation window, or uses up one retry.
LEMMA LoginFailsKeeps ==
    ASSUME IInv, LoginFails, Around, pc # "Idle", mine.attempts < MaxRetries
    PROVE  IInv'
<1>1. TypeOK /\ RetriesAgree /\ status \in Status /\ mine \in Status
  BY DEF IInv, TypeOK
<1>2. CASE NoUser
  <2> DEFINE new == [Because("notReady") EXCEPT !.seen = None]
  <2>1. "notReady" \in Reasons
    BY DEF Reasons
  <2>2. new \in Status /\ new.attempts = status.attempts /\ ~new.completed
    BY <1>1, <2>1, SeenStatus
  <2>3. Report(new) /\ UNCHANGED failed
    BY <1>2 DEF NoUser
  <2>4. failed' \in Nat /\ failed' <= new.attempts + lost /\ failed' <= failed + 1
    BY <1>1, <2>2, <2>3 DEF TypeOK, RetriesAgree
  <2> QED  BY <2>2, <2>3, <2>4, ReportKeeps
<1>3. CASE Refused
  <2>1. PICK reason \in Reasons :
          Report([Because(reason) EXCEPT !.attempts = Retried(mine)])
    BY <1>3 DEF Refused, Reasons
  <2> DEFINE new == [Because(reason) EXCEPT !.attempts = Retried(mine)]
  <2>2. new \in Status /\ new.attempts = mine.attempts + 1 /\ ~new.completed
    BY <1>1, RetriedStatus
  <2>3. failed' \in Nat /\ failed' <= new.attempts + lost /\ failed' <= failed + 1
    BY <1>1, <1>3, <2>2 DEF Refused, TypeOK, RetriesAgree, Status
  <2> QED  BY <2>1, <2>2, <2>3, ReportKeeps
<1> QED  BY <1>2, <1>3 DEF LoginFails

\* Reports that keep the retries, and reports that start afresh.
LEMMA BecauseKeeps ==
    ASSUME IInv, NEW reason \in Reasons, Report(Because(reason)), Around, UNCHANGED failed
    PROVE  IInv'
<1>1. status \in Status /\ RetriesAgree /\ TypeOK
  BY DEF IInv, TypeOK
<1>2. /\ Because(reason) \in Status /\ ~Because(reason).completed
      /\ Because(reason).attempts = status.attempts
  BY <1>1, NewStatus
<1>3. failed' \in Nat /\ failed' <= Because(reason).attempts + lost
      /\ failed' <= failed + 1
  BY <1>1, <1>2 DEF TypeOK, RetriesAgree, Status
<1> QED  BY <1>2, <1>3, ReportKeeps

LEMMA ResetKeeps ==
    ASSUME IInv, NEW reason \in Reasons, Around, failed' = 0,
           \/ Report(Reset(reason))
           \/ WantToken = FALSE /\ Report(Done(reason, FALSE))
           \/ secret' = TRUE /\ Report(Done(reason, TRUE))
    PROVE  IInv'
<1>1. status \in Status /\ TypeOK
  BY DEF IInv, TypeOK
<1>2. /\ Reset(reason) \in Status /\ ~Reset(reason).completed
      /\ Reset(reason).attempts = 0
  BY <1>1, NewStatus
<1>3. \A token \in BOOLEAN : Done(reason, token) \in Status /\ Done(reason, token).attempts = 0
  BY <1>2, CompletedStatus DEF Done
<1>4. failed' \in Nat /\ failed' <= 0 + lost /\ failed' <= failed + 1
  BY <1>1 DEF TypeOK, Status
<1>5. CASE Report(Reset(reason))
  BY <1>2, <1>4, <1>5, ReportKeeps
<1>6. CASE WantToken = FALSE /\ Report(Done(reason, FALSE))
  BY <1>3, <1>4, <1>6, ReportKeeps
<1>7. CASE secret' = TRUE /\ Report(Done(reason, TRUE))
  BY <1>3, <1>4, <1>7, ReportKeeps
<1> QED  BY <1>5, <1>6, <1>7

LEMMA CompleteKeeps ==
    ASSUME IInv, NEW token \in BOOLEAN, Around, UNCHANGED failed,
           Report(Completed(Because("completed"), token)), WantToken => secret'
    PROVE  IInv'
<1>1. status \in Status /\ TypeOK /\ RetriesAgree /\ "completed" \in Reasons
  BY DEF IInv, TypeOK, Reasons
<1>2. PICK new : new = Completed(Because("completed"), token)
  OBVIOUS
<1>3. new \in Status /\ new.attempts = status.attempts
  BY <1>1, <1>2, NewStatus, CompletedStatus
<1>4. failed' \in Nat /\ failed' <= new.attempts + lost
      /\ failed' <= failed + 1
  BY <1>1, <1>3 DEF TypeOK, RetriesAgree, Status
<1> QED  BY <1>2, <1>3, <1>4, ReportKeeps

LEMMA OperatorKeeps == IInv /\ Operator => IInv'
<1> SUFFICES ASSUME IInv, Operator PROVE IInv'
  OBVIOUS
<1>0. /\ TypeOK /\ RetriesAgree /\ OwnerFirst /\ CompletedMeansUsable
      /\ status \in Status /\ cache \in Status /\ mine \in Status /\ wants' = wants /\ WantToken \in BOOLEAN
      /\ {"notReady", "alreadyDone", "failed", "loginFailed", "completed"} \subseteq Reasons
  BY DEF IInv, TypeOK, Reasons, Operator, WantToken
<1>1. CASE Start
  <2>1. Around
    BY <1>0, <1>1 DEF Start, world, Around, TypeOK, OwnerFirst
  <2>2. CASE phase = "down"
    BY <1>0, <1>1, <2>1, <2>2, BecauseKeeps DEF Start
  <2>3. CASE phase # "down"
    <3>1. /\ mine' = cache /\ pc' = "Bootstrap" /\ failed' = failed
          /\ UNCHANGED <<status, cache, world, secret>>
      BY <1>1, <2>3 DEF Start
    <3>2. /\ faults' \in 0 .. MaxFaults /\ lost' \in 0 .. MaxFaults /\ lost' <= faults'
          /\ lost' >= lost /\ failed <= cache.attempts + lost'
      BY <1>0, <1>1, <2>3, ConstantsAssumption
         DEF Start, Spend, TypeOK, RetriesAgree, Status
    <3>3. TypeOK'
      BY <1>0, <3>1, <3>2 DEF world, TypeOK, Labels
    <3>4. RetriesAgree'
      BY <1>0, <3>1, <3>2 DEF TypeOK, RetriesAgree, Status
    <3>5. OwnerFirst' /\ CompletedMeansUsable'
      BY <1>0, <3>1 DEF world, OwnerFirst, Session, CompletedMeansUsable, WantToken
    <3> QED  BY <3>3, <3>4, <3>5 DEF IInv
  <2> QED  BY <2>2, <2>3
<1>2. CASE Bootstrap
  <2>1. Around /\ UNCHANGED failed /\ pc # "Idle"
    BY <1>0, <1>2 DEF Bootstrap, Around, TypeOK, OwnerFirst
  <2>2. CASE Goto("Steps") /\ owner' = TRUE
    BY <2>1, <2>2, GotoKeeps DEF Labels
  <2>3. CASE Goto("Decide")
    BY <2>1, <2>3, GotoKeeps DEF Labels, Session
  <2>4. CASE CallFails("failed")
    BY <1>0, <2>1, <2>4, FailKeeps
  <2>5. CASE \E reason \in {"notReady", "failed"} : Report(Because(reason))
    BY <1>0, <2>1, <2>5, BecauseKeeps
  <2> QED  BY <1>2, <2>2, <2>3, <2>4, <2>5 DEF Bootstrap
<1>3. CASE Steps
  <2>1. Around /\ UNCHANGED failed /\ pc # "Idle" /\ owner'
    BY <1>0, <1>3 DEF Steps, Around, TypeOK, OwnerFirst, Session
  <2>2. CASE Goto("IssueToken")
    BY <2>1, <2>2, GotoKeeps DEF Labels
  <2>3. CASE ~WantToken /\ Report(Completed(Because("completed"), FALSE))
    BY <2>1, <2>3, CompleteKeeps
  <2>4. CASE CallFails("failed")
    BY <1>0, <2>1, <2>4, FailKeeps
  <2>5. CASE \E reason \in {"notReady", "failed"} : Report(Because(reason))
    BY <1>0, <2>1, <2>5, BecauseKeeps
  <2> QED  BY <1>3, <2>2, <2>3, <2>4, <2>5 DEF Steps
<1>4. CASE Decide
  <2>1. Around /\ pc # "Idle"
    BY <1>0, <1>4 DEF Decide, world, Around, TypeOK, OwnerFirst
  <2>2. CASE Report(Reset("notReady")) /\ failed' = 0
    BY <1>0, <2>1, <2>2, ResetKeeps
  <2>3. CASE Return /\ UNCHANGED <<status, cache, lost, faults, failed>>
    BY <1>0, <2>1, <2>3, ReturnKeeps, ConstantsAssumption DEF TypeOK
  <2>4. CASE Report([Because("alreadyDone") EXCEPT !.seen = 0]) /\ UNCHANGED failed
    <3> DEFINE new == [Because("alreadyDone") EXCEPT !.seen = 0]
    <3>1. new \in Status /\ new.attempts = status.attempts /\ ~new.completed
      BY <1>0, SeenStatus
    <3>2. failed' \in Nat /\ failed' <= new.attempts + lost
          /\ failed' <= failed + 1
      BY <1>0, <2>4, <3>1 DEF TypeOK, RetriesAgree, Status
    <3> QED  BY <2>1, <2>4, <3>1, <3>2, ReportKeeps
  <2>5. CASE Goto("Resume") /\ UNCHANGED failed
    BY <2>1, <2>5, GotoKeeps DEF Labels, Session
  <2> QED  BY <1>4, <2>2, <2>3, <2>4, <2>5 DEF Decide
<1>5. CASE Resume
  <2>1. Around /\ pc # "Idle"
    BY <1>0, <1>5 DEF Resume, Around, TypeOK, OwnerFirst
  <2>2. CASE Return /\ UNCHANGED <<status, cache, lost, faults, failed>>
    BY <1>0, <2>1, <2>2, ReturnKeeps, ConstantsAssumption DEF TypeOK
  <2>3. CASE ~Exhausted(mine) /\ LoginFails
    BY <1>0, <2>1, <2>3, LoginFailsKeeps, ConstantsAssumption DEF Exhausted, Status
  <2>4. CASE Report(Because("failed")) /\ UNCHANGED failed
    BY <1>0, <2>1, <2>4, BecauseKeeps
  <2>5. CASE ~Exhausted(mine) /\ Goto("Shortcut") /\ UNCHANGED failed
    <3>1. mine.attempts < MaxRetries
      BY <1>0, <2>5, ConstantsAssumption DEF Exhausted, Status
    <3> QED  BY <2>1, <2>5, <3>1, GotoKeeps DEF Labels, Session
  <2> QED  BY <1>5, <2>2, <2>3, <2>4, <2>5 DEF Resume
<1>6. CASE Shortcut
  <2>1. Around /\ pc # "Idle" /\ mine.attempts < MaxRetries
    BY <1>0, <1>6 DEF Shortcut, world, Around, TypeOK, OwnerFirst, RetriesAgree
  <2>2. CASE NothingLeft(mine) /\ failed' = 0 /\ Report(Done("alreadyDone", WantToken))
    <3>1. CASE WantToken
      <4>1. secret' = TRUE
        BY <1>0, <1>6, <2>2, <3>1 DEF NothingLeft, TypeOK, Shortcut
      <4> QED  BY <1>0, <2>1, <2>2, <3>1, <4>1, ResetKeeps, ConstantsAssumption
    <3>2. CASE ~WantToken
      BY <1>0, <2>1, <2>2, <3>2, ResetKeeps, ConstantsAssumption
    <3> QED  BY <3>1, <3>2
  <2>3. CASE Report(Reset("notReady")) /\ failed' = 0
    BY <1>0, <2>1, <2>3, ResetKeeps
  <2>4. CASE Goto("Login") /\ UNCHANGED failed
    BY <2>1, <2>4, GotoKeeps DEF Labels, Session
  <2>5. CASE Report(Because("notReady")) /\ UNCHANGED failed
    BY <1>0, <2>1, <2>5, BecauseKeeps
  <2> QED  BY <1>6, <2>2, <2>3, <2>4, <2>5 DEF Shortcut
<1>7. CASE Login
  <2>1. Around /\ pc # "Idle" /\ mine.attempts < MaxRetries
    BY <1>0, <1>7 DEF Login, world, Around, TypeOK, OwnerFirst, RetriesAgree
  <2>2. CASE LoginFails
    BY <2>1, <2>2, LoginFailsKeeps
  <2>3. CASE LoginWorks /\ Goto("RecoverToken") /\ UNCHANGED failed
    BY <2>1, <2>3, GotoKeeps DEF Labels, LoginWorks, Around
  <2> QED  BY <1>7, <2>2, <2>3 DEF Login
<1>8. CASE IssueToken
  <2>1. Around /\ UNCHANGED failed /\ pc # "Idle" /\ owner'
    BY <1>0, <1>8 DEF IssueToken, world, Around, TypeOK, OwnerFirst, Session
  <2>2. CASE Goto("SaveSecret") \/ Goto("SaveRecovered")
    BY <2>1, <2>2, GotoKeeps DEF Labels
  <2>3. CASE Report(Because("failed"))
    BY <1>0, <2>1, <2>3, BecauseKeeps
  <2>4. CASE CallFails("failed")
    BY <1>0, <2>1, <2>4, FailKeeps
  <2> QED  BY <1>8, <2>2, <2>3, <2>4 DEF IssueToken
<1>9. CASE SaveSecret
  <2>1. Around /\ pc # "Idle"
    BY <1>0, <1>9 DEF SaveSecret, world, Around, TypeOK, OwnerFirst, Session
  <2>2. CASE secret' = TRUE /\ Report(Completed(Because("completed"), TRUE)) /\ UNCHANGED failed
    BY <2>1, <2>2, CompleteKeeps
  <2>3. CASE secret' = TRUE /\ Report(Done("completed", TRUE)) /\ failed' = 0
    BY <1>0, <2>1, <2>3, ResetKeeps
  <2>4. CASE CallFails("failed") /\ UNCHANGED failed
    BY <1>0, <2>1, <2>4, FailKeeps
  <2> QED  BY <1>9, <2>2, <2>3, <2>4 DEF SaveSecret
<1> QED  BY <1>1, <1>2, <1>3, <1>4, <1>5, <1>6, <1>7, <1>8, <1>9 DEF Operator

LEMMA EnvironmentKeeps == IInv /\ (Pod \/ Clock \/ Informer \/ Mishap) => IInv'
<1> SUFFICES ASSUME IInv, wants' = wants,
                    Serve \/ FinishBoot \/ Restart \/ Crash \/ CorrectPassword \/ Tick
                    \/ Observe
             PROVE  IInv'
  BY DEF Pod, Clock, Informer, Mishap
<1>0. /\ TypeOK /\ RetriesAgree /\ OwnerFirst /\ CompletedMeansUsable
      /\ status \in Status /\ cache \in Status /\ mine \in Status
  BY DEF IInv, TypeOK
<1>1. CASE Crash
  <2>1. Around /\ Return /\ UNCHANGED <<status, cache, lost, failed>>
    BY <1>0, <1>1 DEF Crash, world, Around, TypeOK, OwnerFirst
  <2>2. faults' \in faults .. MaxFaults
    BY <1>0, <1>1, ConstantsAssumption DEF Crash, Spend, TypeOK
  <2> QED  BY <2>1, <2>2, ReturnKeeps
<1>2. CASE Serve \/ FinishBoot \/ CorrectPassword
  <2>1. booted' \in Ages
    <3>1. 0 \in Ages
      BY ConstantsAssumption DEF Ages
    <3> QED  BY <1>0, <1>2, <3>1 DEF Serve, FinishBoot, CorrectPassword, TypeOK
  <2>2. TypeOK'
    BY <1>0, <1>2, <2>1 DEF Serve, FinishBoot, CorrectPassword, TypeOK
  <2>3. RetriesAgree'
    BY <1>0, <1>2 DEF Serve, FinishBoot, CorrectPassword, RetriesAgree
  <2>4. OwnerFirst' /\ CompletedMeansUsable'
    BY <1>0, <1>2 DEF Serve, FinishBoot, CorrectPassword, OwnerFirst, CompletedMeansUsable, WantToken
  <2> QED  BY <2>2, <2>3, <2>4 DEF IInv
<1>3. CASE Restart
  <2>1. TypeOK' /\ RetriesAgree'
    BY <1>0, <1>3, ConstantsAssumption DEF Restart, Spend, TypeOK, RetriesAgree
  <2>2. OwnerFirst' /\ CompletedMeansUsable'
    BY <1>0, <1>3 DEF Restart, OwnerFirst, CompletedMeansUsable, WantToken
  <2> QED  BY <2>1, <2>2 DEF IInv
<1>4. CASE Tick
  <2>1. \A a \in Ages \cup {None} : Older(a) \in Ages \cup {None}
    BY ConstantsAssumption DEF Older, Ages, None
  <2>2. \A s \in Status : /\ [s EXCEPT !.seen = Older(s.seen)] \in Status
                         /\ [s EXCEPT !.seen = Older(s.seen)].attempts = s.attempts
                         /\ [s EXCEPT !.seen = Older(s.seen)].completed = s.completed
    BY <2>1 DEF Status
  <2>3. /\ status' \in Status /\ status'.attempts = status.attempts
        /\ status'.completed = status.completed
        /\ cache' \in Status /\ cache'.attempts = cache.attempts
        /\ mine' \in Status /\ mine'.attempts = mine.attempts
    BY <1>0, <1>4, <2>2 DEF Tick
  <2>4. booted' \in Ages
    BY <1>0, <1>4, ConstantsAssumption DEF Tick, TypeOK, Ages
  <2>5. TypeOK' /\ RetriesAgree'
    BY <1>0, <1>4, <2>3, <2>4 DEF Tick, TypeOK, RetriesAgree
  <2>6. OwnerFirst' /\ CompletedMeansUsable'
    BY <1>0, <1>4, <2>3 DEF Tick, OwnerFirst, CompletedMeansUsable, WantToken
  <2> QED  BY <2>5, <2>6 DEF IInv
<1>5. CASE Observe
  <2>1. TypeOK'
    BY <1>0, <1>5 DEF Observe, world, TypeOK
  <2>2. RetriesAgree'
    BY <1>0, <1>5 DEF Observe, TypeOK, RetriesAgree, Status
  <2>3. OwnerFirst' /\ CompletedMeansUsable'
    BY <1>0, <1>5 DEF Observe, world, OwnerFirst, CompletedMeansUsable, WantToken
  <2> QED  BY <2>1, <2>2, <2>3 DEF IInv
<1> QED  BY <1>1, <1>2, <1>3, <1>4, <1>5

LEMMA InitInv == Init => IInv
<1> SUFFICES ASSUME Init PROVE IInv
  OBVIOUS
<1>1. /\ status \in Status /\ cache \in Status /\ mine \in Status /\ pc \in Labels
      /\ phase \in {"down", "booting", "up"} /\ booted \in Ages
      /\ failed \in Nat /\ lost \in 0 .. MaxFaults /\ faults \in 0 .. MaxFaults
  BY BlankIsStatus, ConstantsAssumption DEF Init, Labels, Ages
<1>2. /\ owner \in BOOLEAN /\ finished \in BOOLEAN /\ password \in BOOLEAN
      /\ secret \in BOOLEAN /\ wants \in SUBSET {"token", "location"}
  BY Zenon DEF Init
<1>3. RetriesAgree
  BY DEF Init, Blank, RetriesAgree
<1>4. OwnerFirst /\ CompletedMeansUsable
  BY DEF Init, Blank, OwnerFirst, Session, CompletedMeansUsable, WantToken
<1> QED  BY <1>1, <1>2, <1>3, <1>4 DEF IInv, TypeOK

LEMMA NextInv == IInv /\ [Next]_vars => IInv'
<1>1. IInv /\ UNCHANGED vars => IInv'
  BY DEF vars, IInv, TypeOK, RetriesAgree, OwnerFirst, CompletedMeansUsable, WantToken
<1> QED  BY <1>1, OperatorKeeps, EnvironmentKeeps DEF Next

-----------------------------------------------------------------------------
(* The theorems.                                                            *)

\* Reconciles, Home Assistant's restarts and lost updates keep every variable in
\* its type; in particular the retry counter of the status never passes
\* maxLoginRecoveryRetries.
THEOREM TypeCorrect == Spec => []TypeOK
<1>1. IInv => TypeOK
  BY DEF IInv
<1> QED  BY <1>1, InitInv, NextInv, PTL DEF Spec

\* handleBootstrapLoginError lets logins fail at most maxLoginRecoveryRetries times,
\* whatever resets the confirmation window in between, apart from failures whose
\* record was lost or overlooked.  A login that Home Assistant answers with another
\* form is none of them: the code sets no bound to those.
THEOREM RefusalsBounded == Spec => []LoginsBounded
<1>1. IInv => LoginsBounded
  BY ConstantsAssumption DEF IInv, TypeOK, Status, RetriesAgree, LoginsBounded
<1> QED  BY <1>1, InitInv, NextInv, PTL DEF Spec

\* reconcileBootstrap with createAPIToken calls no instance complete that has no
\* owner or whose token is not stored, wherever the 404s of its restarts fall.
THEOREM CompletionUsable == Spec => []CompletedMeansUsable
<1>1. IInv => CompletedMeansUsable
  BY DEF IInv
<1> QED  BY <1>1, InitInv, NextInv, PTL DEF Spec
=============================================================================
