------------------------ MODULE OperatorAccountProofs ------------------------
(***************************************************************************)
(* What the operator's account keeps, for any number of requests and of    *)
(* faults: its types; a request brings about at most one long-lived token, *)
(* whoever loses what; the ledger keeps the promise of RequestLedger; a    *)
(* Secret of somebody else is never overwritten; a token that is handed to *)
(* other controllers was confirmed after it was stored; the owner's        *)
(* password is retired; and, unless the ledger is deleted by hand, a       *)
(* request makes the user at most once and a served token stays served.    *)
(*                                                                         *)
(* The steps of the handler come in a few shapes: it calls, it saves the   *)
(* ledger, it starts or ends.  The inductive invariant is built in layers, *)
(* each kept by every shape because of those before it: what a copy of the *)
(* ledger is worth; which requests there can be; who holds the newest      *)
(* ledger; which requests have no token yet; and, for the first token,     *)
(* whose login tells that it was made.                                     *)
(***************************************************************************)
EXTENDS OperatorAccount, TLAPS

(***************************************************************************)
(* Types.                                                                  *)
(***************************************************************************)

Modes == {"none", "initial", "migrate", "recovery", "observe"}
Identities == [id : Nat, login : BOOLEAN, admin : BOOLEAN]
Instances == [legacy : BOOLEAN, onboarded : BOOLEAN, made : Nat, late : Nat, users : SUBSET Nat,
              logins : SUBSET Nat, admins : SUBSET Nat, live : SUBSET Token]
Statuses == [verified : BOOLEAN, user : Nat, req : Requests,
             api : {"none", "legacy", "dedicated"}]
LocalsOK ==
    /\ pc \in Labels /\ mem \in Ledger /\ memFresh \in BOOLEAN
    /\ mode \in Modes /\ want \in Requests /\ who \in Identities

LEMMA Constants == /\ NoToken \in Token /\ Absent \in Ledger /\ Foreign \in Ledger
                   /\ Nobody \in Identities /\ 0 \in Requests
  <1>1. 0 \in Requests
    BY ConstantsAssumption DEF Requests
  <1>2. NoToken \in Token
    BY <1>1 DEF NoToken, Token
  <1>3. Absent \in Ledger
    BY <1>1, <1>2 DEF Absent, Ledger, Stages
  <1>4. Foreign \in Ledger
    BY <1>3 DEF Foreign, Ledger
  <1>5. Nobody \in Identities
    BY DEF Nobody, Identities
  <1> QED
    BY <1>1, <1>2, <1>3, <1>4, <1>5

LEMMA SpendTyped == ASSUME faults \in 0 .. MaxFaults, Spend PROVE faults' \in 0 .. MaxFaults
  BY ConstantsAssumption DEF Spend

LEMMA ReturnTyped == ASSUME Return PROVE LocalsOK'
  BY Constants DEF Return, LocalsOK, Labels, Modes

LEMMA CallFailsTyped ==
    ASSUME LocalsOK, faults \in 0 .. MaxFaults, CallFails
    PROVE  LocalsOK' /\ faults' \in 0 .. MaxFaults
  <1>1. faults' \in 0 .. MaxFaults
    BY SpendTyped DEF CallFails
  <1>2. CASE Return
    BY <1>1, <1>2, ReturnTyped
  <1>3. CASE Goto("ReportFailed") /\ UNCHANGED <<mem, memFresh>>
    BY <1>1, <1>3 DEF Goto, LocalsOK, Labels
  <1> QED
    BY <1>2, <1>3 DEF CallFails

LEMMA WriteTyped ==
    ASSUME LocalsOK, secret \in Ledger, cacheFresh \in BOOLEAN, faults \in 0 .. MaxFaults,
           NEW new \in Ledger, NEW next \in Labels, NEW onError \in Labels,
           Write(new, next, onError)
    PROVE  /\ LocalsOK' /\ secret' \in Ledger /\ cacheFresh' \in BOOLEAN
           /\ faults' \in 0 .. MaxFaults /\ cache' = cache
  <1>1. CASE /\ memFresh /\ secret' = new /\ cacheFresh' = FALSE /\ mem' = new
             /\ Goto(next) /\ UNCHANGED <<cache, memFresh, faults>>
    BY <1>1 DEF Goto, LocalsOK
  <1>2. CASE /\ \/ ~memFresh /\ UNCHANGED <<secret, cacheFresh, faults>>
                \/ Spend /\ UNCHANGED <<secret, cacheFresh>>
                \/ Spend /\ memFresh /\ secret' = new /\ cacheFresh' = FALSE
             /\ IF onError = "Idle" THEN Return
                ELSE Goto(onError) /\ mem' = new /\ memFresh' = FALSE
             /\ UNCHANGED cache
    <2>1. secret' \in Ledger /\ cacheFresh' \in BOOLEAN /\ faults' \in 0 .. MaxFaults
      BY <1>2, SpendTyped
    <2>2. LocalsOK'
      BY <1>2, ReturnTyped DEF Goto, LocalsOK
    <2> QED
      BY <1>2, <2>1, <2>2
  <1> QED
    BY <1>1, <1>2 DEF Write

\* What the steps of a reconcile that only write the ledger leave typed.
LEMMA LedgerStepTyped ==
    ASSUME TypeOK, LedgerStep, LocalsOK', secret' \in Ledger, cacheFresh' \in BOOLEAN,
           faults' \in 0 .. MaxFaults, cache' = cache
    PROVE  TypeOK'
  BY DEF TypeOK, LedgerStep, history, LocalsOK, Labels, Modes, Identities

\* What the steps of a reconcile that only talk to Home Assistant leave typed.
LEMMA RemoteStepTyped ==
    ASSUME TypeOK, RemoteStep, LocalsOK', ha' \in Instances, issued' \in [Requests -> Nat],
           proven' \in SUBSET Token, faults' \in 0 .. MaxFaults
    PROVE  TypeOK'
  BY DEF TypeOK, RemoteStep, LocalsOK, Labels, Modes, Identities, Instances

\* The parts of the type invariant, by name.
LEMMA TypedParts ==
    ASSUME TypeOK
    PROVE  /\ LocalsOK /\ ha \in Instances /\ status \in Statuses
           /\ issued \in [Requests -> Nat] /\ proven \in SUBSET Token
           /\ faults \in 0 .. MaxFaults /\ secret \in Ledger /\ cache \in Ledger
           /\ cacheFresh \in BOOLEAN
  BY DEF TypeOK, LocalsOK, Labels, Modes, Identities, Instances, Statuses

LEMMA NewLedgerTyped == ASSUME TypeOK PROVE NewLedger \in Ledger
  <1>1. status.user \in Nat /\ (status.api = "legacy") \in BOOLEAN
    BY TypedParts DEF Statuses
  <1> QED
    BY <1>1, Constants DEF NewLedger, Absent, Ledger, Stages

\* The ledgers that the steps of a reconcile write.
LEMMA WrittenTyped ==
    ASSUME TypeOK
    PROVE  /\ Consumed(mem, want) \in Ledger
           /\ [mem EXCEPT !.onboarding = TRUE] \in Ledger
           /\ [mem EXCEPT !.legacy = TRUE] \in Ledger
           /\ [mem EXCEPT !.stage = "Creating"] \in Ledger
           /\ [mem EXCEPT !.user = who.id] \in Ledger
           /\ [mem EXCEPT !.stage = "Issuing"] \in Ledger
           /\ NewToken \in Token
           /\ Stored(mem, NewToken) \in Ledger
           /\ [mem EXCEPT !.stage = "Verified",
                           !.result = IF mode = "recovery" THEN "Succeeded" ELSE @] \in Ledger
           /\ [mem EXCEPT !.stage = "Verified",
                           !.result = IF mem.req # 0 THEN "Succeeded" ELSE @] \in Ledger
  <1>1. mem \in Ledger /\ who.id \in Nat /\ want \in Requests
    BY TypedParts DEF LocalsOK, Identities
  <1>2. NewToken \in Token
    BY <1>1 DEF NewToken, Token, Ledger
  <1> QED
    BY <1>1, <1>2 DEF Ledger, Stages, Consumed, Stored

LEMMA LedgerWritesTyped ==
    ASSUME TypeOK, \/ ReserveLedger \/ ConsumeRequest \/ Route \/ MarkMigration
                   \/ MarkCreating \/ RecordUser \/ MarkIssuing \/ StoreToken
                   \/ CommitVerified \/ PromoteToken
    PROVE  TypeOK'
  <1> USE TypedParts
  <1>1. CASE ReserveLedger
    <2>1. LocalsOK' /\ secret' \in Ledger /\ cacheFresh' \in BOOLEAN /\ faults' \in 0 .. MaxFaults
      BY <1>1, NewLedgerTyped, ReturnTyped, SpendTyped DEF ReserveLedger, Goto, LocalsOK, Labels
    <2> QED
      BY <1>1, <2>1, LedgerStepTyped DEF ReserveLedger
  <1>2. CASE ConsumeRequest
    <2>1. Write(Consumed(mem, want), "ReadOwnerCredentials", "Idle") /\ LedgerStep
      BY <1>2 DEF ConsumeRequest
    <2> QED
      BY <2>1, WrittenTyped, WriteTyped, LedgerStepTyped DEF Labels
  <1>3. CASE Route
    <2>1. LedgerStep
      BY <1>3 DEF Route
    <2>2. CASE /\ pc' \in {"AuthenticateLegacy", "MarkMigration"} /\ mode' = "migrate"
               /\ UNCHANGED <<secret, cacheFresh, mem, memFresh, cache, want, who>>
               /\ faults' = faults \/ Spend
      BY <2>1, <2>2, SpendTyped, LedgerStepTyped DEF LocalsOK, Labels, Modes
    <2>3. CASE CallFails /\ UNCHANGED <<secret, cache, cacheFresh>>
      BY <2>1, <2>3, CallFailsTyped, LedgerStepTyped
    <2>4. CASE /\ Goto("ReadOwnerCredentials")
               /\ UNCHANGED <<secret, cache, cacheFresh, mem, memFresh, faults>>
      BY <2>1, <2>4, LedgerStepTyped DEF Goto, LocalsOK, Labels
    <2>5. CASE Write([mem EXCEPT !.onboarding = TRUE], "ReadOwnerCredentials", "Idle")
      BY <2>1, <2>5, WrittenTyped, WriteTyped, LedgerStepTyped DEF Labels
    <2> QED
      BY <1>3, <2>2, <2>3, <2>4, <2>5 DEF Route
  <1>4. CASE MarkMigration
    BY <1>4, WrittenTyped, WriteTyped, LedgerStepTyped DEF MarkMigration, Labels
  <1>5. CASE MarkCreating
    BY <1>5, WrittenTyped, WriteTyped, LedgerStepTyped DEF MarkCreating, Labels
  <1>6. CASE RecordUser
    BY <1>6, WrittenTyped, WriteTyped, LedgerStepTyped DEF RecordUser, Labels
  <1>7. CASE MarkIssuing
    BY <1>7, WrittenTyped, WriteTyped, LedgerStepTyped DEF MarkIssuing, Labels
  <1>8. CASE StoreToken
    BY <1>8, WrittenTyped, WriteTyped, LedgerStepTyped DEF StoreToken, Labels
  <1>9. CASE CommitVerified
    BY <1>9, WrittenTyped, WriteTyped, LedgerStepTyped DEF CommitVerified, Labels
  <1>10. CASE PromoteToken
    BY <1>10, WrittenTyped, WriteTyped, LedgerStepTyped DEF PromoteToken, Labels
  <1> QED
    BY <1>1, <1>2, <1>3, <1>4, <1>5, <1>6, <1>7, <1>8, <1>9, <1>10

LEMMA RemoteStepsTyped ==
    ASSUME TypeOK, \/ AuthenticateLegacy \/ ReadOwnerCredentials \/ PerformBootstrap \/ OwnerLogin
                   \/ FindOperatorUser \/ CreateAuthUser \/ EnsureAdmin \/ SetPassword
                   \/ CreateToken \/ VerifyToken \/ ObserveToken
    PROVE  TypeOK'
  <1> USE TypedParts, CallFailsTyped
  <1>1. CASE AuthenticateLegacy
    <2>1. LocalsOK' /\ faults' \in 0 .. MaxFaults
      BY <1>1 DEF AuthenticateLegacy, Refused, Goto, LocalsOK, Labels
    <2> QED
      BY <1>1, <2>1, RemoteStepTyped DEF AuthenticateLegacy, history
  <1>2. CASE ReadOwnerCredentials
    <2>1. LocalsOK' /\ faults' \in 0 .. MaxFaults
      BY <1>2 DEF ReadOwnerCredentials, Goto, LocalsOK, Labels
    <2> QED
      BY <1>2, <2>1, RemoteStepTyped DEF ReadOwnerCredentials, history
  <1>3. CASE PerformBootstrap
    <2>1. LocalsOK' /\ faults' \in 0 .. MaxFaults
      BY <1>3 DEF PerformBootstrap, Goto, LocalsOK, Labels
    <2>2. ha' \in Instances
      BY <1>3 DEF PerformBootstrap, Instances
    <2> QED
      BY <1>3, <2>1, <2>2, RemoteStepTyped DEF PerformBootstrap, history
  <1>4. CASE OwnerLogin
    <2>1. LocalsOK' /\ faults' \in 0 .. MaxFaults
      BY <1>4 DEF OwnerLogin, Refused, Goto, LocalsOK, Labels
    <2> QED
      BY <1>4, <2>1, RemoteStepTyped DEF OwnerLogin, history
  <1>5. CASE FindOperatorUser
    <2>1. ASSUME NEW u \in Matching,
                 who' = [id |-> u, login |-> u \in ha.logins, admin |-> u \in ha.admins],
                 pc' = "RecordUser", UNCHANGED <<mode, want, mem, memFresh, faults>>
          PROVE  LocalsOK' /\ faults' \in 0 .. MaxFaults
      BY <2>1 DEF Matching, Instances, Identities, LocalsOK, Labels
    <2>2. LocalsOK' /\ faults' \in 0 .. MaxFaults
      BY <1>5, <2>1 DEF FindOperatorUser, Refused, Goto, LocalsOK, Labels
    <2> QED
      BY <1>5, <2>2, RemoteStepTyped DEF FindOperatorUser, history
  <1>6. CASE CreateAuthUser
    <2>1. /\ NewUser \in Nat
          /\ WithUser(ha, NewUser) \in Instances /\ [ha EXCEPT !.late = @ + 1] \in Instances
      <3>1. NewUser \in Nat
        BY DEF NewUser, Instances
      <3>2. WithUser(ha, NewUser) \in Instances
        BY <3>1 DEF WithUser, Instances
      <3>3. [ha EXCEPT !.late = @ + 1] \in Instances
        BY DEF Instances
      <3> QED
        BY <3>1, <3>2, <3>3
    <2>2. LocalsOK' /\ faults' \in 0 .. MaxFaults
      <3>1. CASE /\ who' = [id |-> NewUser, login |-> FALSE, admin |-> TRUE]
                 /\ pc' = "RecordUser" /\ UNCHANGED <<mode, want, mem, memFresh, faults>>
        BY <2>1, <3>1 DEF Identities, LocalsOK, Labels
      <3> QED
        BY <1>6, <3>1 DEF CreateAuthUser
    <2>3. ha' \in Instances
      BY <1>6, <2>1 DEF CreateAuthUser
    <2> QED
      BY <1>6, <2>2, <2>3, RemoteStepTyped DEF CreateAuthUser, history
  <1>7. CASE EnsureAdmin
    <2>1. LocalsOK' /\ faults' \in 0 .. MaxFaults
      BY <1>7 DEF EnsureAdmin, Refused, Goto, LocalsOK, Labels
    <2>2. who.id \in Nat
      BY DEF LocalsOK, Identities
    <2>3. ha' \in Instances
      BY <1>7, <2>2 DEF EnsureAdmin, Instances
    <2> QED
      BY <1>7, <2>1, <2>3, RemoteStepTyped DEF EnsureAdmin, history
  <1>8. CASE SetPassword
    <2>1. LocalsOK' /\ faults' \in 0 .. MaxFaults
      BY <1>8 DEF SetPassword, Refused, Goto, LocalsOK, Labels
    <2>2. who.id \in Nat
      BY DEF LocalsOK, Identities
    <2>3. ha' \in Instances
      BY <1>8, <2>2 DEF SetPassword, Instances
    <2> QED
      BY <1>8, <2>1, <2>3, RemoteStepTyped DEF SetPassword, history
  <1>9. CASE CreateToken
    <2>1. LocalsOK' /\ faults' \in 0 .. MaxFaults
      BY <1>9 DEF CreateToken, Refused, Goto, LocalsOK, Labels
    <2>2. NewToken \in Token /\ mem.req \in Requests
      BY WrittenTyped DEF LocalsOK, Ledger
    <2>3. ha' \in Instances
      BY <1>9, <2>2 DEF CreateToken, Instances
    <2>4. issued' \in [Requests -> Nat]
      BY <1>9, <2>2 DEF CreateToken
    <2> QED
      BY <1>9, <2>1, <2>3, <2>4, RemoteStepTyped DEF CreateToken
  <1>10. CASE VerifyToken
    <2>1. LocalsOK' /\ faults' \in 0 .. MaxFaults
      BY <1>10 DEF VerifyToken, Refused, Goto, LocalsOK, Labels
    <2>2. mem.token \in Token
      BY DEF LocalsOK, Ledger
    <2>3. proven' \in SUBSET Token
      BY <1>10, <2>2 DEF VerifyToken
    <2> QED
      BY <1>10, <2>1, <2>3, RemoteStepTyped DEF VerifyToken
  <1>11. CASE ObserveToken
    <2>1. LocalsOK' /\ faults' \in 0 .. MaxFaults
      BY <1>11 DEF ObserveToken, Refused, Goto, LocalsOK, Labels
    <2>2. mem.token \in Token
      BY DEF LocalsOK, Ledger
    <2>3. proven' \in SUBSET Token
      BY <1>11, <2>2 DEF ObserveToken
    <2> QED
      BY <1>11, <2>1, <2>3, RemoteStepTyped DEF ObserveToken
  <1> QED
    BY <1>1, <1>2, <1>3, <1>4, <1>5, <1>6, <1>7, <1>8, <1>9, <1>10, <1>11

LEMMA ReadAndReportTyped ==
    ASSUME TypeOK, ReadLedger \/ ReadFails \/ ReportStatus
    PROVE  TypeOK'
  <1> USE TypedParts
  <1>1. CASE ReadLedger
    <2>1. Decision \in Labels
      BY DEF Decision, Labels
    <2>2. specReq \in Requests
      BY DEF TypeOK
    <2>3. LocalsOK'
      BY <1>1, <2>1, <2>2, Constants DEF ReadLedger, LocalsOK, Modes
    <2> QED
      BY <1>1, <2>3 DEF ReadLedger, TypeOK, LocalsOK, Labels, Modes, Identities, history
  <1>2. CASE ReadFails
    <2>1. LocalsOK' /\ faults' \in 0 .. MaxFaults
      BY <1>2, Constants, SpendTyped DEF ReadFails, LocalsOK, Labels
    <2> QED
      BY <1>2, <2>1 DEF ReadFails, TypeOK, LocalsOK, Labels, Modes, Identities, history
  <1>3. CASE ReportStatus
    <2>1. LocalsOK' /\ faults' \in 0 .. MaxFaults
      BY <1>3, ReturnTyped, SpendTyped DEF ReportStatus
    <2>2. Projected(status, mem, pc = "ReportVerified") \in Statuses
      BY DEF Projected, Statuses, LocalsOK, Ledger
    <2>3. status' \in Statuses
      BY <1>3, <2>2 DEF ReportStatus
    <2> QED
      BY <1>3, <2>1, <2>3 DEF ReportStatus, TypeOK, LocalsOK, Labels, Modes, Identities, Statuses,
         history
  <1> QED
    BY <1>1, <1>2, <1>3

LEMMA EnvironmentTyped ==
    ASSUME TypeOK, Environment
    PROVE  TypeOK'
  <1> USE TypedParts, ConstantsAssumption
  <1>1. CASE SubmitRequest
    BY <1>1 DEF SubmitRequest, TypeOK, Requests, operator, history
  <1>2. CASE WithdrawRequest
    BY <1>2, Constants DEF WithdrawRequest, TypeOK, operator, history
  <1>3. CASE ResubmitRequest
    BY <1>3 DEF ResubmitRequest, TypeOK, operator, history
  <1>4. CASE InformerSync
    BY <1>4 DEF InformerSync, TypeOK, operator, history
  <1>5. CASE Crash
    <2>1. LocalsOK' /\ faults' \in 0 .. MaxFaults
      BY <1>5, ReturnTyped, SpendTyped DEF Crash
    <2> QED
      BY <1>5, <2>1 DEF Crash, TypeOK, LocalsOK, Labels, Modes, Identities, history
  <1>6. CASE LoseStatus
    <2>1. Blank \in Statuses
      BY Constants DEF Blank, Statuses
    <2>2. faults' \in 0 .. MaxFaults
      BY <1>6, SpendTyped DEF LoseStatus
    <2> QED
      BY <1>6, <2>1, <2>2 DEF LoseStatus, TypeOK, Statuses, operator, history
  <1>7. CASE LoseSecret
    <2>1. faults' \in 0 .. MaxFaults
      BY <1>7, SpendTyped DEF LoseSecret
    <2> QED
      BY <1>7, <2>1, Constants DEF LoseSecret, TypeOK, history
  <1>8. CASE PlaceForeign
    <2>1. faults' \in 0 .. MaxFaults
      BY <1>8, SpendTyped DEF PlaceForeign
    <2> QED
      BY <1>8, <2>1, Constants DEF PlaceForeign, TypeOK, history
  <1>9. CASE AdminInterferes
    <2>1. faults' \in 0 .. MaxFaults
      BY <1>9, SpendTyped DEF AdminInterferes
    <2>2. ha' \in Instances
      BY <1>9 DEF AdminInterferes, Instances
    <2> QED
      BY <1>9, <2>1, <2>2 DEF AdminInterferes, TypeOK, Instances, operator, history
  <1>10. CASE LateCreate
    <2>1. NewUser \in Nat
      BY DEF NewUser, Instances
    <2>2. WithUser(ha, NewUser) \in Instances /\ WithUser(ha, NewUser).late = ha.late
      BY <2>1 DEF WithUser, Instances
    <2>3. ha' \in Instances
      BY <1>10, <2>2 DEF LateCreate, Instances
    <2> QED
      BY <1>10, <2>3 DEF LateCreate, TypeOK, Instances, operator, history
  <1>11. CASE DamageInputs
    <2>1. faults' \in 0 .. MaxFaults
      BY <1>11, SpendTyped DEF DamageInputs
    <2>2. inputs' \in [owner : BOOLEAN, legacy : BOOLEAN]
      BY <1>11 DEF DamageInputs, TypeOK
    <2> QED
      BY <1>11, <2>1, <2>2 DEF DamageInputs, TypeOK, operator, history
  <1>12. CASE RepairInputs
    <2>1. inputs' \in [owner : BOOLEAN, legacy : BOOLEAN]
      BY <1>12 DEF RepairInputs, Instances
    <2> QED
      BY <1>12, <2>1 DEF RepairInputs, TypeOK, operator, history
  <1> QED
    BY <1>1, <1>2, <1>3, <1>4, <1>5, <1>6, <1>7, <1>8, <1>9, <1>10, <1>11, <1>12 DEF Environment

LEMMA TypePreserved == TypeOK /\ [Next]_vars => TypeOK'
  <1> SUFFICES ASSUME TypeOK, [Next]_vars PROVE TypeOK'
    OBVIOUS
  <1>1. CASE Operator
    BY <1>1, LedgerWritesTyped, RemoteStepsTyped, ReadAndReportTyped DEF Operator
  <1>2. CASE Environment
    BY <1>2, EnvironmentTyped
  <1>3. CASE UNCHANGED vars
    BY <1>3 DEF vars, TypeOK
  <1> QED
    BY <1>1, <1>2, <1>3 DEF Next

LEMMA InitTyped == Init => TypeOK
  <1> SUFFICES ASSUME Init PROVE TypeOK
    OBVIOUS
  <1>1. PICK legacy \in BOOLEAN :
           /\ status = [Blank EXCEPT !.api = IF legacy THEN "legacy" ELSE "none"]
           /\ ha = [legacy |-> legacy, onboarded |-> legacy, made |-> 0, late |-> 0,
                    users |-> {}, logins |-> {}, admins |-> {}, live |-> {}]
           /\ inputs = [owner |-> TRUE, legacy |-> legacy]
    BY DEF Init
  <1>2. issued \in [Requests -> Nat] /\ proven \in SUBSET Token /\ faults \in 0 .. MaxFaults
    BY ConstantsAssumption DEF Init
  <1>3. status \in Statuses
    BY <1>1, Constants DEF Statuses, Blank
  <1>4. ha \in Instances /\ inputs \in [owner : BOOLEAN, legacy : BOOLEAN]
    BY <1>1 DEF Instances
  <1> QED
    BY <1>2, <1>3, <1>4, Constants DEF Init, TypeOK, Instances, Statuses, Labels, Identities

\* Every variable keeps its range, for any number of requests and faults.
THEOREM TypeCorrect == Spec => []TypeOK
  BY InitTyped, TypePreserved, PTL DEF Spec

-----------------------------------------------------------------------------
(***************************************************************************)
(* At most one token for a request.                                        *)
(***************************************************************************)

\* The steps between the decision to provision and the new token; those that follow
\* the record of the user.
Provision == {"Route", "MarkMigration", "AuthenticateLegacy", "ReadOwnerCredentials",
              "PerformBootstrap", "OwnerLogin", "FindOperatorUser", "MarkCreating",
              "CreateAuthUser", "RecordUser", "EnsureAdmin", "MarkIssuing", "SetPassword",
              "CreateToken"}
Recorded == {"EnsureAdmin", "MarkIssuing", "SetPassword", "CreateToken"}

\* What the copies of the ledger are worth.
Copies ==
    /\ cacheFresh => cache = secret
    /\ pc = "Idle" => mem = Absent /\ ~memFresh
    /\ pc \notin {"Idle", "ReserveLedger", "ReportFailed"} => mem.kind = "managed"
    /\ pc = "ReserveLedger" => mem = Absent
    /\ mem.kind # "managed" => mem = Absent
    /\ memFresh => IF mem.kind = "managed" THEN mem = secret ELSE secret.kind # "managed"
    /\ secret.kind # "managed" => secret.req = 0

LEMMA Kinds == /\ Absent.kind = "absent" /\ Absent.req = 0 /\ Foreign.kind = "foreign"
               /\ Foreign.req = 0 /\ Absent.kind # "managed" /\ Foreign.kind # "managed"
  BY DEF Absent, Foreign

-----------------------------------------------------------------------------
(* The shapes of a step.                                                    *)

\* What others can see of the operator stays as it is.
Private == UNCHANGED <<specReq, latest, secret, cache, cacheFresh, status>>

\* The reconcile goes on with what it knows.
Onwards(next) == pc' = next /\ UNCHANGED <<mem, memFresh, want>>

\* The calls to Home Assistant that may be followed by which steps.
Calls == {<<"Route", "AuthenticateLegacy">>, <<"Route", "MarkMigration">>,
          <<"Route", "ReadOwnerCredentials">>,
          <<"AuthenticateLegacy", "FindOperatorUser">>,
          <<"ReadOwnerCredentials", "OwnerLogin">>, <<"ReadOwnerCredentials", "PerformBootstrap">>,
          <<"PerformBootstrap", "OwnerLogin">>, <<"OwnerLogin", "FindOperatorUser">>,
          <<"FindOperatorUser", "MarkCreating">>, <<"FindOperatorUser", "RecordUser">>,
          <<"CreateAuthUser", "RecordUser">>, <<"EnsureAdmin", "MarkIssuing">>,
          <<"SetPassword", "CreateToken">>, <<"CreateToken", "StoreToken">>,
          <<"VerifyToken", "CommitVerified">>, <<"ObserveToken", "ReportVerified">>,
          <<"ObserveToken", "PromoteToken">>}
Writes == {<<"ConsumeRequest", "ReadOwnerCredentials">>, <<"Route", "ReadOwnerCredentials">>,
           <<"MarkMigration", "AuthenticateLegacy">>, <<"MarkCreating", "CreateAuthUser">>,
           <<"RecordUser", "EnsureAdmin">>, <<"MarkIssuing", "SetPassword">>,
           <<"StoreToken", "VerifyToken">>, <<"CommitVerified", "ReportVerified">>,
           <<"PromoteToken", "ReportVerified">>}

\* A step that writes nothing others can see: it gives up, or goes on.
Called ==
    /\ Private
    /\ \/ Return
       \/ Onwards("ReportFailed") /\ UNCHANGED mode
       \/ \E next \in Labels : /\ <<pc, next>> \in Calls /\ Onwards(next)
                               /\ mode' = mode \/ (pc = "Route" /\ mode' = "migrate")

\* The stage that the ledger a step saves is in.
StageSaved ==
    CASE pc = "ConsumeRequest" -> "Recovering"
      [] pc = "MarkCreating" -> "Creating"
      [] pc = "MarkIssuing" -> "Issuing"
      [] pc \in {"CommitVerified", "PromoteToken"} -> "Verified"
      [] pc \notin {"ConsumeRequest", "MarkCreating", "MarkIssuing", "CommitVerified",
                    "PromoteToken"} -> mem.stage

\* A step that saves ledger new: it does and goes on, or fails and may have.
Saves(new) ==
    /\ LedgerStep /\ cache' = cache
    /\ new \in Ledger /\ mem.kind = "managed" /\ new.kind = "managed"
    /\ new.req = IF pc = "ConsumeRequest" THEN want ELSE mem.req
    /\ new.user = IF pc = "RecordUser" THEN who.id ELSE mem.user
    /\ new.token = IF pc = "StoreToken" THEN NewToken ELSE mem.token
    /\ new.stage = StageSaved
    /\ \/ memFresh /\ secret' = new /\ cacheFresh' = FALSE
       \/ UNCHANGED <<secret, cacheFresh>>
    /\ \/ /\ memFresh /\ secret' = new /\ cacheFresh' = FALSE
          /\ \E next \in Labels : <<pc, next>> \in Writes /\ pc' = next
          /\ mem' = new /\ UNCHANGED <<memFresh, mode, want, who>>
       \/ Return
       \/ /\ pc \notin {"ConsumeRequest", "Route"} /\ pc' = "ReportFailed"
          /\ mem' = new /\ memFresh' = FALSE /\ UNCHANGED <<mode, want, who>>
    /\ \E next \in Labels : <<pc, next>> \in Writes

LEMMA CallsShape ==
    ASSUME \/ AuthenticateLegacy \/ ReadOwnerCredentials \/ PerformBootstrap \/ OwnerLogin
           \/ FindOperatorUser \/ CreateAuthUser \/ EnsureAdmin \/ SetPassword
           \/ CreateToken \/ VerifyToken \/ ObserveToken
    PROVE  Called
  <1> USE DEF Called, Calls, Private, Onwards, CallFails, Refused, Goto, RemoteStep, Labels
  <1>1. CASE AuthenticateLegacy
    BY <1>1 DEF AuthenticateLegacy
  <1>2. CASE ReadOwnerCredentials
    BY <1>2 DEF ReadOwnerCredentials
  <1>3. CASE PerformBootstrap
    BY <1>3 DEF PerformBootstrap
  <1>4. CASE OwnerLogin
    BY <1>4 DEF OwnerLogin
  <1>5. CASE FindOperatorUser
    BY <1>5 DEF FindOperatorUser
  <1>6. CASE CreateAuthUser
    BY <1>6 DEF CreateAuthUser
  <1>7. CASE EnsureAdmin
    BY <1>7 DEF EnsureAdmin
  <1>8. CASE SetPassword
    BY <1>8 DEF SetPassword
  <1>9. CASE CreateToken
    BY <1>9 DEF CreateToken
  <1>10. CASE VerifyToken
    BY <1>10 DEF VerifyToken
  <1>11. CASE ObserveToken
    BY <1>11 DEF ObserveToken
  <1> QED
    BY <1>1, <1>2, <1>3, <1>4, <1>5, <1>6, <1>7, <1>8, <1>9, <1>10, <1>11

\* What the saved ledgers keep of the reconcile's copy.
KeepsBut(new, req, user, token, stage) ==
    /\ new.kind = mem.kind /\ new.req = req /\ new.user = user
    /\ new.token = token /\ new.stage = stage
LEMMA WrittenFields ==
    ASSUME mem \in Ledger
    PROVE  /\ KeepsBut(Consumed(mem, want), want, mem.user, mem.token, "Recovering")
           /\ KeepsBut([mem EXCEPT !.onboarding = TRUE], mem.req, mem.user, mem.token, mem.stage)
           /\ KeepsBut([mem EXCEPT !.legacy = TRUE], mem.req, mem.user, mem.token, mem.stage)
           /\ \A s \in Stages :
                 KeepsBut([mem EXCEPT !.stage = s], mem.req, mem.user, mem.token, s)
           /\ KeepsBut([mem EXCEPT !.user = who.id], mem.req, who.id, mem.token, mem.stage)
           /\ \A t \in Token : KeepsBut(Stored(mem, t), mem.req, mem.user, t, mem.stage)
           /\ \A x : KeepsBut([mem EXCEPT !.stage = "Verified", !.result = x],
                              mem.req, mem.user, mem.token, "Verified")
  BY DEF Ledger, Consumed, Stored, KeepsBut

LEMMA WriteShape ==
    ASSUME NEW new \in Ledger, NEW next \in Labels, NEW onError \in {"Idle", "ReportFailed"},
           Write(new, next, onError), LedgerStep, <<pc, next>> \in Writes,
           mem.kind = "managed", new.kind = mem.kind,
           new.req = IF pc = "ConsumeRequest" THEN want ELSE mem.req,
           new.user = IF pc = "RecordUser" THEN who.id ELSE mem.user,
           new.token = IF pc = "StoreToken" THEN NewToken ELSE mem.token,
           new.stage = StageSaved,
           pc \in {"ConsumeRequest", "Route"} => onError = "Idle"
    PROVE  Saves(new)
  BY DEF Saves, Write, Goto

LEMMA SavesShape ==
    ASSUME TypeOK, Copies,
           \/ ConsumeRequest \/ MarkMigration \/ MarkCreating \/ RecordUser \/ MarkIssuing
           \/ StoreToken \/ CommitVerified \/ PromoteToken
    PROVE  \E new : Saves(new)
  <1>0. mem \in Ledger
    BY TypedParts DEF LocalsOK
  <1>1. CASE ConsumeRequest
    <2> DEFINE new == Consumed(mem, want)
    <2>1. pc = "ConsumeRequest" /\ Write(new, "ReadOwnerCredentials", "Idle") /\ LedgerStep
      BY <1>1 DEF ConsumeRequest
    <2>2. mem.kind = "managed" /\ <<pc, "ReadOwnerCredentials">> \in Writes
      BY <2>1 DEF Copies, Writes
    <2>3. /\ new \in Ledger /\ new.kind = mem.kind
          /\ new.req = IF pc = "ConsumeRequest" THEN want ELSE mem.req
          /\ new.user = IF pc = "RecordUser" THEN who.id ELSE mem.user
          /\ new.token = IF pc = "StoreToken" THEN NewToken ELSE mem.token
          /\ new.stage = StageSaved
      BY <1>0, <2>1, WrittenTyped, WrittenFields DEF KeepsBut, StageSaved
    <2> HIDE DEF new
    <2>4. Saves(new)
      BY <2>1, <2>2, <2>3, WriteShape DEF Labels
    <2> QED
      BY <2>4
  <1>2. CASE MarkMigration
    <2> DEFINE new == [mem EXCEPT !.legacy = TRUE]
    <2>1. pc = "MarkMigration" /\ Write(new, "AuthenticateLegacy", "Idle") /\ LedgerStep
      BY <1>2 DEF MarkMigration
    <2>2. mem.kind = "managed" /\ <<pc, "AuthenticateLegacy">> \in Writes
      BY <2>1 DEF Copies, Writes
    <2>3. /\ new \in Ledger /\ new.kind = mem.kind
          /\ new.req = IF pc = "ConsumeRequest" THEN want ELSE mem.req
          /\ new.user = IF pc = "RecordUser" THEN who.id ELSE mem.user
          /\ new.token = IF pc = "StoreToken" THEN NewToken ELSE mem.token
          /\ new.stage = StageSaved
      BY <1>0, <2>1, WrittenTyped, WrittenFields DEF KeepsBut, StageSaved
    <2> HIDE DEF new
    <2>4. Saves(new)
      BY <2>1, <2>2, <2>3, WriteShape DEF Labels
    <2> QED
      BY <2>4
  <1>3. CASE MarkCreating
    <2> DEFINE new == [mem EXCEPT !.stage = "Creating"]
    <2>1. pc = "MarkCreating" /\ Write(new, "CreateAuthUser", "ReportFailed") /\ LedgerStep
      BY <1>3 DEF MarkCreating
    <2>2. mem.kind = "managed" /\ <<pc, "CreateAuthUser">> \in Writes
      BY <2>1 DEF Copies, Writes
    <2>3. /\ new \in Ledger /\ new.kind = mem.kind
          /\ new.req = IF pc = "ConsumeRequest" THEN want ELSE mem.req
          /\ new.user = IF pc = "RecordUser" THEN who.id ELSE mem.user
          /\ new.token = IF pc = "StoreToken" THEN NewToken ELSE mem.token
          /\ new.stage = StageSaved
      BY <1>0, <2>1, WrittenTyped, WrittenFields DEF KeepsBut, StageSaved, Stages
    <2> HIDE DEF new
    <2>4. Saves(new)
      BY <2>1, <2>2, <2>3, WriteShape DEF Labels
    <2> QED
      BY <2>4
  <1>4. CASE RecordUser
    <2> DEFINE new == [mem EXCEPT !.user = who.id]
    <2>1. pc = "RecordUser" /\ Write(new, "EnsureAdmin", "ReportFailed") /\ LedgerStep
      BY <1>4 DEF RecordUser
    <2>2. mem.kind = "managed" /\ <<pc, "EnsureAdmin">> \in Writes
      BY <2>1 DEF Copies, Writes
    <2>3. /\ new \in Ledger /\ new.kind = mem.kind
          /\ new.req = IF pc = "ConsumeRequest" THEN want ELSE mem.req
          /\ new.user = IF pc = "RecordUser" THEN who.id ELSE mem.user
          /\ new.token = IF pc = "StoreToken" THEN NewToken ELSE mem.token
          /\ new.stage = StageSaved
      BY <1>0, <2>1, WrittenTyped, WrittenFields DEF KeepsBut, StageSaved
    <2> HIDE DEF new
    <2>4. Saves(new)
      BY <2>1, <2>2, <2>3, WriteShape DEF Labels
    <2> QED
      BY <2>4
  <1>5. CASE MarkIssuing
    <2> DEFINE new == [mem EXCEPT !.stage = "Issuing"]
    <2>1. pc = "MarkIssuing" /\ Write(new, "SetPassword", "ReportFailed") /\ LedgerStep
      BY <1>5 DEF MarkIssuing
    <2>2. mem.kind = "managed" /\ <<pc, "SetPassword">> \in Writes
      BY <2>1 DEF Copies, Writes
    <2>3. /\ new \in Ledger /\ new.kind = mem.kind
          /\ new.req = IF pc = "ConsumeRequest" THEN want ELSE mem.req
          /\ new.user = IF pc = "RecordUser" THEN who.id ELSE mem.user
          /\ new.token = IF pc = "StoreToken" THEN NewToken ELSE mem.token
          /\ new.stage = StageSaved
      BY <1>0, <2>1, WrittenTyped, WrittenFields DEF KeepsBut, StageSaved, Stages
    <2> HIDE DEF new
    <2>4. Saves(new)
      BY <2>1, <2>2, <2>3, WriteShape DEF Labels
    <2> QED
      BY <2>4
  <1>6. CASE StoreToken
    <2> DEFINE new == Stored(mem, NewToken)
    <2>1. pc = "StoreToken" /\ Write(new, "VerifyToken", "ReportFailed") /\ LedgerStep
      BY <1>6 DEF StoreToken
    <2>2. mem.kind = "managed" /\ <<pc, "VerifyToken">> \in Writes
      BY <2>1 DEF Copies, Writes
    <2>3. /\ new \in Ledger /\ new.kind = mem.kind
          /\ new.req = IF pc = "ConsumeRequest" THEN want ELSE mem.req
          /\ new.user = IF pc = "RecordUser" THEN who.id ELSE mem.user
          /\ new.token = IF pc = "StoreToken" THEN NewToken ELSE mem.token
          /\ new.stage = StageSaved
      BY <1>0, <2>1, WrittenTyped, WrittenFields DEF KeepsBut, StageSaved
    <2> HIDE DEF new
    <2>4. Saves(new)
      BY <2>1, <2>2, <2>3, WriteShape DEF Labels
    <2> QED
      BY <2>4
  <1>7. CASE CommitVerified
    <2> DEFINE new == [mem EXCEPT !.stage = "Verified",
                                !.result = IF mode = "recovery" THEN "Succeeded" ELSE @]
    <2>1. pc = "CommitVerified" /\ Write(new, "ReportVerified", "ReportFailed") /\ LedgerStep
      BY <1>7 DEF CommitVerified
    <2>2. mem.kind = "managed" /\ <<pc, "ReportVerified">> \in Writes
      BY <2>1 DEF Copies, Writes
    <2>3. /\ new \in Ledger /\ new.kind = mem.kind
          /\ new.req = IF pc = "ConsumeRequest" THEN want ELSE mem.req
          /\ new.user = IF pc = "RecordUser" THEN who.id ELSE mem.user
          /\ new.token = IF pc = "StoreToken" THEN NewToken ELSE mem.token
          /\ new.stage = StageSaved
      BY <1>0, <2>1, WrittenTyped, WrittenFields DEF KeepsBut, StageSaved
    <2> HIDE DEF new
    <2>4. Saves(new)
      BY <2>1, <2>2, <2>3, WriteShape DEF Labels
    <2> QED
      BY <2>4
  <1>8. CASE PromoteToken
    <2> DEFINE new == [mem EXCEPT !.stage = "Verified",
                                !.result = IF mem.req # 0 THEN "Succeeded" ELSE @]
    <2>1. pc = "PromoteToken" /\ Write(new, "ReportVerified", "Idle") /\ LedgerStep
      BY <1>8 DEF PromoteToken
    <2>2. mem.kind = "managed" /\ <<pc, "ReportVerified">> \in Writes
      BY <2>1 DEF Copies, Writes
    <2>3. /\ new \in Ledger /\ new.kind = mem.kind
          /\ new.req = IF pc = "ConsumeRequest" THEN want ELSE mem.req
          /\ new.user = IF pc = "RecordUser" THEN who.id ELSE mem.user
          /\ new.token = IF pc = "StoreToken" THEN NewToken ELSE mem.token
          /\ new.stage = StageSaved
      BY <1>0, <2>1, WrittenTyped, WrittenFields DEF KeepsBut, StageSaved
    <2> HIDE DEF new
    <2>4. Saves(new)
      BY <2>1, <2>2, <2>3, WriteShape DEF Labels
    <2> QED
      BY <2>4
  <1> QED
    BY <1>1, <1>2, <1>3, <1>4, <1>5, <1>6, <1>7, <1>8

LEMMA RouteShape ==
    ASSUME TypeOK, Copies, Route
    PROVE  Called \/ \E new : Saves(new)
  <1>0. pc = "Route" /\ mem.kind = "managed" /\ LedgerStep
    BY DEF Route, Copies
  <1>1. CASE Write([mem EXCEPT !.onboarding = TRUE], "ReadOwnerCredentials", "Idle")
    <2>1. Saves([mem EXCEPT !.onboarding = TRUE])
      BY <1>0, <1>1, TypedParts, WrittenTyped, WrittenFields, WriteShape
         DEF LocalsOK, Labels, Writes, KeepsBut, StageSaved
    <2> QED
      BY <2>1
  <1>2. CASE ~Write([mem EXCEPT !.onboarding = TRUE], "ReadOwnerCredentials", "Idle")
    BY <1>0, <1>2 DEF Route, Called, Calls, Private, Onwards, CallFails, Goto, LedgerStep, Labels
  <1> QED
    BY <1>1, <1>2

\* Nothing happens but in Home Assistant or to what people supply.
Elsewhere == Private /\ UNCHANGED operator

Shapes ==
    \/ Called \/ (\E new : Saves(new)) \/ ReserveLedger \/ ReadLedger \/ ReportStatus
    \/ SubmitRequest \/ WithdrawRequest \/ ResubmitRequest \/ InformerSync
    \/ LoseStatus \/ LoseSecret \/ PlaceForeign \/ Elsewhere

LEMMA StepShape ==
    ASSUME TypeOK, Copies, [Next]_vars
    PROVE  Shapes
  <1>1. CASE Crash \/ ReadFails
    BY <1>1, TypedParts DEF Crash, ReadFails, Called, Private, Onwards, Copies, LocalsOK, Shapes
  <1>2. CASE AdminInterferes \/ LateCreate \/ DamageInputs \/ RepairInputs
    BY <1>2 DEF AdminInterferes, LateCreate, DamageInputs, RepairInputs, Elsewhere, Private, Shapes
  <1>3. CASE UNCHANGED vars
    BY <1>3 DEF vars, Elsewhere, Private, operator, Shapes
  <1> QED
    BY <1>1, <1>2, <1>3, CallsShape, SavesShape, RouteShape
       DEF Next, Operator, Environment, Shapes

LEMMA Managed ==
    ASSUME TypeOK
    PROVE  /\ NewLedger \in Ledger /\ NewLedger.kind = "managed" /\ NewLedger.req = 0
           /\ NewLedger.user = status.user
           /\ Decision = "ReserveLedger" => ~Accepted(cache)
           /\ Decision \notin {"ReserveLedger", "ReportFailed"} => Accepted(cache)
           /\ Decision \in {"ReserveLedger", "ReportFailed", "ObserveToken", "ConsumeRequest",
                            "Route"}
  <1>1. NewLedger \in Ledger
    BY NewLedgerTyped
  <1>2. NewLedger.kind = "managed" /\ NewLedger.req = 0 /\ NewLedger.user = status.user
    BY DEF NewLedger, Absent
  <1> QED
    BY <1>1, <1>2 DEF Decision, Accepted

LEMMA CopiesKept ==
    ASSUME TypeOK, Copies, Shapes
    PROVE  Copies'
  <1> USE Kinds, TypedParts DEF LocalsOK
  <1>1. CASE Called
    BY <1>1 DEF Called, Private, Onwards, Return, Copies, Calls
  <1>2. ASSUME NEW new, Saves(new) PROVE Copies'
    <2>1. cacheFresh' => cache' = secret'
      BY <1>2 DEF Saves, Copies
    <2>2. secret'.kind # "managed" => secret'.req = 0
      BY <1>2 DEF Saves, Copies
    <2>3. CASE Return
      BY <2>1, <2>2, <2>3 DEF Return, Copies
    <2>4. CASE ~Return
      BY <1>2, <2>1, <2>2, <2>4 DEF Saves, Copies, Writes
    <2> QED
      BY <2>3, <2>4
  <1>3. CASE ReserveLedger
    BY <1>3, Managed DEF ReserveLedger, Return, Copies, Goto
  <1>4. CASE ReadLedger
    <2>1. mem' = (IF cache.kind = "managed" THEN cache ELSE Absent)
      BY <1>4 DEF ReadLedger, Accepted
    <2>2. pc' # "Idle" /\ (pc' = "ReserveLedger" => cache.kind # "managed")
      BY <1>4, Managed DEF ReadLedger, Accepted
    <2>3. pc' \notin {"ReserveLedger", "ReportFailed"} => cache.kind = "managed"
      BY <1>4, Managed DEF ReadLedger, Accepted
    <2>4. memFresh' = cacheFresh /\ UNCHANGED <<secret, cache, cacheFresh>>
      BY <1>4 DEF ReadLedger
    <2> QED
      BY <2>1, <2>2, <2>3, <2>4 DEF Copies
  <1>5. CASE ReportStatus
    BY <1>5 DEF ReportStatus, Return, Copies
  <1>6. CASE SubmitRequest \/ WithdrawRequest \/ ResubmitRequest \/ InformerSync \/ LoseStatus
             \/ Elsewhere
    BY <1>6 DEF SubmitRequest, WithdrawRequest, ResubmitRequest, InformerSync, LoseStatus,
       Elsewhere, Private, operator, Copies
  <1>7. CASE LoseSecret \/ PlaceForeign
    BY <1>7 DEF LoseSecret, PlaceForeign, Copies
  <1> QED
    BY <1>1, <1>2, <1>3, <1>4, <1>5, <1>6, <1>7 DEF Shapes

-----------------------------------------------------------------------------
(* Requests are numbered in order.                                          *)

\* No copy has a request of the future, and what copies remember of a lost ledger
\* is what the status says of it.
Ordered ==
    /\ specReq \in {0, latest}
    /\ secret.req <= latest /\ cache.req <= latest /\ mem.req <= latest
    /\ status.req <= latest /\ want <= latest
    /\ secret.kind # "managed" =>
          /\ mem.kind = "managed" => mem.req = status.req
          /\ cache.kind = "managed" => cache.req = status.req

LEMMA Numbers ==
    ASSUME TypeOK
    PROVE  /\ specReq \in Nat /\ latest \in Nat /\ want \in Nat /\ secret.req \in Nat
           /\ cache.req \in Nat /\ mem.req \in Nat /\ status.req \in Nat
           /\ want \in Requests /\ specReq \in Requests /\ latest \in Requests
           /\ mem.req \in Requests
           /\ MaxReq \in Nat
  BY ConstantsAssumption DEF TypeOK, Ledger, Requests

LEMMA ReportedFields ==
    ASSUME TypeOK, ReportStatus
    PROVE  \/ status' = status
           \/ mem.kind = "managed" /\ status'.req = mem.req /\ status'.user = mem.user
           \/ mem.kind # "managed" /\ status'.req = status.req /\ status'.user = status.user
  BY DEF ReportStatus, Projected

LEMMA OrderedKept ==
    ASSUME TypeOK, Copies, Ordered, Shapes
    PROVE  Ordered'
  <1> USE Kinds, Numbers
  <1>1. CASE Called
    <2>1. /\ UNCHANGED <<specReq, latest, secret, cache, status>>
          /\ (mem' = mem /\ want' = want) \/ (mem' = Absent /\ want' = 0)
      BY <1>1 DEF Called, Private, Onwards, Return
    <2> QED
      BY <2>1 DEF Ordered
  <1>2. ASSUME NEW new, Saves(new) PROVE Ordered'
    <2>0. UNCHANGED <<specReq, latest, status, cache>> /\ new.req <= latest
      BY <1>2 DEF Saves, LedgerStep, Ordered
    <2>1. secret'.req <= latest
      BY <1>2, <2>0 DEF Saves, Ordered
    <2>2. mem'.req <= latest /\ want' <= latest
      BY <1>2, <2>0 DEF Saves, Return, Ordered
    <2>3. CASE secret'.kind = "managed"
      BY <2>0, <2>1, <2>2, <2>3 DEF Ordered
    <2>4. CASE secret'.kind # "managed"
      <3>1. secret.kind # "managed" /\ secret' = secret /\ ~memFresh
        BY <1>2, <2>4 DEF Saves, Copies
      <3>2. mem' = Absent \/ mem'.req = mem.req
        BY <1>2, <2>4, <3>1 DEF Saves, Return
      <3> QED
        BY <1>2, <2>0, <2>1, <2>2, <3>1, <3>2 DEF Saves, Ordered
    <2> QED
      BY <2>3, <2>4
  <1>3. CASE ReserveLedger
    BY <1>3, Managed DEF ReserveLedger, LedgerStep, Return, Ordered, Goto
  <1>4. CASE ReadLedger
    BY <1>4 DEF ReadLedger, Accepted, Ordered
  <1>5. CASE ReportStatus
    <2>1. UNCHANGED <<specReq, latest, secret, cache>> /\ Return
      BY <1>5 DEF ReportStatus
    <2> QED
      BY <1>5, <2>1, ReportedFields DEF Return, Ordered
  <1>6. CASE SubmitRequest \/ WithdrawRequest \/ ResubmitRequest \/ InformerSync
    BY <1>6 DEF SubmitRequest, WithdrawRequest, ResubmitRequest, InformerSync, operator, Ordered
  <1>7. CASE LoseStatus
    BY <1>7 DEF LoseStatus, Blank, operator, Ordered
  <1>8. CASE LoseSecret
    BY <1>8 DEF LoseSecret, Copies, Ordered
  <1>9. CASE PlaceForeign
    BY <1>9 DEF PlaceForeign, Ordered
  <1>10. CASE Elsewhere
    BY <1>10 DEF Elsewhere, Private, operator, Ordered
  <1> QED
    BY <1>1, <1>2, <1>3, <1>4, <1>5, <1>6, <1>7, <1>8, <1>9, <1>10 DEF Shapes

-----------------------------------------------------------------------------
(* Who holds the ledger while a token is being made.                        *)

\* From the record of the user on, and throughout a recovery, the reconcile has the
\* newest ledger, unless it was taken away once others had seen whom it records.
Held ==
    pc \in Recorded \/ (mode = "recovery" /\ pc \in Provision) =>
        \/ memFresh
        \/ /\ LedgerLoss /\ secret.kind # "managed" /\ status.user = mem.user
           /\ cache.kind = "managed" => cache.user = mem.user

\* What a reconcile knows when it has decided.
LEMMA Decided ==
    ASSUME TypeOK, Copies, Ordered, ReadLedger
    PROVE  /\ pc' \in {"ReserveLedger", "ReportFailed", "ObserveToken", "ConsumeRequest", "Route"}
           /\ pc' = "ReserveLedger" =>
                 IF mode' = "recovery" THEN want' = latest /\ status.req < latest
                 ELSE status.req = 0
           /\ pc' = "ConsumeRequest" => /\ mode' = "recovery" /\ cache.kind = "managed"
                                        /\ mem' = cache /\ want' = latest /\ cache.req < latest
           /\ pc' = "Route" => mode' # "recovery" /\ mem' = cache /\ cache.req = 0
  <1> USE Numbers
  <1>1. pc' = Decision /\ want' = specReq
    BY DEF ReadLedger
  <1>2. Decision = "ConsumeRequest" => RecoveryRequested /\ Accepted(cache)
    BY DEF Decision
  <1>3. Decision = "Route" => ~RecoveryRequested /\ Accepted(cache) /\ ~Spent
    BY DEF Decision
  <1>4. Decision = "ReserveLedger" => ~Accepted(cache) /\ (~RecoveryRequested => ~Spent)
    BY DEF Decision
  <1>5. pc' \in {"ReserveLedger", "ConsumeRequest", "Route"} =>
           mode' = IF RecoveryRequested THEN "recovery" ELSE "initial"
    BY <1>1 DEF ReadLedger
  <1>6. RecoveryRequested => specReq = latest /\ Observed < latest
    BY DEF RecoveryRequested, Observed, Ordered
  <1>7. ~Spent => Observed = 0
    BY DEF Spent
  <1>8. Accepted(cache) => Observed = cache.req /\ cache.kind = "managed" /\ mem' = cache
    BY DEF Observed, Accepted, ReadLedger
  <1>9. ~Accepted(cache) => Observed = status.req
    BY DEF Observed
  <1> QED
    BY <1>1, <1>2, <1>3, <1>4, <1>5, <1>6, <1>7, <1>8, <1>9, Managed

LEMMA HeldKept ==
    ASSUME TypeOK, Copies, Ordered, Held, Shapes
    PROVE  Held'
  <1>1. CASE Called
    <2>1. CASE pc' \in {"Idle", "ReportFailed"}
      BY <2>1 DEF Held, Recorded, Provision
    <2>2. CASE pc' \notin {"Idle", "ReportFailed"}
      <3>1. /\ <<pc, pc'>> \in Calls /\ UNCHANGED <<mem, memFresh, secret, cache, status>>
            /\ mode' = mode \/ mode' = "migrate"
        BY <1>1, <2>2 DEF Called, Return, Onwards, Private
      <3>2. (pc' \in Recorded => pc \in Recorded) /\ (pc' \in Provision => pc \in Provision)
        BY <3>1 DEF Calls, Recorded, Provision
      <3> QED
        BY <3>1, <3>2 DEF Held
    <2> QED
      BY <2>1, <2>2
  <1>2. ASSUME NEW new, Saves(new) PROVE Held'
    BY <1>2 DEF Saves, Held, Return, Recorded, Provision
  <1>3. CASE ReserveLedger
    BY <1>3 DEF ReserveLedger, Held, Return, Goto, Recorded, Provision
  <1>4. CASE ReadLedger
    BY <1>4, Decided DEF Held, Recorded, Provision
  <1>5. CASE ReportStatus
    BY <1>5 DEF ReportStatus, Return, Held, Recorded, Provision
  <1>6. CASE SubmitRequest \/ WithdrawRequest \/ ResubmitRequest \/ InformerSync \/ Elsewhere
    BY <1>6 DEF SubmitRequest, WithdrawRequest, ResubmitRequest, InformerSync, Elsewhere,
       Private, operator, Held
  <1>7. CASE LoseStatus
    BY <1>7 DEF LoseStatus, operator, Held
  <1>8. CASE LoseSecret
    <2>1. pc \in Provision => mem.kind = "managed"
      BY DEF Copies, Provision
    <2>2. Recorded \subseteq Provision /\ "Idle" \notin Provision
      BY DEF Recorded, Provision
    <2> QED
      BY <1>8, <2>1, <2>2, Kinds DEF LoseSecret, Copies, Held
  <1>9. CASE PlaceForeign
    <2>1. pc \in Provision => mem.kind = "managed"
      BY DEF Copies, Provision
    <2>2. Recorded \subseteq Provision
      BY DEF Recorded, Provision
    <2> QED
      BY <1>9, <2>1, <2>2, Kinds DEF PlaceForeign, Copies, Held
  <1> QED
    BY <1>1, <1>2, <1>3, <1>4, <1>5, <1>6, <1>7, <1>8, <1>9 DEF Shapes

-----------------------------------------------------------------------------
(* A request above the ledger's has no token.                               *)

\* The request the ledger is known to have consumed, even when it is lost.
Known == IF secret.kind = "managed" THEN secret.req ELSE status.req

NewestCounted ==
    /\ \A r \in Requests : r > latest => issued[r] = 0
    /\ latest > 0 /\ issued[latest] > 0 => Known = latest
AboutToReserve ==
    pc = "ReserveLedger" /\ secret.kind = "absent" =>
        IF mode = "recovery" THEN status.req < want /\ issued[want] = 0 ELSE status.req = 0
AboutToConsume ==
    /\ pc = "ConsumeRequest" => mode = "recovery"
    /\ pc = "ConsumeRequest" /\ memFresh => mem.req < want /\ issued[want] = 0
Provisioning ==
    /\ pc = "Route" => mode # "recovery"
    /\ mode = "recovery" /\ pc \in Provision => want > 0 /\ mem.req = want /\ issued[want] = 0
    /\ mode # "recovery" /\ pc \in Provision => mem.req = 0

\* A token is only made for the newest request, or for none, and a recovery that is
\* under way has made none yet.
IssuedOnce == NewestCounted /\ AboutToReserve /\ AboutToConsume /\ Provisioning

\* The history of issued tokens: who writes it.
Issues == pc = "CreateToken" /\ issued' = [issued EXCEPT ![mem.req] = @ + 1]
LEMMA IssueShape ==
    ASSUME [Next]_vars
    PROVE  issued' = issued \/ (CreateToken /\ Issues)
  BY DEF Next, Operator, Environment, vars, history, LedgerStep, Issues,
     ReadLedger, ReadFails, ReserveLedger, ConsumeRequest, Route, MarkMigration,
     AuthenticateLegacy, ReadOwnerCredentials, PerformBootstrap, OwnerLogin, FindOperatorUser,
     MarkCreating, CreateAuthUser, RecordUser, EnsureAdmin, MarkIssuing, SetPassword,
     CreateToken, StoreToken, VerifyToken, CommitVerified, ObserveToken, PromoteToken,
     ReportStatus, SubmitRequest, WithdrawRequest, ResubmitRequest, InformerSync, Crash,
     LoseStatus, LoseSecret, PlaceForeign, AdminInterferes, LateCreate, DamageInputs, RepairInputs

LEMMA NewestCountedKept ==
    ASSUME TypeOK, Copies, Ordered, IssuedOnce, Shapes, issued' = issued
    PROVE  NewestCounted'
  <1> USE Kinds, Numbers DEF IssuedOnce
  <1>1. CASE UNCHANGED <<latest, secret, status>>
    BY <1>1 DEF NewestCounted, Known
  <1>2. ASSUME NEW new, Saves(new) PROVE NewestCounted'
    <2>1. /\ UNCHANGED <<latest, status>>
          /\ secret' = secret \/ (memFresh /\ secret' = new)
      BY <1>2 DEF Saves, LedgerStep
    <2>2. CASE memFresh /\ secret' = new /\ pc = "ConsumeRequest"
      <3>1. secret = mem /\ secret.kind = "managed" /\ secret.req < latest
        BY <1>2, <2>2 DEF Saves, Copies, AboutToConsume, Ordered
      <3> QED
        BY <2>1, <3>1 DEF NewestCounted, Known
    <2>3. CASE memFresh /\ secret' = new /\ pc # "ConsumeRequest"
      <3>1. secret = mem /\ secret'.kind = "managed" /\ secret'.req = secret.req
        BY <1>2, <2>3 DEF Saves, Copies
      <3> QED
        BY <1>2, <2>1, <3>1 DEF NewestCounted, Known, Saves
    <2> QED
      BY <1>1, <2>1, <2>2, <2>3
  <1>3. CASE ReserveLedger
    <2>1. CASE secret' = secret
      BY <1>1, <1>3, <2>1 DEF ReserveLedger, LedgerStep
    <2>2. CASE secret' # secret
      <3>1. /\ pc = "ReserveLedger" /\ secret.kind = "absent" /\ secret' = NewLedger
            /\ UNCHANGED <<latest, status>>
        BY <1>3, <2>2 DEF ReserveLedger, LedgerStep
      <3>2. status.req = 0 \/ status.req < latest
        BY <3>1 DEF AboutToReserve, Ordered
      <3> QED
        BY <3>1, <3>2, Managed DEF NewestCounted, Known
    <2> QED
      BY <2>1, <2>2
  <1>4. CASE ReportStatus
    <2>1. UNCHANGED <<latest, secret>>
      BY <1>4 DEF ReportStatus
    <2>2. secret.kind # "managed" => status'.req = status.req
      BY <1>4, ReportedFields DEF Ordered
    <2> QED
      BY <2>1, <2>2 DEF NewestCounted, Known
  <1>5. CASE SubmitRequest
    <2>1. latest' = latest + 1 /\ latest' \in Requests
      BY <1>5 DEF SubmitRequest, Requests
    <2>2. issued[latest'] = 0 /\ \A r \in Requests : r > latest' => r > latest
      BY <2>1 DEF NewestCounted, Requests
    <2> QED
      BY <2>1, <2>2 DEF NewestCounted
  <1>6. CASE LoseStatus
    BY <1>6 DEF LoseStatus, NewestCounted, Known
  <1>7. CASE LoseSecret
    BY <1>7 DEF LoseSecret, NewestCounted, Known
  <1>8. CASE PlaceForeign
    BY <1>8 DEF PlaceForeign, NewestCounted, Known
  <1>9. CASE Called \/ ReadLedger \/ WithdrawRequest \/ ResubmitRequest \/ InformerSync \/ Elsewhere
    BY <1>1, <1>9 DEF Called, Private, ReadLedger, WithdrawRequest, ResubmitRequest,
       InformerSync, Elsewhere
  <1> QED
    BY <1>2, <1>3, <1>4, <1>5, <1>6, <1>7, <1>8, <1>9 DEF Shapes

LEMMA AboutToActKept ==
    ASSUME TypeOK, Copies, Ordered, IssuedOnce, Shapes, issued' = issued
    PROVE  AboutToReserve' /\ AboutToConsume'
  <1> USE Kinds, Numbers DEF IssuedOnce
  <1>1. CASE pc' \notin {"ReserveLedger", "ConsumeRequest"}
    BY <1>1 DEF AboutToReserve, AboutToConsume
  <1>2. CASE UNCHANGED operator /\ UNCHANGED <<secret, status>>
    BY <1>2 DEF operator, AboutToReserve, AboutToConsume
  <1>3. CASE Called
    BY <1>1, <1>3 DEF Called, Return, Onwards, Calls
  <1>4. ASSUME NEW new, Saves(new) PROVE AboutToReserve' /\ AboutToConsume'
    BY <1>1, <1>4 DEF Saves, Return, Writes
  <1>5. CASE ReserveLedger
    <2>1. CASE pc' = "Idle"
      BY <1>1, <2>1
    <2>2. CASE pc' # "Idle"
      <3>1. /\ pc = "ReserveLedger" /\ secret.kind = "absent" /\ mem' = NewLedger
            /\ secret' = NewLedger /\ want' = want /\ mode' = mode
            /\ pc' = IF mode = "recovery" THEN "ConsumeRequest" ELSE "Route"
        BY <1>5, <2>2 DEF ReserveLedger, Return, Goto
      <3> QED
        BY <3>1, Managed DEF AboutToReserve, AboutToConsume
    <2> QED
      BY <2>1, <2>2
  <1>6. CASE ReadLedger
    <2>1. UNCHANGED <<secret, cacheFresh, status, latest>> /\ memFresh' = cacheFresh
      BY <1>6 DEF ReadLedger
    <2>0. issued[latest] \in Nat
      BY TypedParts
    <2>2. CASE pc' = "ReserveLedger"
      <3>1. secret.kind = "absent" /\ mode' = "recovery" => issued[latest] = 0
        BY <1>6, <2>0, <2>2, Decided DEF NewestCounted, Known
      <3> QED
        BY <1>6, <2>1, <2>2, <3>1, Decided DEF AboutToReserve, AboutToConsume
    <2>3. CASE pc' = "ConsumeRequest"
      <3>1. cacheFresh => issued[latest] = 0
        BY <1>6, <2>0, <2>3, Decided DEF Copies, NewestCounted, Known
      <3> QED
        BY <1>6, <2>1, <2>3, <3>1, Decided DEF AboutToReserve, AboutToConsume
    <2> QED
      BY <1>1, <2>2, <2>3
  <1>7. CASE ReportStatus
    BY <1>1, <1>7 DEF ReportStatus, Return
  <1>8. CASE LoseStatus
    BY <1>8 DEF LoseStatus, operator, AboutToReserve, AboutToConsume
  <1>9. CASE LoseSecret
    <2>1. pc # "ReserveLedger" /\ ~memFresh' /\ UNCHANGED <<pc, mode>>
      BY <1>9 DEF LoseSecret, Copies
    <2> QED
      BY <2>1 DEF AboutToReserve, AboutToConsume
  <1>10. CASE PlaceForeign
    BY <1>10 DEF PlaceForeign, AboutToReserve, AboutToConsume
  <1>11. CASE SubmitRequest \/ WithdrawRequest \/ ResubmitRequest \/ InformerSync \/ Elsewhere
    BY <1>2, <1>11 DEF SubmitRequest, WithdrawRequest, ResubmitRequest, InformerSync, Elsewhere,
       Private
  <1> QED
    BY <1>3, <1>4, <1>5, <1>6, <1>7, <1>8, <1>9, <1>10, <1>11 DEF Shapes

LEMMA ProvisioningKept ==
    ASSUME TypeOK, Copies, Ordered, IssuedOnce, Shapes, issued' = issued
    PROVE  Provisioning'
  <1> USE Kinds, Numbers DEF IssuedOnce
  <1>1. CASE pc' \in {"Idle", "ReserveLedger", "ConsumeRequest", "ReportFailed"}
    BY <1>1 DEF Provisioning, Provision
  <1>2. CASE UNCHANGED <<pc, mode, mem, want>>
    BY <1>2 DEF Provisioning
  <1>3. CASE Called
    <2>1. CASE pc' = "Idle" \/ pc' = "ReportFailed"
      BY <1>1, <2>1
    <2>2. CASE pc' # "Idle" /\ pc' # "ReportFailed"
      <3>1. /\ <<pc, pc'>> \in Calls /\ UNCHANGED <<mem, want>>
            /\ mode' = mode \/ (pc = "Route" /\ mode' = "migrate")
        BY <1>3, <2>2 DEF Called, Return, Onwards
      <3>2. pc' # "Route" /\ (pc' \in Provision => pc \in Provision)
        BY <3>1 DEF Calls, Provision
      <3>3. mode' = "recovery" <=> mode = "recovery"
        BY <3>1 DEF Provisioning
      <3> QED
        BY <3>1, <3>2, <3>3 DEF Provisioning
    <2> QED
      BY <2>1, <2>2
  <1>4. ASSUME NEW new, Saves(new) PROVE Provisioning'
    <2>1. CASE pc' = "Idle" \/ pc' = "ReportFailed"
      BY <1>1, <2>1
    <2>2. CASE pc' # "Idle" /\ pc' # "ReportFailed"
      <3>1. memFresh /\ <<pc, pc'>> \in Writes /\ mem' = new /\ UNCHANGED <<mode, want>>
        BY <1>4, <2>2 DEF Saves, Return
      <3>2. pc' # "Route"
        BY <3>1 DEF Writes
      <3>3. CASE pc = "ConsumeRequest"
        BY <1>4, <3>1, <3>2, <3>3 DEF Saves, Provisioning, AboutToConsume
      <3>4. CASE pc # "ConsumeRequest"
        <4>1. mem'.req = mem.req
          BY <1>4, <3>1, <3>4 DEF Saves
        <4>2. pc' \in Provision => pc \in Provision
          BY <3>1, <3>4 DEF Writes, Provision
        <4> QED
          BY <3>1, <3>2, <4>1, <4>2 DEF Provisioning
      <3> QED
        BY <3>3, <3>4
    <2> QED
      BY <2>1, <2>2
  <1>5. CASE ReserveLedger
    <2>1. CASE pc' = "Idle" \/ mode = "recovery"
      BY <1>1, <1>5, <2>1 DEF ReserveLedger, Return, Goto
    <2>2. CASE pc' # "Idle" /\ mode # "recovery"
      BY <1>5, <2>2, Managed DEF ReserveLedger, Return, Goto, Provisioning
    <2> QED
      BY <2>1, <2>2
  <1>6. CASE ReadLedger
    <2>1. CASE pc' = "Route"
      BY <1>6, <2>1, Decided DEF Provisioning
    <2>2. CASE pc' = "ObserveToken"
      BY <2>2 DEF Provisioning, Provision
    <2> QED
      BY <1>1, <1>6, <2>1, <2>2, Decided
  <1>7. CASE ReportStatus
    BY <1>1, <1>7 DEF ReportStatus, Return
  <1>8. CASE \/ SubmitRequest \/ WithdrawRequest \/ ResubmitRequest \/ InformerSync
             \/ LoseStatus \/ LoseSecret \/ PlaceForeign \/ Elsewhere
    BY <1>2, <1>8 DEF SubmitRequest, WithdrawRequest, ResubmitRequest, InformerSync, LoseStatus,
       LoseSecret, PlaceForeign, Elsewhere, operator
  <1> QED
    BY <1>3, <1>4, <1>5, <1>6, <1>7, <1>8 DEF Shapes

\* The step that makes a token.
LEMMA IssueKept ==
    ASSUME TypeOK, Copies, Ordered, Held, IssuedOnce, CreateToken, Issues
    PROVE  IssuedOnce'
  <1> USE Kinds, Numbers DEF IssuedOnce
  <1>1. /\ pc = "CreateToken" /\ issued' = [issued EXCEPT ![mem.req] = @ + 1]
        /\ UNCHANGED <<latest, secret, status, cache>> /\ issued \in [Requests -> Nat]
    BY TypedParts DEF CreateToken, RemoteStep, Issues
  <1>2. Called
    BY CallsShape
  <1>3. pc' \in {"Idle", "ReportFailed", "StoreToken"}
    BY <1>1, <1>2 DEF Called, Return, Onwards, Calls
  <1>4. Known = mem.req
    <2>1. mem.kind = "managed" /\ "CreateToken" \in Recorded
      BY <1>1 DEF Copies, Recorded
    <2>2. CASE memFresh
      BY <2>1, <2>2 DEF Copies, Known
    <2>3. CASE ~memFresh
      BY <1>1, <2>1, <2>3 DEF Held, Ordered, Known
    <2> QED
      BY <2>2, <2>3
  <1>5. NewestCounted'
    <2>1. \A r \in Requests : r # mem.req => issued'[r] = issued[r]
      BY <1>1
    <2>2. mem.req <= latest
      BY DEF Ordered
    <2>3. Known' = Known
      BY <1>1 DEF Known
    <2> QED
      BY <1>1, <1>4, <2>1, <2>2, <2>3 DEF NewestCounted
  <1> QED
    BY <1>3, <1>5 DEF AboutToReserve, AboutToConsume, Provisioning, Provision

LEMMA IssuedOnceKept ==
    ASSUME TypeOK, Copies, Ordered, Held, IssuedOnce, [Next]_vars
    PROVE  IssuedOnce'
  <1>1. CASE issued' = issued
    BY <1>1, StepShape, NewestCountedKept, AboutToActKept, ProvisioningKept DEF IssuedOnce
  <1>2. CASE CreateToken /\ Issues
    BY <1>2, IssueKept
  <1> QED
    BY <1>1, <1>2, IssueShape

-----------------------------------------------------------------------------
(* The token of the initial provisioning.                                   *)

\* Home Assistant numbers the users it makes, and one keeps a login it got.
HomeGrows ==
    /\ ha.made <= ha'.made
    /\ ha'.users \subseteq ha.users \cup ((ha.made + 1) .. ha'.made)
    /\ ha'.users \cap ha.logins \subseteq ha'.logins

LEMMA HomeShape ==
    ASSUME TypeOK, [Next]_vars
    PROVE  HomeGrows
  <1>0. /\ ha \in Instances /\ NewUser \in Nat /\ NewUser = ha.made + 1
        /\ WithUser(ha, NewUser).made = NewUser
        /\ WithUser(ha, NewUser).users = ha.users \cup {NewUser}
        /\ WithUser(ha, NewUser).logins = ha.logins
    BY TypedParts DEF Instances, NewUser, WithUser
  <1>1. CASE ha' = ha
    BY <1>0, <1>1 DEF HomeGrows, Instances
  <1>2. CASE PerformBootstrap
    BY <1>0, <1>2 DEF PerformBootstrap, HomeGrows, Instances
  <1>3. CASE CreateAuthUser
    <2>1. CASE ha' = WithUser(ha, NewUser)
      BY <1>0, <2>1 DEF HomeGrows, Instances
    <2>2. CASE ha' = [ha EXCEPT !.late = @ + 1]
      BY <1>0, <2>2 DEF HomeGrows, Instances
    <2> QED
      BY <1>1, <1>3, <2>1, <2>2 DEF CreateAuthUser
  <1>4. CASE EnsureAdmin
    BY <1>0, <1>4 DEF EnsureAdmin, HomeGrows, Instances
  <1>5. CASE SetPassword
    BY <1>0, <1>5 DEF SetPassword, HomeGrows, Instances
  <1>6. CASE CreateToken
    BY <1>0, <1>6 DEF CreateToken, HomeGrows, Instances
  <1>7. CASE AdminInterferes
    <2>1. CASE \E t \in ha.live : ha' = [ha EXCEPT !.live = @ \ {t}]
      BY <1>0, <2>1 DEF HomeGrows, Instances
    <2>2. ASSUME NEW u \in ha.users,
                 ha' = [ha EXCEPT !.users = @ \ {u}, !.admins = @ \ {u}, !.logins = @ \ {u},
                                  !.live = {t \in @ : t.user # u}]
          PROVE  HomeGrows
      <3>1. ha'.made = ha.made /\ ha'.users = ha.users \ {u} /\ ha'.logins = ha.logins \ {u}
        BY <1>0, <2>2 DEF Instances
      <3> QED
        BY <1>0, <3>1 DEF HomeGrows, Instances
    <2>3. CASE \E u \in ha.admins : ha' = [ha EXCEPT !.admins = @ \ {u}]
      BY <1>0, <2>3 DEF HomeGrows, Instances
    <2> QED
      BY <1>7, <2>1, <2>2, <2>3 DEF AdminInterferes
  <1>8. CASE LateCreate
    <2>1. /\ ha'.made = WithUser(ha, NewUser).made /\ ha'.users = WithUser(ha, NewUser).users
          /\ ha'.logins = WithUser(ha, NewUser).logins
      BY <1>8 DEF LateCreate, WithUser
    <2> QED
      BY <1>0, <2>1 DEF HomeGrows, Instances
  <1>9. \/ PerformBootstrap \/ CreateAuthUser \/ EnsureAdmin \/ SetPassword \/ CreateToken
        \/ AdminInterferes \/ LateCreate \/ ha' = ha
    BY DEF Next, Operator, Environment, vars, LedgerStep,
       ReadLedger, ReadFails, ReserveLedger, ConsumeRequest, Route, MarkMigration,
       AuthenticateLegacy, ReadOwnerCredentials, OwnerLogin, FindOperatorUser,
       MarkCreating, RecordUser, MarkIssuing, StoreToken, VerifyToken, CommitVerified,
       ObserveToken, PromoteToken, ReportStatus, SubmitRequest, WithdrawRequest,
       ResubmitRequest, InformerSync, Crash, LoseStatus, LoseSecret, PlaceForeign,
       DamageInputs, RepairInputs
  <1> QED
    BY <1>1, <1>2, <1>3, <1>4, <1>5, <1>6, <1>7, <1>8, <1>9

\* The identity a reconcile works on.
UsersMade == ha.users \subseteq 1 .. ha.made
Working ==
    /\ pc \in {"MarkCreating", "CreateAuthUser"} => mem.user = 0
    /\ pc \in {"RecordUser"} \cup Recorded => who.id \in 1 .. ha.made /\ mem.user \in {0, who.id}
    /\ pc \in Recorded => mem.user = who.id

LEMMA Finding ==
    ASSUME TypeOK, FindOperatorUser
    PROVE  /\ UNCHANGED <<ha, mem, memFresh, mode>> \/ pc' \in {"Idle", "ReportFailed"}
           /\ pc' = "MarkCreating" => mem.user = 0
           /\ pc' = "RecordUser" => /\ who'.id \in ha.users /\ mem.user \in {0, who'.id}
                                    /\ who'.login = (who'.id \in ha.logins)
           /\ pc' \in {"Idle", "ReportFailed", "MarkCreating", "RecordUser"}
  BY DEF FindOperatorUser, MayCreate, Matching, Refused, CallFails, Goto, Return

LEMMA Making ==
    ASSUME TypeOK, Working, CreateAuthUser
    PROVE  /\ pc' = "RecordUser" => /\ who'.id = ha'.made /\ ha'.made = ha.made + 1
                                    /\ ~who'.login /\ mem.user = 0
                                    /\ UNCHANGED <<mem, memFresh, mode>>
           /\ pc' \in {"Idle", "ReportFailed", "RecordUser"}
  <1>1. WithUser(ha, NewUser).made = ha.made + 1 /\ pc = "CreateAuthUser"
    BY TypedParts DEF Instances, NewUser, WithUser, CreateAuthUser
  <1> QED
    BY <1>1 DEF CreateAuthUser, CallFails, Goto, Return, Working, NewUser

LEMMA WhoShape ==
    ASSUME TypeOK, Copies, [Next]_vars
    PROVE  who' = who \/ pc' = "Idle" \/ ReadLedger \/ FindOperatorUser \/ CreateAuthUser
  BY DEF Next, Operator, Environment, vars, operator, LedgerStep, Write, Goto, Return, CallFails,
     Refused, ReadFails, ReserveLedger, ConsumeRequest, Route, MarkMigration,
     AuthenticateLegacy, ReadOwnerCredentials, PerformBootstrap, OwnerLogin,
     MarkCreating, RecordUser, EnsureAdmin, MarkIssuing, SetPassword, CreateToken, StoreToken,
     VerifyToken, CommitVerified, ObserveToken, PromoteToken, ReportStatus, SubmitRequest,
     WithdrawRequest, ResubmitRequest, InformerSync, Crash, LoseStatus, LoseSecret, PlaceForeign,
     AdminInterferes, LateCreate, DamageInputs, RepairInputs

LEMMA UsersMadeKept ==
    ASSUME TypeOK, TypeOK', UsersMade, HomeGrows
    PROVE  UsersMade'
  <1>1. ha.made \in Nat /\ ha'.made \in Nat
    BY DEF TypeOK
  <1> QED
    BY <1>1 DEF UsersMade, HomeGrows

\* Only the call that is due is made.
LEMMA CallOf ==
    ASSUME [Next]_vars, pc' \notin {"Idle", pc}
    PROVE  /\ pc = "FindOperatorUser" => FindOperatorUser
           /\ pc = "CreateAuthUser" => CreateAuthUser
           /\ pc = "SetPassword" => SetPassword
  <1>1. Environment \/ UNCHANGED vars => pc' = pc \/ pc' = "Idle"
    BY DEF Environment, vars, operator, Return, SubmitRequest, WithdrawRequest, ResubmitRequest,
       InformerSync, Crash, LoseStatus, LoseSecret, PlaceForeign, AdminInterferes, LateCreate,
       DamageInputs, RepairInputs
  <1>2. Operator => \/ pc \notin {"FindOperatorUser", "CreateAuthUser", "SetPassword"}
                    \/ pc = "FindOperatorUser" /\ FindOperatorUser
                    \/ pc = "CreateAuthUser" /\ CreateAuthUser
                    \/ pc = "SetPassword" /\ SetPassword
    BY DEF Operator, ReadLedger, ReadFails, ReserveLedger, ConsumeRequest, Route, MarkMigration,
       AuthenticateLegacy, ReadOwnerCredentials, PerformBootstrap, OwnerLogin, FindOperatorUser,
       MarkCreating, CreateAuthUser, RecordUser, EnsureAdmin, MarkIssuing, SetPassword,
       CreateToken, StoreToken, VerifyToken, CommitVerified, ObserveToken, PromoteToken,
       ReportStatus
  <1> QED
    BY <1>1, <1>2 DEF Next

LEMMA WorkingKept ==
    ASSUME TypeOK, TypeOK', Copies, UsersMade, Working, HomeGrows, [Next]_vars
    PROVE  Working'
  <1>0. /\ ha.made \in Nat /\ ha'.made \in Nat /\ ha.made <= ha'.made /\ who.id \in Nat
        /\ 1 .. ha.made \subseteq 1 .. ha'.made
    BY DEF TypeOK, HomeGrows
  <1>1. CASE pc' \notin {"MarkCreating", "CreateAuthUser", "RecordUser"} \cup Recorded
    BY <1>1 DEF Working
  <1>2. CASE FindOperatorUser
    <2>1. CASE pc' = "MarkCreating"
      BY <1>2, <2>1, Finding DEF Working, Recorded
    <2>2. CASE pc' = "RecordUser"
      BY <1>0, <1>2, <2>2, Finding DEF Working, Recorded, UsersMade
    <2> QED
      BY <1>1, <1>2, <2>1, <2>2, Finding DEF Recorded
  <1>3. CASE CreateAuthUser
    <2>1. CASE pc' = "RecordUser"
      BY <1>0, <1>3, <2>1, Making DEF Working, Recorded
    <2> QED
      BY <1>1, <1>3, <2>1, Making DEF Recorded
  <1>4. CASE ReadLedger
    BY <1>1, <1>4, Managed DEF ReadLedger, Recorded
  <1>5. CASE who' = who /\ UNCHANGED <<pc, mem>>
    BY <1>0, <1>5 DEF Working
  <1>6. CASE who' = who /\ Called /\ ~FindOperatorUser /\ ~CreateAuthUser
    <2>1. CASE pc' = "Idle" \/ pc' = "ReportFailed"
      BY <1>1, <2>1 DEF Recorded
    <2>2. CASE pc' # "Idle" /\ pc' # "ReportFailed"
      <3>1. mem' = mem /\ <<pc, pc'>> \in Calls
        BY <1>6, <2>2 DEF Called, Return, Onwards
      <3>2. pc \notin {"FindOperatorUser", "CreateAuthUser"}
        BY <1>6, <2>2, <3>1, CallOf DEF Calls
      <3>3. pc' \notin {"MarkCreating", "CreateAuthUser", "RecordUser"}
            /\ (pc' \in Recorded => pc \in Recorded)
        BY <3>1, <3>2 DEF Calls, Recorded
      <3> QED
        BY <1>0, <1>6, <3>1, <3>3 DEF Working, Recorded
    <2> QED
      BY <2>1, <2>2
  <1>7. ASSUME who' = who, NEW new, Saves(new) PROVE Working'
    <2>1. CASE pc' = "Idle" \/ pc' = "ReportFailed"
      BY <1>1, <2>1 DEF Recorded
    <2>2. CASE pc' # "Idle" /\ pc' # "ReportFailed"
      <3>1. mem'.user = (IF pc = "RecordUser" THEN who.id ELSE mem.user) /\ <<pc, pc'>> \in Writes
        BY <1>7, <2>2 DEF Saves, Return
      <3>2. CASE pc' \in Recorded
        <4>1. pc = "RecordUser" \/ pc \in Recorded
          BY <3>1, <3>2 DEF Writes, Recorded
        <4>2. who.id \in 1 .. ha.made /\ mem'.user = who.id
          BY <3>1, <4>1 DEF Working, Recorded
        <4> QED
          BY <1>0, <1>7, <3>2, <4>2 DEF Working, Recorded
      <3>3. CASE pc' \in {"MarkCreating", "CreateAuthUser", "RecordUser"}
        <4>1. pc = "MarkCreating" /\ pc' = "CreateAuthUser"
          BY <3>1, <3>3 DEF Writes
        <4> QED
          BY <3>1, <4>1 DEF Working, Recorded
      <3> QED
        BY <1>1, <3>2, <3>3
    <2> QED
      BY <2>1, <2>2
  <1>8. CASE ReserveLedger \/ ReportStatus
    BY <1>1, <1>8 DEF ReserveLedger, ReportStatus, Return, Goto, Recorded
  <1>9. CASE \/ SubmitRequest \/ WithdrawRequest \/ ResubmitRequest \/ InformerSync
             \/ LoseStatus \/ LoseSecret \/ PlaceForeign \/ Elsewhere
    BY <1>5, <1>9 DEF SubmitRequest, WithdrawRequest, ResubmitRequest, InformerSync, LoseStatus,
       LoseSecret, PlaceForeign, Elsewhere, operator
  <1> QED
    BY <1>1, <1>2, <1>3, <1>4, <1>6, <1>7, <1>8, <1>9, StepShape, WhoShape DEF Shapes, Recorded

\* The user the ledger is known to record, even when it is lost.
KnownUser == IF secret.kind = "managed" THEN secret.user ELSE status.user
Remembered ==
    secret.kind # "managed" => /\ mem.kind = "managed" => mem.user = status.user
                               /\ cache.kind = "managed" => cache.user = status.user

\* Once the first token is made, the user it is for is known, and known to Home
\* Assistant as one with a login.
FirstRecorded ==
    issued[0] > 0 => /\ KnownUser \in 1 .. ha.made
                     /\ KnownUser \in ha.users => KnownUser \in ha.logins
                     /\ Remembered

LEMMA Zero == 0 \in Requests /\ (TypeOK => issued[0] \in Nat)
  <1>1. 0 \in Requests
    BY Constants
  <1> QED
    BY <1>1 DEF TypeOK

LEMMA KnownUserKept ==
    ASSUME TypeOK, Copies, UsersMade, Working, Shapes, KnownUser # 0, Remembered
    PROVE  KnownUser' = KnownUser /\ Remembered'
  <1> USE Kinds
  <1>1. CASE UNCHANGED <<secret, status, cache>> /\ mem' \in {mem, cache, Absent}
    BY <1>1 DEF KnownUser, Remembered
  <1>2. ASSUME NEW new, Saves(new) PROVE KnownUser' = KnownUser /\ Remembered'
    <2>0. UNCHANGED <<status, cache>> /\ (secret' = secret \/ (memFresh /\ secret' = new))
      BY <1>2 DEF Saves, LedgerStep
    <2>1. CASE memFresh /\ secret' = new
      <3>1. secret = mem /\ secret.kind = "managed" /\ secret'.kind = "managed"
        BY <1>2, <2>1 DEF Saves, Copies
      <3>2. KnownUser = mem.user
        BY <3>1 DEF KnownUser
      <3>3. new.user = mem.user
        BY <1>2, <3>2 DEF Saves, Working
      <3> QED
        BY <2>1, <3>1, <3>2, <3>3 DEF KnownUser, Remembered
    <2>2. CASE secret' = secret /\ secret.kind = "managed"
      BY <2>0, <2>2 DEF KnownUser, Remembered
    <2>3. CASE secret' = secret /\ secret.kind # "managed"
      <3>1. KnownUser = mem.user /\ ~memFresh
        BY <1>2, <2>3 DEF Saves, Copies, KnownUser, Remembered
      <3>2. new.user = mem.user
        BY <1>2, <3>1 DEF Saves, Working
      <3>3. mem' = new \/ mem' = Absent
        BY <1>2, <3>1 DEF Saves, Return
      <3> QED
        BY <1>2, <2>0, <2>3, <3>1, <3>2, <3>3 DEF Saves, KnownUser, Remembered
    <2> QED
      BY <2>0, <2>1, <2>2, <2>3
  <1>3. CASE ReserveLedger
    <2>1. CASE secret' = secret
      <3>1. Return \/ secret'.kind = "managed"
        BY <1>3, <2>1, Managed DEF ReserveLedger
      <3> QED
        BY <1>1, <1>3, <2>1, <3>1, Managed DEF ReserveLedger, LedgerStep, Return, KnownUser,
           Remembered
    <2>2. CASE secret' # secret
      <3>1. secret.kind = "absent" /\ secret' = NewLedger /\ status' = status
        BY <1>3, <2>2 DEF ReserveLedger, LedgerStep
      <3> QED
        BY <3>1, Managed DEF KnownUser, Remembered
    <2> QED
      BY <2>1, <2>2
  <1>4. CASE ReportStatus
    <2>1. UNCHANGED <<secret, cache>> /\ mem' = Absent
      BY <1>4 DEF ReportStatus, Return
    <2>2. secret.kind # "managed" => status'.user = status.user
      BY <1>4, ReportedFields DEF Remembered
    <2> QED
      BY <2>1, <2>2 DEF KnownUser, Remembered
  <1>5. CASE InformerSync
    BY <1>5 DEF InformerSync, operator, KnownUser, Remembered
  <1>6. CASE LoseStatus
    BY <1>6 DEF LoseStatus, KnownUser, Remembered
  <1>7. CASE LoseSecret
    BY <1>7 DEF LoseSecret, Copies, KnownUser, Remembered
  <1>8. CASE PlaceForeign
    BY <1>8 DEF PlaceForeign, KnownUser, Remembered
  <1>9. CASE Called
    BY <1>1, <1>9 DEF Called, Private, Return, Onwards
  <1>10. CASE ReadLedger
    BY <1>1, <1>10 DEF ReadLedger
  <1>11. CASE SubmitRequest \/ WithdrawRequest \/ ResubmitRequest \/ Elsewhere
    BY <1>1, <1>11 DEF SubmitRequest, WithdrawRequest, ResubmitRequest, Elsewhere, Private,
       operator
  <1> QED
    BY <1>2, <1>3, <1>4, <1>5, <1>6, <1>7, <1>8, <1>9, <1>10, <1>11 DEF Shapes

\* A user with a login keeps it as long as he is there.
LEMMA LoginKept ==
    ASSUME TypeOK, TypeOK', HomeGrows, NEW u \in 1 .. ha.made, u \in ha.users => u \in ha.logins
    PROVE  u \in 1 .. ha'.made /\ (u \in ha'.users => u \in ha'.logins)
  <1>1. ha.made \in Nat /\ ha'.made \in Nat
    BY DEF TypeOK
  <1> QED
    BY <1>1 DEF HomeGrows

LEMMA FirstRecordedKept ==
    ASSUME TypeOK, TypeOK', Copies, UsersMade, Working, HomeGrows, FirstRecorded, Shapes,
           issued' = issued
    PROVE  FirstRecorded'
  <1> SUFFICES ASSUME issued[0] > 0
               PROVE  /\ KnownUser' \in 1 .. ha'.made
                      /\ KnownUser' \in ha'.users => KnownUser' \in ha'.logins
                      /\ Remembered'
    BY DEF FirstRecorded
  <1>1. KnownUser \in 1 .. ha.made /\ (KnownUser \in ha.users => KnownUser \in ha.logins)
        /\ Remembered /\ ha.made \in Nat
    BY DEF FirstRecorded, TypeOK
  <1>2. KnownUser' = KnownUser /\ Remembered'
    BY <1>1, KnownUserKept
  <1> QED
    BY <1>1, <1>2, LoginKept

\* Outside a recovery, the reconcile that makes the first token has seen to it that the
\* user had no login.
Fresh ==
    /\ /\ mode # "recovery" /\ ~who.login
       /\ (pc = "RecordUser" /\ memFresh) \/ pc \in {"EnsureAdmin", "MarkIssuing", "SetPassword"}
       => issued[0] = 0
    /\ mode # "recovery" /\ pc = "CreateToken" => issued[0] = 0
    /\ pc = "CreateToken" => (who.id \in ha.users => who.id \in ha.logins)

LEMMA FoundFresh ==
    ASSUME TypeOK, Copies, UsersMade, Working, FirstRecorded, issued' = issued,
           FindOperatorUser \/ CreateAuthUser, pc' = "RecordUser"
    PROVE  ~who'.login /\ memFresh' => issued'[0] = 0
  <1> SUFFICES ASSUME ~who'.login, memFresh', issued[0] > 0 PROVE FALSE
    BY Zero
  <1>1. memFresh' = memFresh /\ mem.kind = "managed" /\ secret = mem
    BY Finding, Making DEF Copies, FindOperatorUser, CreateAuthUser
  <1>2. mem.user \in 1 .. ha.made /\ (mem.user \in ha.users => mem.user \in ha.logins)
    BY <1>1 DEF FirstRecorded, KnownUser
  <1>3. mem.user # 0
    BY <1>2
  <1>4. FindOperatorUser
    BY <1>3, Making
  <1> QED
    BY <1>2, <1>3, <1>4, Finding

LEMMA FreshKept ==
    ASSUME TypeOK, TypeOK', Copies, UsersMade, Working, HomeGrows, FirstRecorded, Fresh,
           issued' = issued, [Next]_vars
    PROVE  Fresh'
  <1> DEFINE Late == {"EnsureAdmin", "MarkIssuing", "SetPassword", "CreateToken"}
  <1>1. CASE pc' \notin {"RecordUser"} \cup Late
    BY <1>1 DEF Fresh
  <1>2. CASE FindOperatorUser \/ CreateAuthUser
    <2>1. CASE pc' = "RecordUser"
      BY <1>2, <2>1, FoundFresh DEF Fresh
    <2> QED
      BY <1>1, <1>2, <2>1, Finding, Making
  <1>3. CASE SetPassword
    <2>1. CASE pc' = "CreateToken"
      <3>1. /\ MaySetPassword /\ pc = "SetPassword" /\ UNCHANGED <<mode, who>>
            /\ who.id \in ha'.logins
        BY <1>3, <2>1, TypedParts DEF SetPassword, CallFails, Return, Refused, Goto, Instances
      <3> QED
        BY <2>1, <3>1 DEF Fresh, MaySetPassword
    <2>2. pc' \in {"CreateToken", "Idle", "ReportFailed"}
      BY <1>3 DEF SetPassword, CallFails, Return, Refused, Goto
    <2> QED
      BY <1>1, <2>1, <2>2
  <1>4. ASSUME who' = who, mode' = mode, pc' = pc, memFresh' => memFresh PROVE Fresh'
    <2>1. CASE pc = "CreateToken"
      BY <1>4, <2>1, LoginKept DEF Fresh, Working, Recorded
    <2>2. CASE pc # "CreateToken"
      BY <1>4, <2>2 DEF Fresh
    <2> QED
      BY <2>1, <2>2
  <1>5. CASE who' = who /\ Called /\ ~FindOperatorUser /\ ~CreateAuthUser /\ ~SetPassword
    <2>1. CASE pc' = "Idle" \/ pc' = "ReportFailed"
      BY <1>1, <2>1
    <2>2. CASE pc' # "Idle" /\ pc' # "ReportFailed"
      <3>1. /\ <<pc, pc'>> \in Calls /\ memFresh' = memFresh
            /\ pc = "EnsureAdmin" => mode' = mode
        BY <1>5, <2>2 DEF Called, Return, Onwards
      <3>2. pc \notin {"FindOperatorUser", "CreateAuthUser", "SetPassword"}
        BY <1>5, <2>2, <3>1, CallOf DEF Calls
      <3>3. pc' \in {"RecordUser"} \cup Late => pc = "EnsureAdmin" /\ pc' = "MarkIssuing"
        BY <3>1, <3>2 DEF Calls
      <3> QED
        BY <1>1, <1>5, <3>1, <3>3 DEF Fresh
    <2> QED
      BY <2>1, <2>2
  <1>6. ASSUME NEW new, Saves(new) PROVE Fresh'
    <2>1. CASE pc' = "Idle" \/ pc' = "ReportFailed"
      BY <1>1, <2>1
    <2>2. CASE pc' # "Idle" /\ pc' # "ReportFailed"
      <3>1. memFresh /\ <<pc, pc'>> \in Writes /\ UNCHANGED <<mode, who>>
        BY <1>6, <2>2 DEF Saves, Return
      <3>2. pc' \in {"RecordUser"} \cup Late =>
               <<pc, pc'>> \in {<<"RecordUser", "EnsureAdmin">>, <<"MarkIssuing", "SetPassword">>}
        BY <3>1 DEF Writes
      <3> QED
        BY <1>1, <3>1, <3>2 DEF Fresh
    <2> QED
      BY <2>1, <2>2
  <1>7. CASE ReserveLedger \/ ReportStatus \/ ReadLedger
    BY <1>1, <1>7, Managed DEF ReserveLedger, ReportStatus, ReadLedger, Return, Goto
  <1>8. CASE \/ SubmitRequest \/ WithdrawRequest \/ ResubmitRequest \/ InformerSync
             \/ LoseStatus \/ LoseSecret \/ PlaceForeign \/ Elsewhere
    BY <1>4, <1>8 DEF SubmitRequest, WithdrawRequest, ResubmitRequest, InformerSync, LoseStatus,
       LoseSecret, PlaceForeign, Elsewhere, operator
  <1> QED
    BY <1>1, <1>2, <1>3, <1>5, <1>6, <1>7, <1>8, StepShape, WhoShape DEF Shapes

\* The step that makes a token, again.
LEMMA FirstIssue ==
    ASSUME TypeOK, TypeOK', Copies, Ordered, Held, UsersMade, Working, HomeGrows, FirstRecorded,
           Fresh, CreateToken, Issues
    PROVE  FirstRecorded' /\ Fresh'
  <1>1. /\ pc = "CreateToken" /\ issued' = [issued EXCEPT ![mem.req] = @ + 1]
        /\ issued \in [Requests -> Nat] /\ mem.req \in Requests
    BY TypedParts, Numbers DEF Issues
  <1>2. Called
    BY CallsShape
  <1>3. Fresh'
    <2>1. pc' \in {"Idle", "ReportFailed", "StoreToken"}
      BY <1>1, <1>2 DEF Called, Return, Onwards, Calls
    <2> QED
      BY <2>1 DEF Fresh
  <1>4. mem.kind = "managed" /\ mem.user = who.id /\ who.id \in 1 .. ha.made
    BY <1>1 DEF Copies, Working, Recorded
  <1>5. KnownUser = mem.user /\ Remembered
    <2>1. CASE memFresh
      BY <1>4, <2>1 DEF Copies, KnownUser, Remembered
    <2>2. CASE ~memFresh
      BY <1>1, <2>2 DEF Held, Recorded, KnownUser, Remembered
    <2> QED
      BY <2>1, <2>2
  <1>6. KnownUser # 0 /\ KnownUser \in 1 .. ha.made
        /\ (KnownUser \in ha.users => KnownUser \in ha.logins)
    BY <1>1, <1>4, <1>5 DEF Fresh
  <1>7. KnownUser' = KnownUser /\ Remembered'
    BY <1>2, <1>5, <1>6, KnownUserKept DEF Shapes
  <1>8. FirstRecorded'
    BY <1>6, <1>7, LoginKept DEF FirstRecorded
  <1> QED
    BY <1>3, <1>8

-----------------------------------------------------------------------------
(* The theorem.                                                             *)

\* The inductive invariant.
IInv == /\ TypeOK /\ Copies /\ Ordered /\ Held /\ IssuedOnce
        /\ UsersMade /\ Working /\ FirstRecorded /\ Fresh
        /\ AtMostOneTokenPerRequest

LEMMA InitIInv == Init => IInv
  <1> SUFFICES ASSUME Init PROVE IInv
    OBVIOUS
  <1> USE Kinds, Zero DEF Init
  <1>1. TypeOK
    BY InitTyped
  <1>2. ha.users = {} /\ ha.made = 0 /\ status.req = 0
    BY DEF Blank
  <1>3. \A r \in Requests : issued[r] = 0
    OBVIOUS
  <1>4. Copies /\ Ordered /\ Held
    BY <1>2 DEF Copies, Ordered, Held, Recorded, Provision
  <1>5. IssuedOnce
    BY <1>3, Numbers, <1>1 DEF IssuedOnce, NewestCounted, AboutToReserve, AboutToConsume,
       Provisioning, Provision
  <1>6. UsersMade /\ Working /\ FirstRecorded /\ Fresh
    BY <1>2, <1>3 DEF UsersMade, Working, FirstRecorded, Fresh, Recorded
  <1>7. AtMostOneTokenPerRequest
    BY <1>3 DEF AtMostOneTokenPerRequest
  <1> QED
    BY <1>1, <1>4, <1>5, <1>6, <1>7 DEF IInv

LEMMA NextIInv == IInv /\ [Next]_vars => IInv'
  <1> SUFFICES ASSUME IInv, [Next]_vars PROVE IInv'
    OBVIOUS
  <1> USE DEF IInv
  <1>1. TypeOK'
    BY TypePreserved
  <1>2. Shapes /\ HomeGrows
    BY StepShape, HomeShape
  <1>3. Copies' /\ Ordered' /\ Held' /\ IssuedOnce'
    BY <1>2, CopiesKept, OrderedKept, HeldKept, IssuedOnceKept
  <1>4. UsersMade' /\ Working'
    BY <1>1, <1>2, UsersMadeKept, WorkingKept
  <1>5. CASE issued' = issued
    <2>1. FirstRecorded' /\ Fresh'
      BY <1>1, <1>2, <1>5, FirstRecordedKept, FreshKept
    <2>2. AtMostOneTokenPerRequest'
      BY <1>5 DEF AtMostOneTokenPerRequest
    <2> QED
      BY <1>1, <1>3, <1>4, <2>1, <2>2
  <1>6. CASE CreateToken /\ Issues
    <2>1. FirstRecorded' /\ Fresh'
      BY <1>1, <1>2, <1>6, FirstIssue
    <2>2. issued[mem.req] = 0
      BY <1>6 DEF Issues, Fresh, IssuedOnce, Provisioning, Provision
    <2>3. AtMostOneTokenPerRequest'
      BY <1>6, <2>2, TypedParts DEF Issues, AtMostOneTokenPerRequest
    <2> QED
      BY <1>1, <1>3, <1>4, <2>1, <2>3
  <1> QED
    BY <1>5, <1>6, IssueShape

\* Whatever crashes, lost answers, stale reads and lost statuses or Secrets come between,
\* a request, and the initial provisioning, brings about at most one long-lived token.
THEOREM OneTokenTheorem == Spec => []AtMostOneTokenPerRequest
  <1>1. IInv => AtMostOneTokenPerRequest
    BY DEF IInv
  <1> QED
    BY <1>1, InitIInv, NextIInv, PTL DEF Spec

-----------------------------------------------------------------------------
(* The refinement.                                                          *)

\* A step of the operator is a step of the promise, or changes nothing of it.
LEMMA StepPromised ==
    ASSUME ~LedgerLoss, IInv, [Next]_vars
    PROVE  [Promise!Next]_<<secret.req, issued>>
  <1> USE Numbers, Kinds DEF IInv
  <1>1. Shapes
    BY StepShape
  <1>2. CASE issued' = issued
    <2>1. CASE secret'.req = secret.req
      BY <1>2, <2>1
    <2>2. ASSUME NEW new, Saves(new), secret'.req # secret.req
          PROVE  secret'.req \in 1 .. MaxReq /\ secret'.req > secret.req
      <3>1. memFresh /\ secret' = new /\ mem = secret
        BY <2>2 DEF Saves, Copies
      <3>2. pc = "ConsumeRequest" /\ secret'.req = want
        BY <2>2, <3>1 DEF Saves
      <3>3. secret.req < want
        BY <3>1, <3>2 DEF IssuedOnce, AboutToConsume
      <3> QED
        BY <3>2, <3>3 DEF Requests
    <2>3. CASE ReserveLedger
      BY <2>3, Managed, <2>1 DEF ReserveLedger, Copies
    <2>4. CASE PlaceForeign
      BY <2>4, <2>1 DEF PlaceForeign, Copies
    <2>5. CASE UNCHANGED secret
      BY <2>1, <2>5
    <2>6. CASE \/ Called \/ ReadLedger \/ ReportStatus \/ SubmitRequest \/ WithdrawRequest
               \/ ResubmitRequest \/ InformerSync \/ LoseStatus \/ LoseSecret \/ Elsewhere
      BY <2>5, <2>6 DEF Called, Private, ReadLedger, ReportStatus, SubmitRequest,
         WithdrawRequest, ResubmitRequest, InformerSync, LoseStatus, LoseSecret, Elsewhere
    <2> QED
      BY <1>1, <1>2, <2>1, <2>2, <2>3, <2>4, <2>6 DEF Shapes, Promise!Next, Promise!Consume
  <1>3. CASE CreateToken /\ Issues
    <2>1. pc = "CreateToken" /\ secret' = secret
      BY <1>3 DEF CreateToken, RemoteStep
    <2>2. mem.kind = "managed" /\ memFresh /\ mem = secret
      BY <2>1 DEF Copies, Held, Recorded
    <2>3. issued[secret.req] = 0
      BY <2>1, <2>2 DEF Fresh, IssuedOnce, Provisioning, Provision
    <2>4. issued' = [issued EXCEPT ![secret.req] = 1]
      BY <1>3, <2>2, <2>3 DEF Issues
    <2> QED
      BY <2>1, <2>3, <2>4 DEF Promise!Next, Promise!Issue
  <1> QED
    BY <1>2, <1>3, IssueShape

\* Unless the ledger is deleted by hand, it keeps the promise of RequestLedger.
THEOREM PromiseTheorem == ASSUME ~LedgerLoss PROVE Spec => KeepsPromise
  <1>1. Init => Promise!Init
    BY Kinds DEF Init, Promise!Init, Requests
  <1>2. IInv /\ [Next]_vars => [Promise!Next]_<<secret.req, issued>>
    BY StepPromised
  <1> QED
    BY <1>1, <1>2, InitIInv, NextIInv, PTL DEF Spec, KeepsPromise, Promise!Spec

-----------------------------------------------------------------------------
(* Ownership.                                                               *)

\* The operator never writes a Secret under the ledger's name that is not its own: it
\* has the newest version of such a Secret only when it took none for its ledger.
THEOREM ForeignTheorem == Spec => ForeignNeverOverwritten
  <1>1. ASSUME IInv, [Next]_vars, secret.kind = "foreign" PROVE secret' = secret
    <2> USE <1>1 DEF IInv
    <2>1. CASE \E new : Saves(new)
      BY <2>1 DEF Saves, Copies
    <2>2. CASE ReserveLedger
      BY <2>2 DEF ReserveLedger
    <2>3. CASE LoseSecret \/ PlaceForeign
      BY <2>3 DEF LoseSecret, PlaceForeign
    <2>4. CASE \/ Called \/ ReadLedger \/ ReportStatus \/ SubmitRequest \/ WithdrawRequest
               \/ ResubmitRequest \/ InformerSync \/ LoseStatus \/ Elsewhere
      BY <2>4 DEF Called, Private, ReadLedger, ReportStatus, SubmitRequest, WithdrawRequest,
         ResubmitRequest, InformerSync, LoseStatus, Elsewhere
    <2> QED
      BY <2>1, <2>2, <2>3, <2>4, StepShape DEF Shapes
  <1>2. IInv /\ [Next]_vars => [secret.kind = "foreign" => secret' = secret]_vars
    BY <1>1
  <1> QED
    BY <1>2, InitIInv, NextIInv, PTL DEF Spec, ForeignNeverOverwritten

-----------------------------------------------------------------------------
(***************************************************************************)
(* A token that is handed to other controllers was confirmed.              *)
(***************************************************************************)

Checked(l) == l.token \in proven /\ l.token.user = l.user

\* While a token is being made the reconcile's copy is not verified, and the identity
\* it works on is the recorded one when the token is stored; a copy that is about to
\* be saved as verified has been checked.
Underway == Provision \cup {"StoreToken", "VerifyToken"}
Vouched ==
    /\ secret.kind = "managed" /\ secret.stage = "Verified" => Checked(secret)
    /\ pc \in Underway => mem.stage # "Verified"
    /\ pc \in {"StoreToken", "VerifyToken"} => mem.user = who.id
    /\ pc \in {"CommitVerified", "PromoteToken"} => Checked(mem)

LEMMA ProvenGrows ==
    ASSUME [Next]_vars
    PROVE  proven \subseteq proven'
  <1>1. CASE proven' = proven
    BY <1>1
  <1>2. CASE VerifyToken \/ ObserveToken
    BY <1>2 DEF VerifyToken, ObserveToken
  <1>3. proven' = proven \/ VerifyToken \/ ObserveToken
    BY DEF Next, Operator, Environment, vars, history, LedgerStep,
       ReadLedger, ReadFails, ReserveLedger, ConsumeRequest, Route, MarkMigration,
       AuthenticateLegacy, ReadOwnerCredentials, PerformBootstrap, OwnerLogin,
       FindOperatorUser, MarkCreating, CreateAuthUser, RecordUser, EnsureAdmin, MarkIssuing,
       SetPassword, CreateToken, StoreToken, CommitVerified, PromoteToken,
       ReportStatus, SubmitRequest, WithdrawRequest, ResubmitRequest, InformerSync, Crash,
       LoseStatus, LoseSecret, PlaceForeign, AdminInterferes, LateCreate, DamageInputs,
       RepairInputs
  <1> QED
    BY <1>1, <1>2, <1>3

\* The calls that check a token.
LEMMA CheckOf ==
    ASSUME [Next]_vars, pc' \notin {"Idle", pc}
    PROVE  /\ pc = "VerifyToken" => VerifyToken
           /\ pc = "ObserveToken" => ObserveToken
           /\ pc = "CreateToken" => CreateToken
  <1>1. Environment \/ UNCHANGED vars => pc' = pc \/ pc' = "Idle"
    BY DEF Environment, vars, operator, Return, SubmitRequest, WithdrawRequest, ResubmitRequest,
       InformerSync, Crash, LoseStatus, LoseSecret, PlaceForeign, AdminInterferes, LateCreate,
       DamageInputs, RepairInputs
  <1>2. Operator => \/ pc \notin {"VerifyToken", "ObserveToken", "CreateToken"}
                    \/ pc = "VerifyToken" /\ VerifyToken
                    \/ pc = "ObserveToken" /\ ObserveToken
                    \/ pc = "CreateToken" /\ CreateToken
    BY DEF Operator, ReadLedger, ReadFails, ReserveLedger, ConsumeRequest, Route, MarkMigration,
       AuthenticateLegacy, ReadOwnerCredentials, PerformBootstrap, OwnerLogin, FindOperatorUser,
       MarkCreating, CreateAuthUser, RecordUser, EnsureAdmin, MarkIssuing, SetPassword,
       CreateToken, StoreToken, VerifyToken, CommitVerified, ObserveToken, PromoteToken,
       ReportStatus
  <1> QED
    BY <1>1, <1>2 DEF Next

\* A call leaves the ledger and the copies to be vouched for.
LEMMA CallVouched ==
    ASSUME IInv, Vouched, [Next]_vars, Called, <<pc, pc'>> \in Calls, pc' \notin {"Idle", pc}
    PROVE  Vouched'
  <1> USE DEF IInv
  <1>1. /\ UNCHANGED <<mem, secret>> /\ proven \subseteq proven'
        /\ Checked(secret) => Checked(secret)'
    BY ProvenGrows DEF Called, Private, Return, Onwards, Calls, Checked
  <1>2. pc' \in Underway => pc \in Underway
    BY DEF Calls, Underway, Provision
  <1>3. CASE pc' = "StoreToken"
    <2>1. pc = "CreateToken" /\ who' = who
      BY <1>3, CheckOf DEF Calls, CreateToken, Goto, Refused, CallFails, Return
    <2> QED
      BY <1>1, <1>2, <1>3, <2>1 DEF Vouched, Working, Recorded
  <1>4. CASE pc' = "CommitVerified"
    <2>1. pc = "VerifyToken" /\ VerifyToken
      BY <1>4, CheckOf DEF Calls
    <2>2. mem.token \in proven' /\ mem.token.user = who.id
      BY <1>4, <2>1 DEF VerifyToken, Confirmed, Refused, CallFails, Goto, Return
    <2> QED
      BY <1>1, <1>4, <2>1, <2>2 DEF Vouched, Checked, Underway, Provision
  <1>5. CASE pc' = "PromoteToken"
    <2>1. pc = "ObserveToken" /\ ObserveToken
      BY <1>5, CheckOf DEF Calls
    <2>2. mem.token \in proven' /\ mem.token.user = mem.user
      BY <1>5, <2>1 DEF ObserveToken, Confirmed, Refused, CallFails, Goto, Return
    <2> QED
      BY <1>1, <1>5, <2>1, <2>2 DEF Vouched, Checked, Underway, Provision
  <1>6. CASE pc' \notin {"StoreToken", "CommitVerified", "PromoteToken"}
    <2>1. pc' # "VerifyToken"
      BY DEF Calls
    <2> QED
      BY <1>1, <1>2, <1>6, <2>1 DEF Vouched
  <1> QED
    BY <1>3, <1>4, <1>5, <1>6

\* Only what was checked is saved as verified.
LEMMA SaveVouched ==
    ASSUME IInv, Vouched, [Next]_vars, NEW new, Saves(new)
    PROVE  Vouched'
  <1> USE DEF IInv
  <1>1. /\ pc \in Underway \cup {"ConsumeRequest", "CommitVerified", "PromoteToken"}
        /\ new.stage = "Verified" => pc \in {"CommitVerified", "PromoteToken"}
    BY DEF Saves, StageSaved, Writes, Underway, Provision, Vouched
  <1>2. new.stage = "Verified" => new.token \in proven' /\ new.token.user = new.user
    BY <1>1, ProvenGrows DEF Saves, Vouched, Checked
  <1>3. secret'.kind = "managed" /\ secret'.stage = "Verified" => Checked(secret)'
    BY <1>2, ProvenGrows DEF Saves, Vouched, Checked
  <1>4. CASE pc' = "Idle" \/ pc' = "ReportFailed"
    BY <1>3, <1>4 DEF Vouched, Underway, Provision
  <1>5. CASE pc' # "Idle" /\ pc' # "ReportFailed"
    <2>1. <<pc, pc'>> \in Writes /\ mem' = new /\ who' = who
      BY <1>5 DEF Saves, Return
    <2>2. pc' \in Underway => new.stage # "Verified"
      BY <1>1, <2>1 DEF Writes, Underway, Provision
    <2>3. pc' \in {"StoreToken", "VerifyToken"} => pc = "StoreToken"
      BY <2>1 DEF Writes
    <2>4. pc' \notin {"CommitVerified", "PromoteToken"}
      BY <2>1 DEF Writes
    <2> QED
      BY <1>3, <2>1, <2>2, <2>3, <2>4 DEF Vouched, Saves
  <1> QED
    BY <1>4, <1>5

LEMMA VouchedKept ==
    ASSUME IInv, Vouched, [Next]_vars
    PROVE  Vouched'
  <1> USE DEF IInv
  <1>0. proven \subseteq proven' /\ (Checked(secret) => secret' # secret \/ Checked(secret)')
    BY ProvenGrows DEF Checked
  <1>1. CASE secret' = secret /\ pc' \notin Underway \cup {"CommitVerified", "PromoteToken"}
    BY <1>0, <1>1 DEF Vouched, Underway
  <1>2. CASE UNCHANGED <<secret, pc, mem, who>>
    BY <1>0, <1>2 DEF Vouched, Checked
  <1>3. CASE Called
    <2>1. CASE pc' = "Idle" \/ pc' = "ReportFailed"
      BY <1>1, <1>3, <2>1 DEF Called, Private, Underway, Provision
    <2>2. CASE pc' # "Idle" /\ pc' # "ReportFailed"
      <3>1. <<pc, pc'>> \in Calls /\ pc' # pc
        BY <1>3, <2>2 DEF Called, Return, Onwards, Calls
      <3> QED
        BY <1>3, <2>2, <3>1, CallVouched
    <2> QED
      BY <2>1, <2>2
  <1>4. CASE \E new : Saves(new)
    BY <1>4, SaveVouched
  <1>5. CASE ReserveLedger
    <2>1. NewLedger.stage = "Provisioning"
      BY DEF NewLedger, Absent
    <2>2. secret'.kind = "managed" /\ secret'.stage = "Verified" => Checked(secret)'
      BY <1>0, <1>5, <2>1 DEF ReserveLedger, Vouched, Checked
    <2>3. pc' \in {"Idle", "ConsumeRequest"} \/ (pc' = "Route" /\ mem' = NewLedger)
      BY <1>5 DEF ReserveLedger, Return, Goto
    <2> QED
      BY <2>1, <2>2, <2>3 DEF Vouched, Underway, Provision
  <1>6. CASE ReadLedger
    <2>1. pc' = "Route" => mem'.stage # "Verified"
      <3>1. pc' = "Route" => Accepted(cache) /\ ~Spent /\ mem' = cache
        BY <1>6 DEF ReadLedger, Decision
      <3> QED
        BY <3>1 DEF Spent, VerifiedBefore
    <2> QED
      BY <1>0, <1>6, <2>1, Decided DEF ReadLedger, Vouched, Underway, Provision
  <1>7. CASE ReportStatus
    BY <1>1, <1>7 DEF ReportStatus, Return, Underway, Provision
  <1>8. CASE LoseSecret \/ PlaceForeign
    BY <1>0, <1>8, Kinds DEF LoseSecret, PlaceForeign, Vouched, Checked
  <1>9. CASE SubmitRequest \/ WithdrawRequest \/ ResubmitRequest \/ InformerSync \/ LoseStatus
             \/ Elsewhere
    BY <1>2, <1>9 DEF SubmitRequest, WithdrawRequest, ResubmitRequest, InformerSync, LoseStatus,
       Elsewhere, Private, operator
  <1> QED
    BY <1>3, <1>4, <1>5, <1>6, <1>7, <1>8, <1>9, StepShape DEF Shapes

\* Whatever happens, no token is handed out that was not confirmed as the recorded user's.
THEOREM ServedTokenTheorem == Spec => []ServedTokenProven
  <1>1. Init => Vouched
    BY Kinds DEF Init, Vouched, Underway, Provision
  <1>2. IInv /\ Vouched /\ [Next]_vars => Vouched'
    BY VouchedKept
  <1>3. Vouched => ServedTokenProven
    BY DEF Vouched, Checked, ServedTokenProven, DedicatedServes
  <1> QED
    BY <1>1, <1>2, <1>3, InitIInv, NextIInv, PTL DEF Spec

-----------------------------------------------------------------------------
(* The owner's password.                                                    *)

\* A reconcile that may still use the password, or make the user, works on a ledger
\* under which no token was asked for.
Early == {"Route", "MarkMigration", "AuthenticateLegacy", "ReadOwnerCredentials",
          "PerformBootstrap", "OwnerLogin", "FindOperatorUser", "MarkCreating"}
Unspent == pc \in Early => mem.stage \notin {"Issuing", "Verified"}

LEMMA UnspentKept ==
    ASSUME IInv, Unspent, [Next]_vars
    PROVE  Unspent'
  <1> USE DEF IInv
  <1>1. CASE pc' \notin Early
    BY <1>1 DEF Unspent
  <1>2. CASE UNCHANGED <<pc, mem>>
    BY <1>2 DEF Unspent
  <1>3. CASE Called /\ pc' \in Early
    <2>1. <<pc, pc'>> \in Calls /\ mem' = mem
      BY <1>3 DEF Called, Return, Onwards, Early
    <2> QED
      BY <1>3, <2>1 DEF Calls, Early, Unspent
  <1>4. ASSUME NEW new, Saves(new), pc' \in Early PROVE Unspent'
    <2>1. <<pc, pc'>> \in Writes /\ mem' = new /\ new.stage = StageSaved
      BY <1>4 DEF Saves, Return, Early
    <2>2. \/ pc = "ConsumeRequest" /\ new.stage = "Recovering"
          \/ pc \in {"Route", "MarkMigration"} /\ new.stage = mem.stage
      BY <1>4, <2>1 DEF Writes, Early, StageSaved
    <2> QED
      BY <2>1, <2>2 DEF Unspent, Early
  <1>5. CASE ReserveLedger /\ pc' \in Early
    <2>1. mem' = NewLedger /\ NewLedger.stage = "Provisioning"
      BY <1>5 DEF ReserveLedger, Return, Goto, Early, NewLedger, Absent
    <2> QED
      BY <2>1 DEF Unspent
  <1>6. CASE ReadLedger /\ pc' \in Early
    <2>1. pc' = "Route" /\ pc' = Decision
      BY <1>6, Decided DEF Early, ReadLedger
    <2>2. Accepted(cache) /\ ~Spent /\ mem' = cache
      BY <1>6, <2>1 DEF ReadLedger, Decision
    <2> QED
      BY <2>2 DEF Spent, VerifiedBefore, Unspent
  <1>7. CASE ReportStatus
    BY <1>1, <1>7 DEF ReportStatus, Return, Early
  <1>8. CASE \/ SubmitRequest \/ WithdrawRequest \/ ResubmitRequest \/ InformerSync
             \/ LoseStatus \/ LoseSecret \/ PlaceForeign \/ Elsewhere
    BY <1>2, <1>8 DEF SubmitRequest, WithdrawRequest, ResubmitRequest, InformerSync, LoseStatus,
       LoseSecret, PlaceForeign, Elsewhere, operator
  <1> QED
    BY <1>1, <1>3, <1>4, <1>5, <1>6, <1>7, <1>8, StepShape DEF Shapes

LEMMA InitUnspent == Init => Unspent
  BY DEF Init, Unspent, Early

\* A user is made with the newest ledger, unless it was taken away.
Intended == pc = "CreateAuthUser" => memFresh \/ secret.kind # "managed"

LEMMA IntendedKept ==
    ASSUME IInv, Intended, [Next]_vars
    PROVE  Intended'
  <1> USE DEF IInv
  <1>1. CASE pc' # "CreateAuthUser"
    BY <1>1 DEF Intended
  <1>2. CASE pc' = "CreateAuthUser" /\ UNCHANGED <<pc, memFresh, secret>>
    BY <1>2 DEF Intended
  <1>3. CASE Called /\ pc' = "CreateAuthUser"
    BY <1>3 DEF Called, Return, Onwards, Calls
  <1>4. ASSUME NEW new, Saves(new), pc' = "CreateAuthUser" PROVE Intended'
    BY <1>4 DEF Saves, Return, Intended
  <1>5. CASE ReserveLedger \/ ReadLedger \/ ReportStatus
    BY <1>1, <1>5, Managed DEF ReserveLedger, ReadLedger, ReportStatus, Return, Goto
  <1>6. CASE \/ SubmitRequest \/ WithdrawRequest \/ ResubmitRequest \/ InformerSync
             \/ LoseStatus \/ Elsewhere
    BY <1>1, <1>2, <1>6 DEF SubmitRequest, WithdrawRequest, ResubmitRequest, InformerSync,
       LoseStatus, Elsewhere, Private, operator
  <1>7. CASE LoseSecret \/ PlaceForeign
    BY <1>7, Kinds DEF LoseSecret, PlaceForeign, Intended
  <1> QED
    BY <1>1, <1>3, <1>4, <1>5, <1>6, <1>7, StepShape DEF Shapes

\* What a reconcile without the newest ledger leaves alone, if there is a ledger.
Harmless == UNCHANGED <<secret, issued>> /\ ha' \in {ha, [ha EXCEPT !.onboarded = TRUE]}

LEMMA OutdatedIsHarmless ==
    ASSUME IInv, Intended, [Next]_vars, ~memFresh, secret.kind = "managed", pc' # pc
    PROVE  Harmless
  <1> USE DEF IInv
  <1>1. pc \notin Recorded \cup {"CreateAuthUser"}
    BY DEF Held, Intended
  <1>2. CASE PerformBootstrap
    BY <1>2 DEF PerformBootstrap, RemoteStep, history, Harmless
  <1>3. CASE \/ CreateAuthUser \/ EnsureAdmin \/ SetPassword \/ CreateToken
    BY <1>1, <1>3 DEF Recorded, CreateAuthUser, EnsureAdmin, SetPassword, CreateToken
  <1>4. CASE \/ ConsumeRequest \/ MarkMigration \/ MarkCreating \/ RecordUser \/ MarkIssuing
             \/ StoreToken \/ CommitVerified \/ PromoteToken \/ Route
    BY <1>4 DEF ConsumeRequest, MarkMigration, MarkCreating, RecordUser, MarkIssuing,
       StoreToken, CommitVerified, PromoteToken, Route, Write, LedgerStep, history, Harmless
  <1>5. CASE ReserveLedger
    BY <1>5 DEF ReserveLedger, LedgerStep, history, Harmless
  <1>6. CASE \/ ReadLedger \/ ReadFails \/ AuthenticateLegacy \/ ReadOwnerCredentials
             \/ OwnerLogin \/ FindOperatorUser \/ VerifyToken \/ ObserveToken \/ ReportStatus
    BY <1>6 DEF ReadLedger, ReadFails, AuthenticateLegacy, ReadOwnerCredentials, OwnerLogin,
       FindOperatorUser, VerifyToken, ObserveToken, ReportStatus, RemoteStep, history, Harmless
  <1>7. CASE Crash
    BY <1>7 DEF Crash, history, Harmless
  <1>8. ASSUME Environment \/ UNCHANGED vars, ~Crash PROVE FALSE
    <2>1. pc' = pc
      BY <1>8 DEF Environment, vars, operator, SubmitRequest, WithdrawRequest, ResubmitRequest,
         InformerSync, LoseStatus, LoseSecret, PlaceForeign, AdminInterferes, LateCreate,
         DamageInputs, RepairInputs
    <2> QED
      BY <2>1
  <1> QED
    BY <1>2, <1>3, <1>4, <1>5, <1>6, <1>7, <1>8 DEF Next, Operator

\* Unless a person asks for a recovery, a reconcile with the newest ledger does not use the
\* owner's password once a token was verified or may have been issued.  One with an outdated
\* ledger may log in with it, and makes no user, password or token then.
THEOREM OwnerRetiredTheorem == Spec => OwnerRetired
  <1>1. ASSUME IInv, Unspent, Intended, [Next]_vars
        PROVE  mode = "initial" /\ Retired(secret) =>
                  /\ pc \in UsesOwner => ~memFresh
                  /\ ~memFresh /\ pc' # pc =>
                        UNCHANGED <<secret, issued>>
                        /\ ha' \in {ha, [ha EXCEPT !.onboarded = TRUE]}
    <2> SUFFICES ASSUME mode = "initial", Retired(secret)
                 PROVE  /\ pc \in UsesOwner => ~memFresh
                        /\ ~memFresh /\ pc' # pc => Harmless
      BY DEF Harmless
    <2>1. ASSUME pc \in UsesOwner, memFresh PROVE FALSE
      <3>1. pc \in Early /\ pc \in Provision
        BY <2>1 DEF UsesOwner, Early, Provision
      <3>2. mem = secret
        BY <1>1, <2>1 DEF IInv, Copies, Retired
      <3>3. mem.req = 0
        BY <1>1, <3>1 DEF IInv, IssuedOnce, Provisioning
      <3> QED
        BY <1>1, <3>1, <3>2, <3>3 DEF Unspent, Retired
    <2>2. ~memFresh /\ pc' # pc => Harmless
      BY <1>1, OutdatedIsHarmless DEF Retired
    <2> QED
      BY <2>1, <2>2
  <1>2. IInv /\ Unspent /\ [Next]_vars => Unspent'
    BY UnspentKept
  <1>3. IInv /\ Intended /\ [Next]_vars => Intended'
    BY IntendedKept
  <1>4. Init => Intended
    BY DEF Init, Intended
  <1> QED
    BY <1>1, <1>2, <1>3, <1>4, InitUnspent, InitIInv, NextIInv, PTL DEF Spec, OwnerRetired

-----------------------------------------------------------------------------
(* The commands that create the dedicated user.                             *)

\* Commands carried out, and those that still may be.
Commanded == ha.made + ha.late

\* A ledger under which the user may still be created.
MayStill(l) == l.user = 0 /\ l.stage \notin {"Creating", "Issuing", "Verified"}

\* The number of commands is bounded by the newest request in the ledger: the intent to
\* give the command for that request is saved before, and never withdrawn.
CreatedOnce ==
    /\ secret.kind # "managed" => Commanded = 0
    /\ secret.kind = "managed" =>
          Commanded <= IF MayStill(secret) THEN secret.req ELSE 1 + secret.req
    /\ pc = "MarkCreating" => MayStill(mem)
    /\ pc = "CreateAuthUser" => /\ memFresh /\ secret.kind = "managed"
                                /\ secret.stage = "Creating" /\ Commanded <= secret.req

LEMMA CommandShape ==
    ASSUME TypeOK, [Next]_vars
    PROVE  /\ Commanded \in Nat
           /\ \/ Commanded' = Commanded
              \/ pc = "CreateAuthUser" /\ CreateAuthUser /\ Commanded' = Commanded + 1
  <1>0. /\ ha \in Instances /\ ha.made \in Nat /\ ha.late \in Nat
        /\ WithUser(ha, NewUser).made = ha.made + 1 /\ WithUser(ha, NewUser).late = ha.late
    BY TypedParts DEF Instances, NewUser, WithUser
  <1>1. CASE ha' = ha
    BY <1>0, <1>1 DEF Commanded
  <1>2. CASE PerformBootstrap \/ EnsureAdmin \/ SetPassword \/ CreateToken \/ AdminInterferes
    <2>1. ha'.made = ha.made /\ ha'.late = ha.late
      BY <1>0, <1>2 DEF PerformBootstrap, EnsureAdmin, SetPassword, CreateToken, AdminInterferes,
         Instances
    <2> QED
      BY <1>0, <2>1 DEF Commanded
  <1>3. CASE CreateAuthUser
    <2>1. CASE ha' = WithUser(ha, NewUser)
      <3>1. ha'.made = ha.made + 1 /\ ha'.late = ha.late
        BY <1>0, <2>1
      <3> QED
        BY <1>0, <1>3, <3>1 DEF Commanded, CreateAuthUser
    <2>2. CASE ha' = [ha EXCEPT !.late = @ + 1]
      <3>1. ha'.made = ha.made /\ ha'.late = ha.late + 1
        BY <1>0, <2>2 DEF Instances
      <3> QED
        BY <1>0, <1>3, <3>1 DEF Commanded, CreateAuthUser
    <2> QED
      BY <1>0, <1>1, <1>3, <2>1, <2>2 DEF CreateAuthUser
  <1>4. CASE LateCreate
    <2>1. ha'.made = ha.made + 1 /\ ha'.late = ha.late - 1
      BY <1>0, <1>4 DEF LateCreate, WithUser
    <2> QED
      BY <1>0, <2>1 DEF Commanded
  <1>5. \/ PerformBootstrap \/ CreateAuthUser \/ EnsureAdmin \/ SetPassword \/ CreateToken
        \/ AdminInterferes \/ LateCreate \/ ha' = ha
    BY DEF Next, Operator, Environment, vars, LedgerStep,
       ReadLedger, ReadFails, ReserveLedger, ConsumeRequest, Route, MarkMigration,
       AuthenticateLegacy, ReadOwnerCredentials, OwnerLogin, FindOperatorUser,
       MarkCreating, RecordUser, MarkIssuing, StoreToken, VerifyToken, CommitVerified,
       ObserveToken, PromoteToken, ReportStatus, SubmitRequest, WithdrawRequest,
       ResubmitRequest, InformerSync, Crash, LoseStatus, LoseSecret, PlaceForeign,
       DamageInputs, RepairInputs
  <1> QED
    BY <1>0, <1>1, <1>2, <1>3, <1>4, <1>5 DEF Commanded

\* A command is given only under the saved intent, and it is the first.
LEMMA CommandCounted ==
    ASSUME IInv, CreatedOnce, CreateAuthUser, Commanded \in Nat, Commanded' = Commanded + 1
    PROVE  CreatedOnce'
  <1>1. pc = "CreateAuthUser" /\ secret' = secret /\ pc' \in {"Idle", "ReportFailed", "RecordUser"}
    BY DEF CreateAuthUser, RemoteStep, CallFails, Return, Goto
  <1>2. secret.req \in Nat
    BY Numbers DEF IInv
  <1> QED
    BY <1>1, <1>2 DEF CreatedOnce, MayStill

LEMMA CreatedOnceKept ==
    ASSUME ~LedgerLoss, IInv, Unspent, CreatedOnce, [Next]_vars
    PROVE  CreatedOnce'
  <1> USE Kinds, Numbers DEF IInv
  <1>0. Commanded \in Nat
    BY CommandShape
  <1>1. CASE CreateAuthUser /\ Commanded' = Commanded + 1
    BY <1>0, <1>1, CommandCounted
  <1> SUFFICES ASSUME Commanded' = Commanded PROVE CreatedOnce'
    BY <1>1, CommandShape
  <1>2. CASE secret' = secret /\ pc' \notin {"MarkCreating", "CreateAuthUser"}
    BY <1>2 DEF CreatedOnce
  <1>3. CASE UNCHANGED <<secret, pc, mem, memFresh>>
    BY <1>3 DEF CreatedOnce
  <1>4. CASE Called /\ pc' \in {"MarkCreating", "CreateAuthUser"}
    <2>1. <<pc, pc'>> \in Calls /\ mem' = mem /\ secret' = secret
      BY <1>4 DEF Called, Private, Return, Onwards
    <2>2. pc = "FindOperatorUser" /\ pc' = "MarkCreating"
      BY <1>4, <2>1 DEF Calls
    <2>3. FindOperatorUser
      BY <2>2, CallOf
    <2>4. MayCreate
      BY <2>2, <2>3 DEF FindOperatorUser, Refused, Goto, CallFails, Return
    <2>5. MayStill(mem)
      BY <2>2, <2>4 DEF MayCreate, MayStill, Unspent, Early
    <2> QED
      BY <2>1, <2>2, <2>5 DEF CreatedOnce
  <1>5. ASSUME NEW new, Saves(new) PROVE CreatedOnce'
    <2>1. CASE secret' = secret /\ pc' \in {"Idle", "ReportFailed"}
      BY <1>2, <2>1
    <2>2. CASE ~(secret' = secret /\ pc' \in {"Idle", "ReportFailed"})
      <3>1. memFresh /\ secret' = new /\ mem = secret /\ new.kind = "managed"
        BY <1>5, <2>2 DEF Saves, Copies, Return
      <3>2. /\ new.req = IF pc = "ConsumeRequest" THEN want ELSE mem.req
            /\ new.user = IF pc = "RecordUser" THEN who.id ELSE mem.user
            /\ new.stage = StageSaved /\ new.req \in Nat
        BY <1>5 DEF Saves
      <3>3. Commanded <= new.req \/ (~MayStill(new) /\ Commanded <= 1 + new.req)
        <4>1. CASE pc = "ConsumeRequest"
          BY <1>0, <3>1, <3>2, <4>1 DEF IssuedOnce, AboutToConsume, CreatedOnce
        <4>2. CASE pc # "ConsumeRequest"
          <5>1. pc = "RecordUser" => who.id # 0
            BY DEF Working
          <5>2. MayStill(new) => MayStill(mem)
            BY <3>2, <4>2, <5>1 DEF MayStill, StageSaved
          <5> QED
            BY <3>1, <3>2, <4>2, <5>2 DEF CreatedOnce
        <4> QED
          BY <4>1, <4>2
      <3>4. CASE pc' = "CreateAuthUser"
        <4>1. pc = "MarkCreating" /\ memFresh'
          BY <1>5, <3>1, <3>4 DEF Saves, Writes, Return
        <4>2. Commanded <= new.req /\ new.stage = "Creating"
          BY <3>1, <3>2, <4>1 DEF CreatedOnce, StageSaved
        <4> QED
          BY <1>0, <3>1, <3>2, <3>4, <4>1, <4>2 DEF CreatedOnce, MayStill
      <3>5. CASE pc' # "CreateAuthUser"
        <4>1. pc' # "MarkCreating"
          BY <1>5 DEF Saves, Writes, Return
        <4> QED
          BY <1>0, <3>1, <3>2, <3>3, <3>5, <4>1 DEF CreatedOnce, MayStill
      <3> QED
        BY <3>4, <3>5
    <2> QED
      BY <2>1, <2>2
  <1>6. CASE ReserveLedger
    <2>1. pc' \notin {"MarkCreating", "CreateAuthUser"}
      BY <1>6 DEF ReserveLedger, Return, Goto
    <2>2. secret' = secret \/ (secret.kind # "managed" /\ secret' = NewLedger)
      BY <1>6 DEF ReserveLedger
    <2> QED
      BY <1>0, <2>1, <2>2, Managed DEF CreatedOnce
  <1>7. CASE ReadLedger \/ ReportStatus
    <2>1. pc' \notin {"MarkCreating", "CreateAuthUser"} /\ secret' = secret
      BY <1>7, Managed DEF ReadLedger, ReportStatus, Return
    <2> QED
      BY <1>2, <2>1
  <1>8. CASE PlaceForeign
    BY <1>8 DEF PlaceForeign, CreatedOnce
  <1>9. CASE LoseSecret
    BY <1>9 DEF LoseSecret
  <1>10. CASE \/ SubmitRequest \/ WithdrawRequest \/ ResubmitRequest \/ InformerSync
              \/ LoseStatus \/ Elsewhere
    BY <1>3, <1>10 DEF SubmitRequest, WithdrawRequest, ResubmitRequest, InformerSync, LoseStatus,
       Elsewhere, Private, operator
  <1>11. CASE Called
    <2>1. secret' = secret
      BY <1>11 DEF Called, Private
    <2> QED
      BY <1>2, <1>4, <1>11, <2>1
  <1> QED
    BY <1>5, <1>6, <1>7, <1>8, <1>9, <1>10, <1>11, StepShape DEF Shapes

\* However often it crashes, retries or loses an answer, the operator gives Home Assistant
\* at most one command to create its user for each request, unless its ledger is deleted
\* by hand.
THEOREM OneCreateTheorem == ASSUME ~LedgerLoss PROVE Spec => []OneCreatePerAttempt
  <1>1. Init => CreatedOnce
    BY Kinds DEF Init, CreatedOnce, Commanded
  <1>2. IInv /\ Unspent /\ CreatedOnce /\ [Next]_vars => CreatedOnce'
    BY CreatedOnceKept
  <1>3. IInv /\ CreatedOnce => OneCreatePerAttempt
    BY Numbers, CommandShape, TypedParts
       DEF IInv, Ordered, CreatedOnce, Commanded, OneCreatePerAttempt, Instances
  <1>4. IInv /\ Unspent /\ [Next]_vars => Unspent'
    BY UnspentKept
  <1> QED
    BY <1>1, <1>2, <1>3, <1>4, InitUnspent, InitIInv, NextIInv, PTL DEF Spec

-----------------------------------------------------------------------------
(* Moving the consumers.                                                    *)

\* The ledger holds a verified token, or a person has asked for another since.
Settled == secret.kind = "managed" /\ (secret.req # 0 \/ secret.stage = "Verified")

\* Whoever says that the token was verified, the ledger bears it out.
Settling ==
    /\ cache.stage = "Verified" \/ secret.stage = "Verified" => Settled
    /\ mem.stage = "Verified" /\ pc # "ReportFailed" => Settled
    /\ pc = "ReportVerified" => Settled
    /\ status.verified \/ status.api = "dedicated" => Settled
    /\ \A t \in proven : t.user # 0

LEMMA ProvenUsers ==
    ASSUME IInv, [Next]_vars, \A t \in proven : t.user # 0
    PROVE  \A t \in proven' : t.user # 0
  <1>1. 0 \notin ha.users
    BY DEF IInv, UsersMade, TypeOK
  <1>2. VerifyToken \/ ObserveToken => proven' = proven \/ (mem.token.user \in ha.users /\ proven' = proven \cup {mem.token})
    BY DEF VerifyToken, ObserveToken, Confirmed
  <1>3. proven' = proven \/ VerifyToken \/ ObserveToken
    BY DEF Next, Operator, Environment, vars, history, LedgerStep,
       ReadLedger, ReadFails, ReserveLedger, ConsumeRequest, Route, MarkMigration,
       AuthenticateLegacy, ReadOwnerCredentials, PerformBootstrap, OwnerLogin,
       FindOperatorUser, MarkCreating, CreateAuthUser, RecordUser, EnsureAdmin, MarkIssuing,
       SetPassword, CreateToken, StoreToken, CommitVerified, PromoteToken,
       ReportStatus, SubmitRequest, WithdrawRequest, ResubmitRequest, InformerSync, Crash,
       LoseStatus, LoseSecret, PlaceForeign, AdminInterferes, LateCreate, DamageInputs,
       RepairInputs
  <1> QED
    BY <1>1, <1>2, <1>3

\* Once settled, a ledger stays so.
LEMMA SettledKept ==
    ASSUME ~LedgerLoss, IInv, Vouched, Settled, [Next]_vars
    PROVE  Settled'
  <1> USE DEF IInv
  <1>1. CASE secret' = secret
    BY <1>1 DEF Settled
  <1>2. ASSUME NEW new, Saves(new), secret' # secret PROVE Settled'
    <2>1. secret' = new /\ memFresh /\ mem = secret /\ new.kind = "managed"
      BY <1>2 DEF Saves, Copies
    <2>2. CASE pc = "ConsumeRequest"
      <3>1. new.req = want /\ mem.req < want
        BY <1>2, <2>1, <2>2 DEF Saves, IssuedOnce, AboutToConsume
      <3> QED
        BY <2>1, <3>1, Numbers DEF Settled
    <2>3. CASE pc # "ConsumeRequest" /\ mem.req # 0
      BY <1>2, <2>1, <2>3 DEF Saves, Settled
    <2>4. CASE pc # "ConsumeRequest" /\ mem.req = 0
      <3>1. mem.stage = "Verified" /\ pc \notin Underway
        BY <2>1, <2>4 DEF Settled, Vouched
      <3>2. pc \in {"CommitVerified", "PromoteToken"}
        BY <1>2, <2>4, <3>1 DEF Saves, Writes, Underway, Provision
      <3> QED
        BY <1>2, <2>1, <3>2 DEF Saves, StageSaved, Settled
    <2> QED
      BY <2>2, <2>3, <2>4
  <1>3. CASE ReserveLedger
    BY <1>1, <1>3 DEF ReserveLedger, Settled
  <1>4. CASE LoseSecret \/ PlaceForeign
    BY <1>4 DEF LoseSecret, PlaceForeign, Settled
  <1>5. CASE \/ Called \/ ReadLedger \/ ReportStatus \/ SubmitRequest \/ WithdrawRequest
             \/ ResubmitRequest \/ InformerSync \/ LoseStatus \/ Elsewhere
    BY <1>1, <1>5 DEF Called, Private, ReadLedger, ReportStatus, SubmitRequest, WithdrawRequest,
       ResubmitRequest, InformerSync, LoseStatus, Elsewhere
  <1> QED
    BY <1>1, <1>2, <1>3, <1>4, <1>5, StepShape DEF Shapes

LEMMA SavedVerified ==
    ASSUME IInv, secret.stage = "Verified" => Settled, Settled => Settled', [Next]_vars
    PROVE  secret'.stage = "Verified" => Settled'
  <1> USE DEF IInv
  <1>1. CASE secret' = secret
    BY <1>1
  <1>2. ASSUME NEW new, Saves(new), secret' # secret
        PROVE  secret'.stage = "Verified" => Settled'
    BY <1>2 DEF Saves, Settled
  <1>3. CASE ReserveLedger
    <2>1. NewLedger.stage = "Provisioning"
      BY DEF NewLedger, Absent
    <2> QED
      BY <1>1, <1>3, <2>1 DEF ReserveLedger
  <1>4. CASE LoseSecret \/ PlaceForeign
    BY <1>4 DEF LoseSecret, PlaceForeign, Absent, Foreign
  <1>5. CASE \/ Called \/ ReadLedger \/ ReportStatus \/ SubmitRequest \/ WithdrawRequest
             \/ ResubmitRequest \/ InformerSync \/ LoseStatus \/ Elsewhere
    BY <1>1, <1>5 DEF Called, Private, ReadLedger, ReportStatus, SubmitRequest, WithdrawRequest,
       ResubmitRequest, InformerSync, LoseStatus, Elsewhere
  <1> QED
    BY <1>1, <1>2, <1>3, <1>4, <1>5, StepShape DEF Shapes

LEMMA SettlingKept ==
    ASSUME ~LedgerLoss, IInv, Vouched, Settling, [Next]_vars
    PROVE  Settling'
  <1> USE DEF IInv
  <1>0. /\ (Settled => Settled') /\ \A t \in proven' : t.user # 0
        /\ secret'.stage = "Verified" => Settled'
    BY SettledKept, ProvenUsers, SavedVerified DEF Settling
  <1>1. CASE UNCHANGED <<cache, mem, pc, status>>
    BY <1>0, <1>1 DEF Settling
  <1>2. CASE Called
    <2>1. UNCHANGED <<cache, status>>
      BY <1>2 DEF Called, Private
    <2>2. CASE pc' = "Idle" \/ pc' = "ReportFailed"
      <3>1. pc' = "ReportFailed" \/ mem' = Absent
        BY <1>2, <2>2 DEF Called, Return, Onwards, Calls
      <3>2. Absent.stage = "None"
        BY DEF Absent
      <3> QED
        BY <1>0, <2>1, <2>2, <3>1, <3>2 DEF Settling
    <2>3. CASE pc' # "Idle" /\ pc' # "ReportFailed"
      <3>1. mem' = mem /\ <<pc, pc'>> \in Calls
        BY <1>2, <2>3 DEF Called, Return, Onwards
      <3>2. pc # "ReportFailed" /\ (pc' = "ReportVerified" => pc = "ObserveToken")
        BY <3>1 DEF Calls
      <3>3. pc' = "ReportVerified" => mem.stage = "Verified"
        <4> SUFFICES ASSUME pc' = "ReportVerified" PROVE mem.stage = "Verified"
          OBVIOUS
        <4>1. ObserveToken
          BY <3>2, CheckOf
        <4> QED
          BY <4>1 DEF ObserveToken, Goto, Refused, CallFails, Return
      <3> QED
        BY <1>0, <2>1, <3>1, <3>2, <3>3 DEF Settling
    <2> QED
      BY <2>2, <2>3
  <1>3. ASSUME NEW new, Saves(new) PROVE Settling'
    <2>1. UNCHANGED <<cache, status>>
      BY <1>3 DEF Saves, LedgerStep
    <2>2. CASE pc' = "Idle" \/ pc' = "ReportFailed"
      <3>1. pc' = "ReportFailed" \/ mem' = Absent
        BY <1>3, <2>2 DEF Saves, Return, Writes
      <3>2. Absent.stage = "None"
        BY DEF Absent
      <3> QED
        BY <1>0, <2>1, <2>2, <3>1, <3>2 DEF Settling
    <2>3. CASE pc' # "Idle" /\ pc' # "ReportFailed"
      <3>1. /\ mem' = new /\ secret' = new /\ new.kind = "managed" /\ new.stage = StageSaved
            /\ <<pc, pc'>> \in Writes
        BY <1>3, <2>3 DEF Saves, Return
      <3>2. pc' = "ReportVerified" => new.stage = "Verified"
        BY <3>1 DEF Writes, StageSaved
      <3>3. new.stage = "Verified" => Settled'
        BY <3>1 DEF Settled
      <3> QED
        BY <1>0, <2>1, <3>1, <3>2, <3>3 DEF Settling
    <2> QED
      BY <2>2, <2>3
  <1>4. CASE ReserveLedger
    <2>1. UNCHANGED <<cache, status>> /\ pc' # "ReportVerified"
      BY <1>4 DEF ReserveLedger, LedgerStep, Return, Goto
    <2>2. NewLedger.stage = "Provisioning" /\ Absent.stage = "None"
      BY DEF NewLedger, Absent
    <2>3. mem' \in {NewLedger, Absent}
      BY <1>4 DEF ReserveLedger, Return
    <2> QED
      BY <1>0, <2>1, <2>2, <2>3, Managed DEF Settling
  <1>5. CASE ReadLedger
    <2>1. UNCHANGED <<cache, status>> /\ mem' \in {cache, Absent} /\ pc' # "ReportVerified"
      BY <1>5, Decided DEF ReadLedger
    <2>2. Absent.stage = "None"
      BY DEF Absent
    <2> QED
      BY <1>0, <2>1, <2>2 DEF Settling
  <1>6. CASE ReportStatus
    <2>1. cache' = cache /\ mem' = Absent /\ pc' = "Idle"
      BY <1>6 DEF ReportStatus, Return
    <2>2. status'.verified \/ status'.api = "dedicated" =>
             status.verified \/ status.api = "dedicated" \/ pc = "ReportVerified"
      <3>1. CASE status' = status
        BY <3>1
      <3>2. CASE status' = Projected(status, mem, pc = "ReportVerified")
        BY <3>2 DEF Projected
      <3> QED
        BY <1>6, <3>1, <3>2 DEF ReportStatus
    <2>3. Absent.stage = "None"
      BY DEF Absent
    <2> QED
      BY <1>0, <2>1, <2>2, <2>3 DEF Settling
  <1>7. CASE InformerSync
    <2>1. UNCHANGED <<secret, mem, pc, status>> /\ cache' = secret
      BY <1>7 DEF InformerSync, operator
    <2> QED
      BY <1>0, <2>1 DEF Settling
  <1>8. CASE LoseStatus
    BY <1>0, <1>8 DEF LoseStatus, Blank, operator, Settling
  <1>9. CASE SubmitRequest \/ WithdrawRequest \/ ResubmitRequest \/ LoseSecret \/ PlaceForeign
             \/ Elsewhere
    BY <1>1, <1>9 DEF SubmitRequest, WithdrawRequest, ResubmitRequest, LoseSecret, PlaceForeign,
       Elsewhere, Private, operator
  <1> QED
    BY <1>2, <1>3, <1>4, <1>5, <1>6, <1>7, <1>8, <1>9, StepShape DEF Shapes

LEMMA ServiceUnbroken ==
    ASSUME IInv, Vouched, Settling
    PROVE  NoServiceGap
  <1> SUFFICES ASSUME status.api # "none", secret.req = 0, inputs.legacy, ~Migrating
               PROVE  DedicatedServes
    BY DEF NoServiceGap, TokenServed
  <1>1. Settled
    BY DEF IInv, TypeOK, Migrating, Settling
  <1>2. Checked(secret) /\ secret.token.user # 0
    BY <1>1 DEF Settled, Vouched, Checked, Settling
  <1> QED
    BY <1>1, <1>2 DEF Settled, Checked, DedicatedServes, HasToken

\* Until a person asks for a recovery, the consumers that move to the dedicated token have
\* one at any moment, unless the ledger is deleted by hand.
THEOREM NoGapTheorem == ASSUME ~LedgerLoss PROVE Spec => []NoServiceGap
  <1>1. Init => Settling
    BY Kinds DEF Init, Settling, Absent, Blank
  <1>2. IInv /\ Vouched /\ Settling /\ [Next]_vars => Settling'
    BY SettlingKept
  <1>3. IInv /\ Vouched /\ Settling => NoServiceGap
    BY ServiceUnbroken
  <1>4. Init => Vouched
    BY Kinds DEF Init, Vouched, Underway, Provision
  <1>5. IInv /\ Vouched /\ [Next]_vars => Vouched'
    BY VouchedKept
  <1> QED
    BY <1>1, <1>2, <1>3, <1>4, <1>5, InitIInv, NextIInv, PTL DEF Spec
=============================================================================
