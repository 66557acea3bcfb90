---------------------------- MODULE OperatorAccount ----------------------------
(***************************************************************************)
(* The dedicated operator account of one HomeAssistant resource: how the   *)
(* controller provisions, verifies and recovers the API token it uses to   *)
(* manage Home Assistant (internal/controller/operator_account.go and      *)
(* operator_account_migration.go).                                         *)
(*                                                                         *)
(* The managed Secret is a ledger.  Its annotations checkpoint the attempt *)
(* before every external mutation; the handler keeps a private copy of it  *)
(* (mem), read from an informer cache that may lag, and every write is     *)
(* guarded by the API server's resourceVersion check.  One reconcile runs  *)
(* at a time (one worker, leader election), one step per call that leaves  *)
(* the process, and the process may crash between any two of them.         *)
(***************************************************************************)
EXTENDS Naturals, FiniteSets

CONSTANTS
    MaxReq,        \* bound: recoveryRequestIDs a user submits, numbered 1, 2, ...
    MaxFaults,     \* bound: crashes, failed calls and outside interference
    Transient404,  \* a booting HA may answer 404 on /api/onboarding
    LedgerLoss     \* the managed Secret may be deleted by hand

ASSUME ConstantsAssumption ==
    /\ MaxReq \in Nat
    /\ MaxFaults \in Nat
    /\ Transient404 \in BOOLEAN
    /\ LedgerLoss \in BOOLEAN

VARIABLES
    specReq,     \* spec.bootstrap.operatorAccount.recoveryRequestID; 0 = empty
    latest,      \* the newest request ID any user has submitted
    secret,      \* the ledger Secret in the API server
    cache,       \* the informer's copy of it
    cacheFresh,  \* the informer has seen the newest version
    status,      \* status.bootstrap (operatorAccount and token fields)
    pc,          \* the next call of the running reconcile, or "Idle"
    mem,         \* the reconcile's own copy of the ledger
    memFresh,    \* mem carries the newest resourceVersion
    mode,        \* what the reconcile decided to do
    want,        \* the request ID it read from the spec
    who,         \* the dedicated identity it works on
    ha,          \* Home Assistant: owner (one from legacy mode?), dedicated users, tokens
    inputs,      \* the credentials people supply
    issued,      \* history: long-lived tokens created per request
    proven,      \* history: tokens HA confirmed as a dedicated administrator
    faults       \* how much of the fault budget is spent

operator == <<pc, mem, memFresh, mode, want, who>>
history == <<issued, proven>>
vars == <<specReq, latest, secret, cache, cacheFresh, status, pc, mem, memFresh,
          mode, want, who, ha, inputs, issued, proven, faults>>

-----------------------------------------------------------------------------
(* The ledger.                                                             *)

Requests == 0 .. MaxReq          \* 0 stands for the initial provisioning
NoToken == [user |-> 0, req |-> 0]
Token == [user : Nat, req : Requests]
Stages == {"None", "Provisioning", "Creating", "Issuing", "Recovering", "Verified"}

Ledger == [kind : {"absent", "foreign", "managed"}, stage : Stages, user : Nat,
           req : Requests, result : {"None", "Failed", "Succeeded"},
           legacy : BOOLEAN, onboarding : BOOLEAN, token : Token]

Absent == [kind |-> "absent", stage |-> "None", user |-> 0, req |-> 0,
           result |-> "None", legacy |-> FALSE, onboarding |-> FALSE,
           token |-> NoToken]
Foreign == [Absent EXCEPT !.kind = "foreign"]

HasToken(l) == l.token.user # 0

\* The identity a reconcile works on, as Home Assistant last described it.
Nobody == [id |-> 0, login |-> FALSE, admin |-> FALSE]

\* Status fields that outlive a reconcile: the projection of the ledger, whether
\* the account was ever reported Verified, and which Secret consumers read.
Blank == [verified |-> FALSE, user |-> 0, req |-> 0, api |-> "none"]

\* The Secret the first write of a provisioning reserves.
NewLedger == [Absent EXCEPT !.kind = "managed", !.stage = "Provisioning",
                            !.user = status.user, !.legacy = (status.api = "legacy")]

\* legacyMigrationSecretName: the recorded source, else the one status names.
MigrationSource(l) == l.legacy \/ status.api = "legacy"

(* What getAPIToken hands to every other controller: the legacy token until *)
(* a replacement was reported Verified, then only a Verified ledger.        *)
Migrating == status.api = "legacy" /\ ~status.verified
DedicatedServes == /\ secret.kind = "managed"
                   /\ secret.stage = "Verified"
                   /\ secret.user # 0
                   /\ HasToken(secret)
TokenServed == IF Migrating THEN inputs.legacy ELSE DedicatedServes

-----------------------------------------------------------------------------
(* Building blocks of the handler's steps.                                 *)

Spend == faults < MaxFaults /\ faults' = faults + 1

Goto(label) == /\ pc' = label
               /\ UNCHANGED <<mode, want, who>>

\* The reconcile returns; its local variables are gone.
Return == /\ pc' = "Idle"
          /\ mem' = Absent
          /\ memFresh' = FALSE
          /\ mode' = "none"
          /\ want' = 0
          /\ who' = Nobody

\* An external call fails before it takes effect: an ordinary error is reported
\* in the status, a ban (handleSelfBan) or an API error only ends the reconcile.
CallFails == /\ Spend
             /\ \/ Return
                \/ Goto("ReportFailed") /\ UNCHANGED <<mem, memFresh>>

\* r.Update / r.Create of the ledger.  The write fails on a stale copy; it may
\* also fail outright, or succeed with the answer lost.  After a failure inside
\* provisioning the unsaved copy is still projected into the status.
Write(new, next, onError) ==
    \/ /\ memFresh
       /\ secret' = new
       /\ cacheFresh' = FALSE
       /\ mem' = new
       /\ Goto(next)
       /\ UNCHANGED <<cache, memFresh, faults>>
    \/ /\ \/ ~memFresh /\ UNCHANGED <<secret, cacheFresh, faults>>
          \/ Spend /\ UNCHANGED <<secret, cacheFresh>>
          \/ Spend /\ memFresh /\ secret' = new /\ cacheFresh' = FALSE
       /\ IF onError = "Idle" THEN Return
          ELSE /\ Goto(onError)
               /\ mem' = new
               /\ memFresh' = FALSE
       /\ UNCHANGED cache

\* An external call is refused for good reason: reported, nothing changes.
Refused == Goto("ReportFailed") /\ UNCHANGED <<mem, memFresh, faults>>

\* Fields a step that only writes the ledger leaves alone.
LedgerStep == UNCHANGED <<specReq, latest, status, ha, inputs, history>>
\* Fields a step that only talks to Home Assistant leaves alone.
RemoteStep == UNCHANGED <<specReq, latest, secret, cache, cacheFresh, status, inputs>>

-----------------------------------------------------------------------------
(* The reconcile: reading the ledger and deciding.                          *)

\* Mutation of Accepted: the ownership check is skipped.
AcceptedUnchecked(l) == l.kind # "absent"

\* validateOperatorSecret: a Secret under the name counts only with the
\* operator's labels, owner reference and well-formed annotations.
Accepted(l) == l.kind = "managed"

\* Mutation of Observed: only the status is consulted.
ObservedInStatus == status.req

\* The request already consumed: the ledger's word, else the status projection.
Observed == IF Accepted(cache) THEN cache.req ELSE status.req
VerifiedBefore == status.verified \/ (Accepted(cache) /\ cache.stage = "Verified")
RecoveryRequested == specReq # 0 /\ specReq # Observed

\* Mutation of Spent: the Issuing checkpoint is forgotten.
SpentOnceVerified == VerifiedBefore \/ Observed # 0

\* Without a request, a ledger that may have issued a token is never run again.
Spent == VerifiedBefore \/ (Accepted(cache) /\ cache.stage = "Issuing") \/ Observed # 0

\* Where reconcileOperatorAccount goes after reading everything it reads.
Decision ==
    CASE cache.kind # "absent" /\ ~Accepted(cache) -> "ReportFailed"
      [] Accepted(cache) /\ ~RecoveryRequested /\ cache.stage = "Recovering" -> "ReportFailed"
      [] Accepted(cache) /\ ~RecoveryRequested /\ cache.stage # "Recovering" /\ HasToken(cache) ->
            "ObserveToken"
      [] ~RecoveryRequested /\ Spent /\ ~(Accepted(cache) /\ HasToken(cache)) -> "ReportFailed"
      [] OTHER -> CASE ~Accepted(cache) -> "ReserveLedger"
                    [] Accepted(cache) /\ RecoveryRequested -> "ConsumeRequest"
                    [] OTHER -> "Route"

\* reconcileOperatorAccount: everything up to the first call that leaves the
\* process.  The spec and status come from the HomeAssistant object, the ledger
\* from the Secret informer.
ReadLedger ==
    /\ pc = "Idle"
    /\ pc' = Decision
    /\ mode' = CASE Decision = "ReportFailed" -> "none"
                 [] Decision = "ObserveToken" -> "observe"
                 [] OTHER -> IF RecoveryRequested THEN "recovery" ELSE "initial"
    /\ mem' = IF Accepted(cache) THEN cache ELSE Absent
    /\ memFresh' = cacheFresh
    /\ want' = specReq
    /\ who' = Nobody
    /\ UNCHANGED <<specReq, latest, secret, cache, cacheFresh, status, ha,
                   inputs, history, faults>>

\* The read itself fails: reported without touching the projection.
ReadFails ==
    /\ pc = "Idle" /\ Spend
    /\ pc' = "ReportFailed" /\ mem' = Absent /\ memFresh' = FALSE
    /\ UNCHANGED <<mode, want, who, specReq, latest, secret, cache, cacheFresh,
                   status, ha, inputs, history>>

\* runOperatorProvisioning reserves the ledger before any external mutation.
\* Create fails if any Secret already has the name, whatever the cache said.
ReserveLedger ==
    /\ pc = "ReserveLedger"
    /\ \/ /\ secret.kind = "absent"
          /\ secret' = NewLedger /\ mem' = NewLedger /\ memFresh' = TRUE
          /\ cacheFresh' = FALSE
          /\ Goto(IF mode = "recovery" THEN "ConsumeRequest" ELSE "Route")
          /\ UNCHANGED faults
       \/ /\ secret.kind # "absent" /\ Return
          /\ UNCHANGED <<secret, cacheFresh, faults>>
       \/ /\ Spend /\ Return          \* refused, or created with the answer lost
          /\ \/ UNCHANGED <<secret, cacheFresh>>
             \/ secret.kind = "absent" /\ secret' = NewLedger /\ cacheFresh' = FALSE
    /\ UNCHANGED cache
    /\ LedgerStep

\* Mutation of Consumed: the ID is not saved.
NotConsumed(l, r) == [l EXCEPT !.result = "Failed", !.stage = "Recovering"]

\* What is left of a ledger once request r is consumed.
Consumed(l, r) == [l EXCEPT !.req = r, !.result = "Failed", !.stage = "Recovering"]

\* The request is consumed before the owner's credentials are even read, so a
\* failed or interrupted attempt cannot run again under the same ID.
ConsumeRequest ==
    /\ pc = "ConsumeRequest"
    /\ Write(Consumed(mem, want), "ReadOwnerCredentials", "Idle")
    /\ LedgerStep

\* Without a request: a recorded or projected legacy Secret means migration,
\* otherwise ask Home Assistant whether onboarding is still open.  One 404 on an
\* instance not yet seen fresh is taken for "already onboarded".
Route ==
    /\ pc = "Route"
    /\ IF MigrationSource(mem)
       THEN /\ pc' = IF mem.legacy THEN "AuthenticateLegacy" ELSE "MarkMigration"
            /\ mode' = "migrate"
            /\ UNCHANGED <<secret, cacheFresh, mem, memFresh, faults, cache, want, who>>
       ELSE \/ CallFails /\ UNCHANGED <<secret, cache, cacheFresh>>
            \/ /\ mem.onboarding /\ Goto("ReadOwnerCredentials")
               /\ UNCHANGED <<secret, cache, cacheFresh, mem, memFresh, faults>>
            \/ /\ ~mem.onboarding
               /\ \/ ha.onboarded /\ UNCHANGED faults
                  \/ ~ha.onboarded /\ Transient404 /\ Spend
               /\ pc' = "MarkMigration" /\ mode' = "migrate"
               /\ UNCHANGED <<secret, cache, cacheFresh, mem, memFresh, want, who>>
            \/ /\ ~mem.onboarding /\ ~ha.onboarded
               /\ Write([mem EXCEPT !.onboarding = TRUE], "ReadOwnerCredentials", "Idle")
    /\ LedgerStep

\* migrateOperatorAccount, first write: remember the source across status loss.
MarkMigration ==
    /\ pc = "MarkMigration"
    /\ Write([mem EXCEPT !.legacy = TRUE], "AuthenticateLegacy", "Idle")
    /\ LedgerStep

\* migrateOperatorAccount, the rest: only a working administrative legacy token
\* authorises migration; there is no fall-back to the owner's password.
AuthenticateLegacy ==
    /\ pc = "AuthenticateLegacy"
    /\ \/ inputs.legacy /\ Goto("FindOperatorUser") /\ UNCHANGED <<mem, memFresh, faults>>
       \/ ~inputs.legacy /\ Refused
       \/ CallFails
    /\ RemoteStep /\ UNCHANGED <<ha, history>>

\* validateBootstrapConfig and getBootstrapCredentials.
ReadOwnerCredentials ==
    /\ pc = "ReadOwnerCredentials"
    /\ Goto(IF ~inputs.owner THEN "ReportFailed"
            ELSE IF mode = "recovery" THEN "OwnerLogin" ELSE "PerformBootstrap")
    /\ RemoteStep /\ UNCHANGED <<mem, memFresh, ha, history, faults>>

\* PerformBootstrap creates the owner, or finds onboarding done.  The answer may
\* be lost after the owner was created.
PerformBootstrap ==
    /\ pc = "PerformBootstrap"
    /\ \/ /\ ha' = [ha EXCEPT !.onboarded = TRUE]
          /\ Goto("OwnerLogin") /\ UNCHANGED <<mem, memFresh, faults>>
       \/ /\ ha' = [ha EXCEPT !.onboarded = TRUE] /\ CallFails
       \/ CallFails /\ UNCHANGED ha
    /\ RemoteStep /\ UNCHANGED history

\* LoginWithCredentials as the owner, and the core configuration resumed with
\* that session.
OwnerLogin ==
    /\ pc = "OwnerLogin"
    /\ \/ ha.onboarded /\ Goto("FindOperatorUser") /\ UNCHANGED <<mem, memFresh, faults>>
       \/ ~ha.onboarded /\ Refused
       \/ CallFails
    /\ RemoteStep /\ UNCHANGED <<ha, history>>

-----------------------------------------------------------------------------
(* ensureOperatorUser: find, adopt or create the dedicated identity.        *)

\* Every user the operator creates carries the name derived from the resource's
\* UID, so an unrecorded identity is looked up by name, a recorded one by ID.
Matching == {u \in ha.users : mem.user = 0 \/ u = mem.user}

\* Mutation of MayCreate: the saved creation intent is ignored.
MayCreateBlindly == Matching = {} /\ mem.user = 0

\* A user is created only if none was and no earlier attempt may still create
\* one; a found one is used if it is unique and recorded, or expected.
MayCreate == Matching = {} /\ mem.user = 0 /\ mem.stage # "Creating"
MayUse(u) == Matching = {u} /\ (mem.user # 0 \/ mem.stage \in {"Creating", "Recovering"})

FindOperatorUser ==
    /\ pc = "FindOperatorUser"
    /\ \/ MayCreate /\ Goto("MarkCreating") /\ UNCHANGED <<mem, memFresh, faults>>
       \/ ~MayCreate /\ (\A u \in Matching : ~MayUse(u)) /\ Refused
       \/ \E u \in Matching :
          /\ MayUse(u)
          /\ who' = [id |-> u, login |-> u \in ha.logins, admin |-> u \in ha.admins]
          /\ pc' = "RecordUser"
          /\ UNCHANGED <<mode, want, mem, memFresh, faults>>
       \/ CallFails
    /\ RemoteStep /\ UNCHANGED <<ha, history>>

\* Creation intent is saved before the user is created.
MarkCreating ==
    /\ pc = "MarkCreating"
    /\ Write([mem EXCEPT !.stage = "Creating"], "CreateAuthUser", "ReportFailed")
    /\ LedgerStep

NewUser == ha.made + 1
WithUser(h, u) == [h EXCEPT !.made = u, !.users = @ \cup {u}, !.admins = @ \cup {u}]

\* The command may fail, be carried out with its answer lost, or be carried out
\* after the operator stopped waiting.
CreateAuthUser ==
    /\ pc = "CreateAuthUser"
    /\ \/ /\ ha' = WithUser(ha, NewUser)
          /\ who' = [id |-> NewUser, login |-> FALSE, admin |-> TRUE]
          /\ pc' = "RecordUser"
          /\ UNCHANGED <<mode, want, mem, memFresh, faults>>
       \/ ha' = WithUser(ha, NewUser) /\ CallFails
       \/ ha' = [ha EXCEPT !.late = @ + 1] /\ CallFails
       \/ CallFails /\ UNCHANGED ha
    /\ RemoteStep /\ UNCHANGED history

RecordUser ==
    /\ pc = "RecordUser"
    /\ Write([mem EXCEPT !.user = who.id], "EnsureAdmin", "ReportFailed")
    /\ LedgerStep

EnsureAdmin ==
    /\ pc = "EnsureAdmin"
    /\ \/ /\ who.admin /\ Goto("MarkIssuing")
          /\ UNCHANGED <<ha, mem, memFresh, faults>>
       \/ /\ ~who.admin /\ who.id \in ha.users
          /\ ha' = [ha EXCEPT !.admins = @ \cup {who.id}]
          /\ Goto("MarkIssuing") /\ UNCHANGED <<mem, memFresh, faults>>
       \/ /\ ~who.admin /\ who.id \notin ha.users
          /\ Refused /\ UNCHANGED ha
       \/ ~who.admin /\ CallFails /\ UNCHANGED ha
    /\ RemoteStep /\ UNCHANGED history

-----------------------------------------------------------------------------
(* issueOperatorCredential: a temporary password, a token, its check.       *)

MarkIssuing ==
    /\ pc = "MarkIssuing"
    /\ Write([mem EXCEPT !.stage = "Issuing"], "SetPassword", "ReportFailed")
    /\ LedgerStep

\* Mutation of MaySetPassword: a recovery may not reset it either.
MayOnlyAttach == ~who.login

\* A user that already has a local login belongs to an interrupted attempt:
\* only an explicit recovery may reset its password.
MaySetPassword == who.login => mode = "recovery"
SetPassword ==
    /\ pc = "SetPassword"
    /\ \/ /\ MaySetPassword /\ who.id \in ha.users
          /\ ha' = [ha EXCEPT !.logins = @ \cup {who.id}]
          /\ \/ Goto("CreateToken") /\ UNCHANGED <<mem, memFresh, faults>>
             \/ CallFails
       \/ ~(MaySetPassword /\ who.id \in ha.users) /\ Refused /\ UNCHANGED ha
       \/ MaySetPassword /\ CallFails /\ UNCHANGED ha
    /\ RemoteStep /\ UNCHANGED history

\* Login as the dedicated user and CreateLongLivedToken, labelled with the
\* request in the ledger.
NewToken == [user |-> who.id, req |-> mem.req]
CreateToken ==
    /\ pc = "CreateToken"
    /\ \/ /\ who.id \in ha.users
          /\ ha' = [ha EXCEPT !.live = @ \cup {NewToken}]
          /\ issued' = [issued EXCEPT ![mem.req] = @ + 1]
          /\ \/ Goto("StoreToken") /\ UNCHANGED <<mem, memFresh, faults>>
             \/ CallFails
       \/ who.id \notin ha.users /\ Refused /\ UNCHANGED <<ha, issued>>
       \/ CallFails /\ UNCHANGED <<ha, issued>>
    /\ RemoteStep /\ UNCHANGED proven

\* Mutation of Stored: stored as verified, then checked.
StoredVerified(l, t) == [l EXCEPT !.token = t, !.stage = "Verified"]

\* The token is stored, still unverified, before it is verified.
Stored(l, t) == [l EXCEPT !.token = t]
StoreToken ==
    /\ pc = "StoreToken"
    /\ Write(Stored(mem, NewToken), "VerifyToken", "ReportFailed")
    /\ LedgerStep

\* The principal behind token t, as CurrentUser reports it: the recorded
\* identity with the administrator role.
Confirmed(t, id) == t \in ha.live /\ t.user \in ha.users /\ t.user = id /\ t.user \in ha.admins

VerifyToken ==
    /\ pc = "VerifyToken"
    /\ \/ /\ Confirmed(mem.token, who.id)
          /\ proven' = proven \cup {mem.token}
          /\ Goto("CommitVerified") /\ UNCHANGED <<mem, memFresh, faults>>
       \/ /\ ~Confirmed(mem.token, who.id)
          /\ Refused /\ UNCHANGED proven
       \/ CallFails /\ UNCHANGED proven
    /\ RemoteStep /\ UNCHANGED <<ha, issued>>

CommitVerified ==
    /\ pc = "CommitVerified"
    /\ Write([mem EXCEPT !.stage = "Verified",
                         !.result = IF mode = "recovery" THEN "Succeeded" ELSE @],
             "ReportVerified", "ReportFailed")
    /\ LedgerStep

-----------------------------------------------------------------------------
(* observeOperatorToken: a stored token is checked, never replaced.         *)

ObserveToken ==
    /\ pc = "ObserveToken"
    /\ \/ /\ Confirmed(mem.token, mem.user)
          /\ proven' = proven \cup {mem.token}
          /\ Goto(IF mem.stage = "Verified" THEN "ReportVerified" ELSE "PromoteToken")
          /\ UNCHANGED <<mem, memFresh, faults>>
       \/ /\ ~Confirmed(mem.token, mem.user)
          /\ Refused /\ UNCHANGED proven
       \/ CallFails /\ UNCHANGED proven
    /\ RemoteStep /\ UNCHANGED <<ha, issued>>

PromoteToken ==
    /\ pc = "PromoteToken"
    /\ Write([mem EXCEPT !.stage = "Verified",
                         !.result = IF mem.req # 0 THEN "Succeeded" ELSE @],
             "ReportVerified", "Idle")
    /\ LedgerStep

\* Mutations of Projected: the consumers are moved whatever came of it; or the
\* request is reported on success only.
ProjectedEagerly(st, l, verified) ==
    [verified |-> TRUE, user |-> l.user, req |-> l.req, api |-> "dedicated"]
ProjectedOnSuccess(st, l, verified) ==
    IF verified THEN ProjectedEagerly(st, l, verified) ELSE st

\* operatorAccountStatus: project the ledger, if there is one, and move the
\* consumers to it once it is verified; a failed patch ends the reconcile.
Projected(st, l, verified) ==
    [verified |-> st.verified \/ verified,
     user |-> IF l.kind = "managed" THEN l.user ELSE st.user,
     req |-> IF l.kind = "managed" THEN l.req ELSE st.req,
     api |-> IF verified THEN "dedicated" ELSE st.api]

ReportStatus ==
    /\ pc \in {"ReportVerified", "ReportFailed"}
    /\ \/ status' = Projected(status, mem, pc = "ReportVerified") /\ UNCHANGED faults
       \/ Spend /\ UNCHANGED status
    /\ Return
    /\ UNCHANGED <<specReq, latest, secret, cache, cacheFresh, ha, inputs, history>>

-----------------------------------------------------------------------------
(* What happens around the operator.                                        *)

\* People submit a recovery request under a new ID, withdraw the field, or
\* reapply the ID they submitted last (a GitOps sync does).
SubmitRequest ==
    /\ latest < MaxReq
    /\ latest' = latest + 1
    /\ specReq' = latest'
    /\ UNCHANGED <<secret, cache, cacheFresh, status, operator, ha, inputs, history, faults>>

WithdrawRequest ==
    /\ specReq # 0
    /\ specReq' = 0
    /\ UNCHANGED <<latest, secret, cache, cacheFresh, status, operator, ha, inputs, history, faults>>

ResubmitRequest ==
    /\ specReq = 0 /\ latest # 0
    /\ specReq' = latest
    /\ UNCHANGED <<latest, secret, cache, cacheFresh, status, operator, ha, inputs, history, faults>>

\* The informer catches up with the API server.
InformerSync ==
    /\ ~cacheFresh
    /\ cache' = secret
    /\ cacheFresh' = TRUE
    /\ UNCHANGED <<specReq, latest, secret, status, operator, ha, inputs, history, faults>>

\* The operator's process dies; its successor starts from a list that may lag.
Crash ==
    /\ pc # "Idle" /\ Spend
    /\ Return
    /\ UNCHANGED <<specReq, latest, secret, cache, cacheFresh, status, ha, inputs, history>>

\* The status is lost, as in a backup restore of the resource; or the ledger
\* itself is deleted by hand once the status and the operator's reads have caught
\* up with it.
LoseStatus ==
    /\ secret.kind = "managed" /\ status # Blank /\ Spend
    /\ status' = Blank
    /\ UNCHANGED <<specReq, latest, secret, cache, cacheFresh, operator, ha, inputs, history>>

LoseSecret ==
    /\ LedgerLoss /\ secret.kind = "managed" /\ Spend
    /\ status.user = secret.user /\ status.req = secret.req
    /\ cacheFresh /\ (pc = "Idle" \/ memFresh)
    /\ secret' = Absent
    /\ cacheFresh' = FALSE /\ memFresh' = FALSE
    /\ UNCHANGED <<specReq, latest, cache, status, pc, mem, mode, want, who, ha, inputs, history>>

\* Someone creates an unrelated Secret under the ledger's name.
PlaceForeign ==
    /\ secret.kind = "absent" /\ Spend
    /\ secret' = Foreign
    /\ cacheFresh' = FALSE /\ memFresh' = FALSE
    /\ UNCHANGED <<specReq, latest, cache, status, pc, mem, mode, want, who, ha, inputs, history>>

\* Home Assistant's administrators revoke tokens, remove or demote the user.
AdminInterferes ==
    /\ Spend
    /\ \/ \E t \in ha.live : ha' = [ha EXCEPT !.live = @ \ {t}]
       \/ \E u \in ha.users :
              ha' = [ha EXCEPT !.users = @ \ {u}, !.admins = @ \ {u}, !.logins = @ \ {u},
                               !.live = {t \in @ : t.user # u}]
       \/ \E u \in ha.admins : ha' = [ha EXCEPT !.admins = @ \ {u}]
    /\ UNCHANGED <<specReq, latest, secret, cache, cacheFresh, status, operator, inputs, history>>

\* A creation whose answer the operator gave up on is carried out after all.
LateCreate ==
    /\ ha.late > 0
    /\ ha' = [WithUser(ha, NewUser) EXCEPT !.late = @ - 1]
    /\ UNCHANGED <<specReq, latest, secret, cache, cacheFresh, status, operator, inputs, history, faults>>

\* The owner's password Secret or the legacy token goes missing or wrong, and
\* is put right.
DamageInputs ==
    /\ Spend
    /\ \E f \in {"owner", "legacy"} : inputs[f] /\ inputs' = [inputs EXCEPT ![f] = FALSE]
    /\ UNCHANGED <<specReq, latest, secret, cache, cacheFresh, status, operator, ha, history>>

RepairInputs ==
    /\ inputs # [owner |-> TRUE, legacy |-> ha.legacy]
    /\ inputs' = [owner |-> TRUE, legacy |-> ha.legacy]
    /\ UNCHANGED <<specReq, latest, secret, cache, cacheFresh, status, operator, ha, history, faults>>

-----------------------------------------------------------------------------
Init ==
    /\ specReq = 0 /\ latest = 0
    /\ secret = Absent /\ cache = Absent /\ cacheFresh = TRUE
    /\ pc = "Idle" /\ mem = Absent /\ memFresh = FALSE
    /\ mode = "none" /\ want = 0 /\ who = Nobody
    /\ \E legacy \in BOOLEAN :
          /\ status = [Blank EXCEPT !.api = IF legacy THEN "legacy" ELSE "none"]
          /\ ha = [legacy |-> legacy, onboarded |-> legacy, made |-> 0, late |-> 0,
                   users |-> {}, logins |-> {}, admins |-> {}, live |-> {}]
          /\ inputs = [owner |-> TRUE, legacy |-> legacy]
    /\ issued = [r \in Requests |-> 0] /\ proven = {}
    /\ faults = 0

\* Everything the operator itself does.
Operator ==
    \/ ReadLedger \/ ReadFails \/ ReserveLedger \/ ConsumeRequest \/ Route
    \/ MarkMigration \/ AuthenticateLegacy
    \/ ReadOwnerCredentials \/ PerformBootstrap \/ OwnerLogin
    \/ FindOperatorUser \/ MarkCreating \/ CreateAuthUser \/ RecordUser \/ EnsureAdmin
    \/ MarkIssuing \/ SetPassword \/ CreateToken \/ StoreToken \/ VerifyToken
    \/ CommitVerified \/ ObserveToken \/ PromoteToken \/ ReportStatus

Environment ==
    \/ SubmitRequest \/ WithdrawRequest \/ ResubmitRequest
    \/ InformerSync \/ Crash \/ LoseStatus \/ LoseSecret \/ PlaceForeign
    \/ AdminInterferes \/ LateCreate \/ DamageInputs \/ RepairInputs

Next == Operator \/ Environment

Spec == Init /\ [][Next]_vars

\* Reconciles are requeued for as long as the resource exists (every return
\* requeues, fails with a back-off retry, or ends the two-minute health cycle),
\* and watches deliver what was written.  People owe nothing.
Fairness == WF_vars(Operator) /\ WF_vars(InformerSync)
FairSpec == Spec /\ Fairness
-----------------------------------------------------------------------------
(* Correctness.                                                             *)

Labels == {"Idle", "ReserveLedger", "ConsumeRequest", "Route", "MarkMigration",
           "AuthenticateLegacy", "ReadOwnerCredentials", "PerformBootstrap",
           "OwnerLogin", "FindOperatorUser", "MarkCreating", "CreateAuthUser",
           "RecordUser", "EnsureAdmin", "MarkIssuing", "SetPassword",
           "CreateToken", "StoreToken", "VerifyToken", "CommitVerified",
           "ObserveToken", "PromoteToken", "ReportVerified", "ReportFailed"}

\* Every variable stays in its range.
TypeOK ==
    /\ specReq \in Requests /\ latest \in Requests
    /\ secret \in Ledger /\ cache \in Ledger /\ cacheFresh \in BOOLEAN
    /\ status \in [verified : BOOLEAN, user : Nat, req : Requests,
                   api : {"none", "legacy", "dedicated"}]
    /\ pc \in Labels
    /\ mem \in Ledger /\ memFresh \in BOOLEAN
    /\ mode \in {"none", "initial", "migrate", "recovery", "observe"}
    /\ want \in Requests
    /\ who \in [id : Nat, login : BOOLEAN, admin : BOOLEAN]
    /\ ha \in [legacy : BOOLEAN, onboarded : BOOLEAN, made : Nat, late : Nat, users : SUBSET Nat,
               logins : SUBSET Nat, admins : SUBSET Nat, live : SUBSET Token]
    /\ inputs \in [owner : BOOLEAN, legacy : BOOLEAN]
    /\ issued \in [Requests -> Nat] /\ proven \in SUBSET Token
    /\ faults \in 0 .. MaxFaults

\* Issuing a long-lived token cannot be undone from here (it lives ten years),
\* so each request, and the initial provisioning, issues at most one, whatever
\* crashes, lost answers, stale reads and lost statuses come between
\* ("a crash cannot silently issue another long-lived token").
AtMostOneTokenPerRequest == \A r \in Requests : issued[r] <= 1

\* The dedicated identity is created under a deterministic name at most once per
\* attempt: a retry looks for it and never creates blindly, not even when the
\* first command is carried out after the operator gave up on it.
OneCreatePerAttempt == ha.made + ha.late <= 1 + latest

\* A token other controllers are handed was confirmed, after it was stored, to
\* belong to the recorded user in the administrator role.
ServedTokenProven ==
    DedicatedServes => secret.token \in proven /\ secret.token.user = secret.user

\* Under such a ledger a token was verified, may have been issued, or was asked for.
Retired(l) == l.kind = "managed" /\ (l.stage \in {"Issuing", "Verified"} \/ l.req # 0)

\* The owner's password is retired once a token was verified or may have been
\* issued, unless a person asks for a recovery.  A reconcile that starts from an
\* outdated copy of the ledger does log in with it once more; but then it finds its
\* writes refused before it can make a user, reset a password or issue a token: all
\* it may do is to complete the onboarding of an instance without owner, or to send
\* the requested core configuration again.
UsesOwner == {"ReadOwnerCredentials", "PerformBootstrap", "OwnerLogin"}
OwnerRetired ==
    [][mode = "initial" /\ Retired(secret) =>
          /\ pc \in UsesOwner => ~memFresh
          /\ ~memFresh /\ pc' # pc =>
                UNCHANGED <<secret, issued>> /\ ha' \in {ha, [ha EXCEPT !.onboarded = TRUE]}]_vars

\* Until a person asks for a recovery, moving consumers from the legacy token to
\* the dedicated one leaves no moment in which they have neither: the status
\* names the dedicated Secret only while its ledger is verified.
NoServiceGap == status.api # "none" /\ secret.req = 0 /\ inputs.legacy => TokenServed

\* A Secret the operator does not own is never overwritten.
ForeignNeverOverwritten == [][secret.kind = "foreign" => secret' = secret]_vars

\* The ledger keeps the abstract promise of RequestLedger: requests only move
\* on, and a token is issued for the current request only, once.
Promise == INSTANCE RequestLedger WITH current <- secret.req, tokens <- issued
KeepsPromise == Promise!Spec

\* Every submitted request is answered in the status, unless it is changed
\* first or the ledger's name is taken.
RequestsAreAnswered ==
    \A r \in 1 .. MaxReq :
        specReq = r ~> (status.req = r \/ specReq # r \/ secret.kind = "foreign")

\* A new request repairs any earlier mishap: with the owner's password in place,
\* the identity unambiguous and no more interference, it ends in a verified
\* token of its own.
Repairable(r) ==
    /\ pc = "Idle" /\ specReq = r /\ faults = MaxFaults
    /\ secret.kind = "managed" /\ secret.req < r
    /\ ha.onboarded /\ inputs.owner /\ ha.late = 0
    /\ \A u, v \in ha.users : u = v
    /\ secret.user = 0 \/ secret.user \in ha.users
FreshRequestRepairs ==
    \A r \in 1 .. MaxReq :
        Repairable(r) ~> (specReq # r \/ (secret.stage = "Verified" /\ secret.token.req = r))
=============================================================================
