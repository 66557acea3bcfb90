# A TLA+ model of the Home Assistant operator

The operator is a Kubernetes controller manager. It runs Home Assistant instances from
custom resources and configures them through Home Assistant's REST and WebSocket APIs.
Each controller keeps what it knows in the status of its resources, in annotations, and in
Secrets and ConfigMaps, and each reconcile starts from cached copies of these that may lag.
Most of what can go wrong is therefore not in one function but between two reconciles: a
crash after a remote call and before the write that remembers it, an update from a copy
that is not current, a remote answer that is lost, an instance that is still booting.
These modules model the controllers at that level.

Paths are relative to the repository; `internal/controller/` is left out where it is clear.

## Running it

    tlc -workers 2 -config OperatorAccount.cfg OperatorAccount.tla
    tlapm OperatorAccountProofs.tla

One `.cfg` file belongs to one run. `MCCommunityRepository` holds the archives its run uses, and the
check of the layout rules that needs no state.

## The system: inventory

| Component | State | Operations | What is hard | What makes it correct |
|---|---|---|---|---|
| Operator account (`operator_account.go`, `operator_account_migration.go`, `helpers.go`) | ledger in the operator Secret (stage, user, request, result, token); projection in `status.operatorAccount` | provision, recover on request, migrate from the legacy token, observe, report | every remote call can be lost, late or repeated; the status can be older than the ledger | at most one token and one user for a request; only proven tokens served; requests are answered |
| Legacy bootstrap (`bootstrap_controller.go`, `haclient/client.go`) | `status.bootstrap`, API token Secret; the instance's onboarding | onboard, confirm that onboarding is done, log in, issue a token | a booting instance looks onboarded; failed logins lead to a ban | bounded logins; Completed means usable |
| IP ban recovery (`bootstrap_controller.go`, init container in `homeassistant_controller.go`) | four status fields: window start, count, last restart, condition | restart the pod, count, give up, reset | the deletion and its record are two steps; patches from old copies | budget, cooldown, end or report |
| Integration controller | entry ID, hash and condition in the status; entries in Home Assistant | config flow with uploads, adopt, reconfigure, delete | an entry exists before the status knows it | one entry per domain; deletion removes it |
| Automation, scene and script controllers, webhooks | annotation of the last ID, hash, conditions; entities in Home Assistant | push, rename, reload, delete; admission | the annotation is patched after the push; the collision check reads a cache | no orphans; last content wins |
| Configuration controller | generated ConfigMap with content and hash annotation; hash in the status | write, decide (restart or hot reload), mark, restore | a retry no longer sees the difference | changes that need a restart are announced |
| HomeAssistant controller | StatefulSet, Service, PVC, NetworkPolicy, status | build, compare, update with retries; take over the ConfigMap's hash | shares the pod template with the Secrets controller; debounce | no lost updates; rollouts end |
| Secrets controller | generated Secret, template annotation | generate, annotate | the annotation's failure is only logged | secrets reach the pod |
| HTTP delivery (`http_config.go`, `http_config_fields.go`) | a condition; Home Assistant's stable and pending http configuration; the section of the file | probe, strip or keep the section, send, confirm, judge | two channels for one section; what is pending is reverted after five minutes, and others may confirm or replace it | one channel delivers; nobody else's change is confirmed; the wanted configuration is reached |
| Floors, labels, areas | registry IDs in the status; entries with unique names in Home Assistant | look up references, adopt, create, update, recreate, delete | an entry exists before the status knows it; three workers beside each other; references by name | no second entry; references resolve in the end |
| Community repositories | phase, target and version in the status; one ConfigMap of all repositories of an instance; hash in the pod template; files and notes on the pod's volume | validate, list, restart or leave it to the sidecar, confirm, release | one shared target; old pods and old files; the Go validation and the Python scripts must agree | one owner; Installed means in place; nothing left behind; deletions end |
| Dashboards | dashboard ID and hash in the status; dashboards by path in Home Assistant | create, update, compare, save, delete | the ID comes from the path; a dashboard of somebody else may have it | others' dashboards kept; the last content wins |
| Backups | schedule in Home Assistant | write the schedule | - | *later* |
| Exposure, TLS, webhooks of HomeAssistant and HomeAssistantConfiguration, manager, metrics, generated code | none of their own | create or check | - | left out |

How they interact: the account or the bootstrap produces the token which all the controllers
that call Home Assistant read through `getAPIToken`; ban recovery runs inside the same
reconcile when a call is refused with 403; the configuration controller announces a restart
in an annotation of its ConfigMap, the HomeAssistant controller copies it into the pod
template, and the Secrets controller writes a second annotation into the same template. The
community repositories share a ConfigMap, which the HomeAssistant controller hashes into that
template and the scripts in the pod read. Areas refer to floors and labels by name, through
Home Assistant's registries only.

## Modules

| Module | Models | State and code |
|---|---|---|
| `RequestLedger` | what a recovery request promises, as an abstract specification | the last request consumed, tokens issued for each |
| `OperatorAccount` | the whole reconcile of the operator account | `secret`/`cache` are the Secret and its informer copy, `mem` the copy the reconcile works on, `status` the projection, `ha` Home Assistant's users and tokens; one action per remote call or write |
| `BanRecovery` | `handleSelfBan`, `resetBanRecovery` | `status`/`view` are the fields and the copy a reconcile has; ages stand for timestamps |
| `LegacyBootstrap` | `reconcileBootstrap` with its error paths, `PerformBootstrap` | `phase`, `owner`, `finished` are Home Assistant's; `cache` the informer's copy of the status; `mine` is the status of the reconcile, which begins as that copy |
| `Integration` | the integration controller's `Reconcile` | `cr`/`cached` are the resources and the cache; `entries` Home Assistant's; `mine` the reconcile's copy, `valid` whether its resource version still is current |
| `EntityPush` | the three entity controllers, which differ in few lines (`kind`), and the admission checks | as in `Integration`; `entities` by ID |
| `HttpConfig` | the http configuration: the slots Home Assistant keeps, the choice between file and API, delivery and verdict | `stable`/`pending` are the slots, `supported` whether there is an API; operators for the reconcile's parts |
| `ConfigReload` | the configuration controller: generated ConfigMap, `performConfigReload`, `updateConfigMapHashAnnotation`; composes `HttpConfig` (the same reconcile probes, writes, announces and delivers) | `conf`/`confSeen`, `cm`/`cmSeen` are objects and caches; `old` is the file the reconcile remembers from before its write, `probe` what it has seen of the slots |
| `Registry` | the floor, label and area controllers | `entries` are Home Assistant's registries; `w[k]` the worker of a kind with the copy and the lookups it has made; the steps are written once for a kind and composed into nine actions |
| `RepositoryLayout` | archives and their limits, `ValidateAndResolve`, and what the scripts accept; pure operators | an archive is a set of members |
| `CommunityRepository` | the community repository controller with the ConfigMap, the pod template, the pod, the init container and the sidecar; uses `RepositoryLayout` for what a ref turns out to be | `cm`/`cmSeen`, `template`, `pod`; `disk` is what is in place, `book` what the scripts note of it |
| `MCCommunityRepository` | refs, archives and bounds for TLC; `ValidatedIsPlaceable` | |
| `Dashboard` | the dashboard controller | `boards` are Home Assistant's; `w` the worker |
| `PodTemplate` | `reconcileStatefulSet` with `syncConfigHashFromConfigMap`, and the Secrets controller | `sts`/`stsSeen`; `recent` is the debounce window |
| `OperatorAccountProofs`, `LegacyBootstrapProofs`, `BanRecoveryProofs`, `IntegrationProofs`, `RegistryProofs` | proofs about the module of that name | |
| `CommunityRepositoryProofs` | proofs about `MCCommunityRepository` and what it extends | |
| `ConfigurationProofs` | proofs about `ConfigReload` with `HttpConfig`, and about `PodTemplate` | `Pod` is an instance of `PodTemplate` with bounds of its own |
| `PushProofs` | proofs about `EntityPush`, and about `Dashboard` | `Dash` is an instance of `Dashboard` with resources and bounds of its own |

`RequestLedger` is the abstract specification of `OperatorAccount`: the property
`KeepsPromise` maps the ledger's request and the tokens Home Assistant issued onto it.

Conventions: `pc` names the next step of the one worker a controller has
(`MaxConcurrentReconciles` is the default of 1). A step is what happens up to and including
one call that others can see. `Spend` takes one of the `MaxFaults` faults, which are
the failed calls, crashes, lost answers and meddlers of a behaviour. `Fresh`-flags say
that a cached copy is current; an update from a copy that is not is refused, as the API
server does, and costs no fault. An operator commented *Mutation of X* is a plausible
mistake in X, kept to show that a property notices it.

## Runs

| Run | Specification and bounds | Checks |
|---|---|---|
| `account_safety` | `Spec`; 2 requests, 3 faults, a 404 while booting; 3.4 M states | one token per request, one user per attempt, only proven tokens served, the owner's password without effect once it is retired, no gap while migrating, refinement of `RequestLedger` |
| `account_answers` | `FairSpec`; 1 request, 3 faults, the Secret may be lost or foreign; 0.96 M states | foreign Secrets untouched, requests answered, a fresh request repairs |
| `ban_recovery` | `FairSpec`; limit 3, window 6, cooldown 1, 3 faults; 1.22 M states | window budget, giving up only when exhausted, bans end or are reported |
| `bootstrap` | `FairSpec`; 3 retries, confirmation after 2, 4 faults; 0.80 M states | refused logins bounded (all but those that are answered with a form), Completed means usable, completion with the onboarding finished |
| `integration` | `FairSpec`; 2 resources of one domain with one fault or 2 edits, or one with a file, outages and 3 faults; 6 entries; 0.74 M states | one entry, deletion, hash, uploads, convergence |
| `push_life` | `FairSpec`; 1 resource, 2 IDs, outages, 3 edits, the second switching an automation off, 1 fault; 0.73 M states | renames; convergence with the reload, the switch and the deletion |
| `config_reload` | `FairSpec`; all strategies with 2 edits, or the http section with 1 edit; 1 fault; 1.17 M states | restarts announced, content delivered, http configuration reached, only the operator's own confirmed |
| `pod_template` | `FairSpec`; 4 edits, 2 faults; 0.39 M states | no lost update, secrets and specification reach the pod, rollouts end |
| `registry` | `FairSpec`; an area with a floor or a label, 2 names, 1 edit, 1 fault; 0.58 M states | nothing left behind, convergence |
| `community` | `FairSpec`; 2 repositories, 2 targets and one that the script refuses, 3 refs, 2 events for integrations and 1 for themes and for Python scripts; 0.51 M states | one owner, Installed means in place, nothing left behind, convergence; validation against placement over 2,510 archives of up to 6 members |
| `dashboard` | `FairSpec`; 2 resources, 1 path and the default dashboard, 1 edit, 1 fault; 0.51 M states | others' dashboards kept, convergence |
| `pod_restart` | 2 edits, no fault | *violated*: the configuration's hash does not reach the template |

Why the bounds are enough. Two requests let a recovery follow a provisioning and another
follow the recovery; three faults are a lost answer, a crash on its retry and a meddler. A
ban window of six ticks holds the three restarts with their cooldowns and a rest, so that it
both fills up and expires. Two resources suffice for one to interfere with another; the
integration run needs entries for both and some of a user. Three edits of a push are a
rename, one back and a change of the content; two of a configuration are one during
its failed reconcile and one after. Two values of the critical part and two of the rest
(`Bodies`) let a change be critical or not; the sections of http are one for each way the
code treats them. Four edits of the template are one of each
kind and a return. Two names let a registry entry be renamed, and collide; an area together
with its floor, or with its label, has every reference there is. Two repositories with two
targets can want the same one, change to it, and release it while the other waits; each outcome of a
validation occurs in one of the three categories. Two
dashboards of one path, or one that is the default, are all the collisions there are; one
fault is the lost answer, and one edit the deletion or change before or after it. The two
kinds of behaviours of `integration` and `config_reload`, and the three categories of
`community`, are chosen in the initial state: they have separate bounds, because the product
of all of them tells no more.

The type invariants (`TypeOK`) are in no run: each of them is a theorem.

Deadlock is checked for the account, ban and bootstrap runs. The other runs allow it: when
all edits are made and the resource is gone, or everything has converged with nothing left
to observe, the model has no step.

### Fairness

- An operator step that is enabled is taken (`WF`): the worker goroutine runs.
- A reconcile starts again and again (`SF` on a start from current caches): failures requeue
  with a delay, changes make events, and the manager resyncs; and the informers catch up
  in between. Nothing is assumed of a reconcile that works on an outdated copy. In `Registry`
  and `Dashboard` the queue is in the model, and the resync, which nothing in the manager's
  options switches off (every ten hours by default), is what repairs drift (`SF`).
- Informers catch up (`WF` on the observe actions), pods boot and are replaced, time passes,
  init containers and sidecars are started again. Whether Home Assistant becomes ready with
  what the scripts installed (`Ready` of `CommunityRepository`) is not assumed.
- No fairness for users, faults, crashes, outages or meddlers. Faults are bounded, which says
  that in the end a call succeeds; outages are not, where `Outages` is TRUE, and
  a property that needs Home Assistant says so.

## Theorems

TLC checks instances; these hold for every value of the constants. Every safety property of a
passing run is a theorem, and so is the type invariant of every module that has a state. An
invariant is seldom inductive as it stands; each proof has an `IInv` (or a named part of one) that
adds what the code relies on without saying so. Those conjuncts are what a change of the
code is likely to break, so they are listed here.

### `OperatorAccountProofs`

`TypeCorrect`, `OneTokenTheorem` (at most one long-lived token for a request, and for
the initial provisioning, even when the Secret may be deleted), `PromiseTheorem` (if it is not
deleted, the account implements `RequestLedger`), `ForeignTheorem`, `ServedTokenTheorem`,
`OwnerRetiredTheorem`, `OneCreateTheorem`, `NoGapTheorem`. `StepShape` puts each step in one of a few
shapes (a call, a save of the ledger, a read, a report, ...), and the invariant is built in
layers, each kept by every shape because of the earlier ones:

- `Copies`: a copy with the newest version is the Secret, and the handler holds a ledger
  wherever the code relies on one;
- `Ordered`: no copy knows a request of the future, and what copies remember of a lost
  ledger is what the status says;
- `Held`: from the record of the user on, and throughout a recovery, the handler's copy is
  the newest, or the Secret was taken away after everybody had seen it;
- `IssuedOnce`: if the newest request has a token, the ledger has consumed it (or did before it was
  lost), so no reconcile can consume it again; a recovery under way has made none yet;
- `Working`, `FirstRecorded`, `Fresh`: request 0 has no ID that could be consumed. What
  protects it is the login: a user whose token was made is on record and has one, and outside a
  recovery the code refuses a user with a login;
- `Vouched` (for the token that is served): a copy in the making is not `Verified`, and one
  about to be saved as such has been checked against the recorded user;
- `Unspent` (for the owner's password): a reconcile that may still use it, and whose copy is the
  newest, works on a ledger under which no token was asked for; `Intended`: a user is made only
  with the newest ledger. So a reconcile that logs in from an outdated copy fails at its first
  write (`OutdatedIsHarmless`);
- `CreatedOnce` (for the users made): the commands to make a user are bounded by the newest request
  in the ledger, because a command is preceded by a saved `Creating`, which only a newer
  request clears;
- `Settling` (for the gap): whatever copy says that the token was verified, the ledger is
  `Settled`, and stays so: it is verified, or a person has asked for a recovery.

One token is no inductive fact of its own: `CreateToken` does not look at the past.

### `LegacyBootstrapProofs`

`TypeCorrect`, `RefusalsBounded`, `CompletionUsable`. The
invariant is `TypeOK` with `RetriesAgree` (refused logins are at most the attempts recorded
plus the records that were lost; the informer's copy is at most one failure behind, and a
reconcile's not at all, because a failure that its copy overlooks counts as lost; and the
attempts are below the limit where it is about to log in; without it nothing ties Home Assistant's
count to the operator's), `OwnerFirst` (the steps of an owner's session, and a stored token, mean
that there is an owner) and `CompletedMeansUsable`.

### `BanRecoveryProofs`

`TypeCorrect`, `FailureJustified`, `CooldownTheorem`, `BudgetTheorem`. `RestartsDated`: a pod is
deleted only below the limit, and between reconciles the last
restart in the status is the last one there was, unless a record was lost or made from
an outdated copy; without it the cooldown would be kept towards some earlier restart. `Budget`, for the
number of restarts in a window: those that are more recent than the last one recorded were lost or blurred
(`SinceLast`), and those of the window are counted in the status (`ByStatus`), of which the informer's
copy and the reconcile's are at most one behind (`ByView`, `ByMine`). `Of` and `Made` count a
sequence of ages as time passes.

### `IntegrationProofs`

`TypeTheorem`, `OneEntryTheorem`, `DeletionTheorem`, `HashTheorem`, `UploadTheorem`. `Sound` has four parts: a
copy taken for current differs from the resource in a removed entry at most (`Current`); a
reconcile that verifies has the hash of what it works on, and none makes an entry before the finalizer (`Prepared`); an entry
that a resource made has its ID and its hash in the status, unless it counts as lost (`Owned`); and a
reconcile that looks for an entry, or finalizes, has none (`Freed`). `Single` adds that a config flow only runs where
there is no entry of the operator's, and `Tidy` that an uploaded file waits for its submission.

### `RegistryProofs`

`TypeTheorem`, `NothingLeftBehindTheorem`. Three workers run beside each other, so the invariant is a
quantifier over kinds: `Cached` (a copy that is not current is behind only in what goes one way), `Working` (what a worker's copy
is worth while it is valid) and `Owned` (an entry some resource made is `Kept`: its ID is in the status or
in the copy about to be saved, and the worker is not about to recreate or forget it). `Kin`
says that a worker's writes, the removal of references included, leave the entries of others theirs.

### `CommunityRepositoryProofs`

`TypeTheorem`, `OneOwnerTheorem`, `MaterializedTheorem`, `NothingLeftBehindTheorem`. `Chosen`: between the conflict
check and the phase it is for, nobody else takes the target. `Filled`, `Noted`, `Cleaned`: when
the init container is done, all of its list is in place; what is in place is noted, so that what is not listed is removed,
unless a script was killed; a killed script in an old pod is why the latter is a condition. `Bare`: a pod without scripts is one without
repositories. `Dropped`: the reconcile that lets a resource go has taken its target off the list.

`PlaceableTheorem`: what `FetchTarball` and `ValidateAndResolve` accept, the scripts extract and put in
place, for every `Regular` archive: finite, and with one top-level directory for all members that do
not lead outside, as source code hosts make them, unless an integration's domain is not
the name of a directory (`Unsafe`). (There, and outside of such archives, the two sides differ, see
below.) It rests on what the tree keeps of the archive (`FileOrigin`, `DirOrigin`, `Reached`).
`ValidatedTheorem` applies it to the samples of the run and to the repositories of a behaviour.

### `ConfigurationProofs`

`TypeTheorem`, `MarkedTheorem` and `PromotedTheorem` of `ConfigReload`. `Announced` follows the file through a reconcile: between
reconciles, the file in the ConfigMap, its annotation and the recorded hash have one critical
part (`Settled`, `Recorded`), or the file is owed and is the one that is tried again (`Owing`); what was there before
the write was announced (`Ago`), what is there after it is what is wanted (`InPlace`), and from the delivery on it is announced
(`Marked`). The cached ConfigMap is at most one write behind (`Behind`). None of that holds after a forgotten change (`lost`)
or with another strategy, hence `Applies`. For `OnlyOwnPromoted`, `Kept` says that what the probe saw of the slots is still
there at the delivery, unless a user has changed it or it was reverted.

`TemplateTypeTheorem`, `HashesKeptTheorem` of `PodTemplate` (as `Pod`). `MadeOnce`: a StatefulSet
that the cache shows exists, an update is made only of one
that was seen, and one that does not exist has no hash. That a copy which is current equals the
object is in `TypeOK`, so a write made from it takes nothing back.

### `PushProofs`

`TypeTheorem`, `RenamesTheorem` of `EntityPush`. A cached copy lies between what the status
records and the resource (`Aging`), and so does what a reconcile pushes (`Pushing`); Home Assistant has a
resource only under the ID of its annotation and the one about to be annotated (`Known`); a
previous ID is given up before the new one is used (`Unrenamed`), the status written after the
annotation (`Noted`), and a recorded content was pushed under the ID it has (`Agreed`).

`DashboardTypeTheorem`, `OthersTheorem` of `Dashboard` (as `Dash`). As long as nobody changed its path or removed
its dashboard, a resource and all its copies have one path and no ID but this path (`Named`), the
dashboard of an ID that is known is there and its own (`Owned`), and no reconcile
changes a named dashboard without its ID (`Knows`).

### What is assumed

The named assumptions on the constants, which every run evaluates. They say that sets which the code
keeps apart are apart, that bounds are numbers, and that there is at least one ID (`EntityPush`), path (`Dashboard`),
edit (`ConfigReload`, `EntityPush`, `Integration`) or retry; `FirstRefs` are refs of the repositories. For the
instances `Pod` and `Dash` they are hypotheses of the theorems (`Pod!ConstantsAssumption`,
`Dash!ConstantsAssumption`). Three theorems about the account assume `~LedgerLoss`: a ledger
deleted by hand really allows a second user, and `account_answers` covers the rest.
`PlaceableTheorem` and `ValidatedTheorem` are about regular archives; an unsafe domain is an
exception in what they state (`Placeable`), not an assumption.

### What is only model-checked, what is only proved

All liveness is only model-checked: under fairness it is out of the prover's reach. Only proved,
because no run has room for it: `CooldownKept`; that one request brings about one token even
when the Secret may be lost; that every regular archive which is validated, and has no unsafe domain, can be placed.
(`HashesKept` and `OthersKept` are both; being theorems about instances, `PROJECT.json` lists them
without the property's name.)

## What the models abstract

- **All**: contents, IDs and hashes are numbers or model values, and a content is its own
  hash. Logs, events, messages and metrics are left out. Two overlapping leaders are not
  modelled: the manager's leader election is trusted.
- **OperatorAccount**: the resource itself is read as it is (`LoseStatus` covers an older
  status); a request ID is used once, as the API's documentation asks; the Secret is
  lost only while the projection in the status is current.
- **BanRecovery**: whether a restart cures the ban, and whether patches come through at once, is
  fixed per behaviour (`given`); ages are capped one above the window.
- **LegacyBootstrap**: what the user wants (`wants`) is fixed per behaviour; a boot is
  shorter than the confirmation delay, which the code relies on. Secrets are read as they are. A
  status is only written on top of the newest one, so that the informer is at most one write
  behind; a reconcile that starts then costs a fault. A wrong password is answered with a form or
  with a refusal (`NoUser`, `Refused`), as Home Assistant likes.
- **Integration**: one form step stands for the flow's; fields of the flow are one value. A flow
  that makes an entry although files are still to be uploaded, and a form for a resource without
  configuration, are left out: both end in a failed condition (`homeassistantintegration_controller.go:227-230`, `:317-318`).
- **EntityPush**: one kind per behaviour. An admission without the webhook (it is
  configured to fail open) costs a fault. Whether an automation is to be on depends on its
  generation (`Off`); Home Assistant keeps the switch when a definition is written again.
- **ConfigReload**: a body is two bits, the critical part (`Core`) and the reloadable rest;
  every body has critical sections, so the first one needs a restart. Of the http sections, those that
  only have proxies are reloadable; the one that Home Assistant refuses stands for the critical keys (`HttpCritical`). Whether a
  hot reload succeeds is a choice. A behaviour is about the strategies (and has no http
  section) or about http (with the automatic strategy). The recorder Secret, includes and
  the ownership of the ConfigMap are left out.
- **HttpConfig**: a section is one of five, for the ways the code treats one; what the operator does not know of
  Home Assistant's configuration is one bit, which it must hand back unchanged. Home
  Assistant reverts what is pending at any time before its confirmation. A change of the
  pending configuration between probe and confirmation is marked (`raced`).
- **Registry**: icon, aliases and colour are one value. An ID is not used twice while an
  entry has it. Removing a floor or a label removes the references to it, as Home
  Assistant does.
- **CommunityRepository**: the category is fixed per behaviour: integrations stand for
  what needs a restart, themes for what a sidecar installs. A change of the StatefulSet
  replaces the pod at once (a pod that never becomes ready would have to be deleted by
  hand). The list of other repositories that the conflict check reads does not lag. The version
  a ref resolves to and the Lovelace resource of a plugin are left out; timeouts
  are three ages.
- **RepositoryLayout**: the limits are scaled down (5 entries, 4 units in all, 2 retained, 1 an entry).
  One domain stands for all that have a slash. What a file system refuses on its own, such as very long names, is left out.
- **Dashboard**: the ID is the path, as Home Assistant makes it; icon and visibility go with the
  title; that the removal of a dashboard which is gone is no failure is taken from the
  comment on `DeleteDashboard`.
- **PodTemplate**: `mark` is the hash as the cached ConfigMap shows it and changes at will;
  the three attempts of an update are "again or give up after a conflict"; the generated Secret is
  written in every reconcile (the code skips that when its cached annotation has the hash); `autoRestart`
  is on, as by default; the kubelet mounts the Secret as it is when the pod starts.

## Where code and documents disagree

One disagreement has a run (`pod_restart`; see `PROJECT.json`). Others were met while
modelling. They are behaviours of the models, which is why the properties around them carry
the conditions they do:

- *Account.* One 404 of a booting instance (`operator_account.go:243`) sends a fresh instance
  down the migration path, although `haclient/client.go:176-179` asks callers not to trust one
  answer. A recovery that was interrupted after its request had been consumed is promoted when the
  old token still works, and reported as successful (`:170`); `docs/how-to/recover-operator-credential.md:39-41`
  says that an interrupted request requires a new ID. An ID that was used before is taken for
  a new one when another came in between (`:86`). After a crash, a reconcile from an outdated copy of
  the ledger still logs in with the owner's password, though a dedicated credential may have been issued: the password is not
  "retired from routine use" (`:181`, `:368`) or "not read during ordinary reconciliation"
  (`docs/explanation/security-model.md:97-98`) there. It has no effect: its next write is refused, and before that it can only
  complete an onboarding that is still open (`OwnerRetired`).
- *Ban.* The window is fixed, not sliding as `docs/explanation/reconciliation-model.md:87`
  says: restarts around its end can be up to twice the limit in 30 minutes. A merge patch from an outdated
  copy can leave a full counter without a window start, which then never expires
  (`bootstrap_controller.go:892`). Hence `WindowBudget` counts per window.
- *Bootstrap.* An instance whose first run crashed after the owner was made is completed
  without the remaining onboarding steps when no location is configured
  (`bootstrap_controller.go:450`, against `client.go:1011-1012`). Two short 404 phases of
  different boots count as one confirmation (`:388`). Every answer
  of `type=form` counts as a missing user (`haclient/client.go:461-468`), also where there is an
  owner: then a wrong password restarts the confirmation window (`:602-606`) and is tried again without bound, never reported as
  `LoginRecoveryFailed` (`docs/reference/conditions.md:47`), although the comment at `:594-595` keeps the recovery bounded. Hence
  `LoginsBounded` is about the other refusals. Of these, two from one outdated copy of the status count once (`:608-611`; `lost` in the model). Once the login
  attempts are spent, corrected credentials are never tried (`:443`, against the message at `:618`).
- *Integration.* Deleting a resource during its first reconcile can orphan the entry
  (`homeassistantintegration_controller.go:614`); an edit during the creation is recorded as
  applied; an adopted entry is reported `IntegrationConfigured` from the second reconcile on.
- *Entities.* `ReloadReady` of an automation keeps `TokenNotAvailable` after a later push
  (`homeassistantautomation_controller.go:219`); two automations admitted together share an ID,
  and deleting or renaming one removes the entity of the other; an edit between push and
  status is reported as observed; the update that removes a finalizer passes the collision
  check (`internal/webhook/v1/homeassistantautomation_webhook.go:68`), so a resource whose ID another one also has is
  never deleted, although `docs/explanation/reconciliation-model.md:40-41` says that the finalizer completes
  even when Home Assistant is unreachable; an automation disabled through its own endpoint is never enabled
  again (`homeassistantautomation_controller.go:393`); two quick renames leave an orphan, because the annotation
  is patched from an outdated copy.
- *Configuration.* The automatic strategy's fallback to a restart after a failed hot reload
  is dead code: `performConfigReload` overwrites `strategy` with the value it then tests for
  (`homeassistantconfiguration_controller.go:767`, `:799`, `:823`, `:845`); the reconcile fails and its retry restarts.
  A change that needs a restart is forgotten when its reconcile fails between write and mark and
  the user makes a reloadable change before the retry, or reverts it (`lost` in the model).
  An edited ConfigMap is restored, but the reload meant at `:904-906` is skipped because the
  hash in the status is unchanged (`:730-734`). A hot reload reads a file that a subPath mount
  never updates (`homeassistant_controller.go:802-806`, against the comment at
  `homeassistantconfiguration_controller.go:686`).
- *HTTP.* An instance that restarts does not answer the probe, the section goes back into the
  file, which announces a rollout that nobody asked for (`http_config.go:74`; `docs/explanation/reload-vs-restart.md:17` and the comment at
  `homeassistantconfiguration_controller.go:223-226` want none). A configuration that Home Assistant refuses
  is sent again every 30 seconds. What a user of the settings page sends between probe and
  confirmation is confirmed (`docs/how-to/manage-configuration.md:77` says it is left alone).
- *Areas.* A label that is missing is skipped and the area reported ready; nothing
  queues the area when the label appears, so it has to wait for a resync
  (`homeassistantarea_controller.go:148`; `docs/development/architecture.md:169` says it is reconciled again,
  `docs/how-to/model-house-structure.md:23` that the label is left out).
- *Community repositories.* A repository that is not valid yet has no entry in the list; until then every
  update of the StatefulSet, and its creation, is given up
  (`community_repository_pod.go:89-104`, `homeassistant_controller.go:965-974`), although the comment at
  `community_repository_pod.go:63-65` wants pod creation never to block. An edit while a repository is
  Installing is not seen, and `InstalledVersion` is then a ref that was never fetched
  (`docs/how-to/install-community-repositories.md:68-71`). A crash between the target in the status and the
  ConfigMap, after a change of target, leaks the old key, which the comment in `reconcileValidating` excludes.
  A resource that failed with an old target, when deleted, removes the entry of another that has the target by then.
  The deletion of an integration waits while the fetch of another one fails, against "Removal
  is best-effort". With the last extension of a sidecar the sidecar itself is removed, before it could remove the file.
  A ConfigMap read from the cache may be older than the pod that confirms it. A script killed between placing files and
  noting them leaves them (`killed`). The sidecar keeps the old file when the extension changes.
  Links that lead outside and files at the top level are accepted in Go and refused in Python. So
  is an integration whose manifest has the domain `.` or `..` or one with a slash: Go takes any that is not
  empty (`internal/communityrepo/manifest.go:149`), and the init container's script raises `unsafe integration
  target` each time (`community_repository_pod.go:279-283`, `:332`), so that the pod does not start, and the
  deletion of other integrations waits, until its resource is changed (`Converges` grants that). An archive
  that is too large is tried again as if it were unreachable.
- *Dashboards.* A deletion waits while Home Assistant is away or its resource is gone
  (`homeassistantdashboard_controller.go:240-251`, against `reconciliation-model.md:40-41`). When the ID of a dashboard just made is lost,
  the resource reports a path conflict with its own dashboard for ever (`:97`). A removal that
  is tried again removes what another resource or a user has made at the path since. A new
  `urlPath` is not checked for conflicts (`:160-164`): the title is written to the old dashboard and the
  content to whatever has the new path (`docs/how-to/manage-dashboards.md:27`). A dashboard that a user removed is
  not made again; if another resource makes one of that path, both undo each other's work.
- *Secrets.* If a pod starts between the two writes of a reconcile, the annotation fails, and
  the secrets change back, the pod keeps the old ones (`early` in the model).

## Plan

Done: `OperatorAccount` with `RequestLedger`, `LegacyBootstrap`, `BanRecovery`, `Integration`,
`EntityPush`, `ConfigReload` with `HttpConfig`, `PodTemplate`, `Registry`, `CommunityRepository`
with `RepositoryLayout`, `Dashboard`, and the proofs above. The order was that of the
damage a mistake does: credentials first, then what is onboarded or restarted, then what is
pushed or installed.

Next, modelling:

1. `Rollout`: `ConfigReload` and `CommunityRepository` composed with `PodTemplate`, the
   ConfigMaps' hashes in place of `mark`.
2. `CommunityRepository` with the version a ref resolves to and the Lovelace resources of plugins.

Next, proofs:

1. The safety that the liveness arguments rest on, where it is not an invariant yet: that a
   request which is not answered is still due, that what is due is in a queue or will be resynced.
2. `EntityPush`: for two resources, that only resources which were admitted together share an ID.
3. `HttpConfig`: that exactly one of the channels delivers a section.

## Not modelled

- **Backup schedule**: one write of a value that is read back; no protocol.
- **Exposure and TLS, Service, PVC, NetworkPolicy, the status of HomeAssistant**: created or recomputed
  from the specification by idempotent writes of objects nobody else writes.
- **The contents of the pod template**: thousands of lines that build data without state.
- **Validating webhooks of HomeAssistant and HomeAssistantConfiguration**: stateless checks of one object.
- **The HTTP and WebSocket transport of the client**, its encodings and its parsing: a call is one
  step that succeeds, fails or loses its answer.
- **Manager, metrics, API types, generated code**: start-up, counters and declarations. Two
  overlapping leaders are excluded by the library's leader election.
