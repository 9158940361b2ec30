# Verification of hybridcloud-demojam

The repository is a platform in which users declare resources (networks,
clusters, projects, ...) with a dashboard or the Kubernetes API, operators launch
Ansible (AAP) jobs for them, and the playbooks of those jobs do the work and
report by patching the resource's status. This directory holds TLA+ models of the
parts with concurrency or intricate rules, the TLC runs that check them, and
TLAPS proofs of the most important properties. Paths are relative to the
repository.

## 1. The system

### 1.1 Components

| component | state | operations | module |
|---|---|---|---|
| Kind operators, `src/custom-operators/base/roles/kind_reconcile` | the resource (`metadata`, `status.aapJob`, `status.phase`, ...), facts of a run | live read, fast path, reconcileNow, job query, launch table, cancel, launch, status patches, teardown wait, finalizer release | `KindReconcile` |
| VNI ledger, `eda/common/tasks/fabric_numbering_*.yml` | ConfigMap `fabric-numbering-<fabric>`: pool, `allocated`, `nextVni` | allocate, release, by compare-and-swap | `VniAllocator`, `VniLedger` |
| HybridNetwork and HybridFabric playbooks, `eda/rulebooks/roles/hybrid*` | `status.{fabric,vni,allocated,deletionComplete,ready}`, placements, ledgers | select a fabric, allocate, report; count placements, release, complete; provision a fabric and migrate ledgers; block or delete a ledger | `HybridNetworks` |
| WireGuard ledger, `eda/common/files/fabric_wg_ledger.py` | `wgAddresses` of the same ConfigMap | allocate for a list of gateways, release | `WireGuardLedger` |
| Cluster CIDRs, `eda/common/files/fabric_cluster_ipam.py` | `status.networking` of PlatformOpenshift | recorded, explicit, allocate; conflicts with peers | `ClusterCidrs` |
| Config-as-code export, `iaac/src` | tracked paths (memory), a clone (volume), a Gitea repository, the Iaac status | one pass: list, upsert, delete orphans, commit and push, report | `IaacSync` |
| Dashboards' servers, `ui/packages/{tenant,admin}-dashboard/server` | none; the resources of the API server | per kind: list, get, create, update by PUT or patch, delete, annotate | `ServerSpecs`, `ResourceEdits` |
| Create form, `ui/packages/shared/src/components/CreateResourceForm.tsx` | what was typed and chosen, lists being fetched, submissions | pick entity, choose, type, submit (with a Secret first) | `CreateForms`, `ServerSpecs`, `PlatformSpecs` |
| Resource pages (tenant dashboard, shared hooks and forms) | fetches in flight, the resource shown, draft, entity chosen, permission | navigate, switch entity, refresh, edit, save, delete, reload | `ResourcePages`, `SpecEditor` |
| Overviews and topologies | lists as they arrived | fetch with retries, build the graph, lay it out, build diagram and matrix | `Overview`, `EntityGraph`, `LayeredDrawing`, `NetworkViews` |
| Tenancy, plugin, cloud, PlatformOpenshift, placement, gateway and transport playbooks | external services | sequences of idempotent calls | their control only (`KindReconcile`) |
| Bootstrap, GitOps and AAP configuration, EDA tools, health checks, tests | installation | declarative set-up, single calls | no |

`PROJECT.json` lists every component with its files and the reason when it is not
modelled, and every hazard at its line.

### 1.2 How they interact

A user edits, annotates (`reconcileNow`) or deletes a resource, through a
dashboard's server or directly. The controller starts a *run* of `kind_reconcile`
for it: on watch events, on `reconcilePeriod`, and again after a run that failed.
One run per resource is in progress at a time. A run reads the resource once, asks
AAP about the job in `status.aapJob`, and ends, waits, cancels or launches. The
job's playbook reads the resource again, possibly a newer version, works, and
patches `status`. The run and the playbooks patch overlapping fields of the same
status with no precondition. A deletion is finished by the operator when a
teardown playbook has reported `deletionComplete`.

Playbooks of different resources share state: the numbering ConfigMap of a fabric
(written by the jobs of networks, fabrics and gateways) and each other's status
(a network's provision reads `status.ready` of fabrics, its teardown counts the
placements, a cluster's CIDRs avoid those recorded in its peers). The export pod
and the pages of the dashboards read the same resources in many separate calls
while all of that goes on.

### 1.3 What is hard

- Operator and playbook write one status from reads of different ages.
- A run may die between any two API calls; a job may fail, die silently, outlive
  three hours, be cancelled (best effort), or be cleaned up by AAP.
- Deletion can come at any moment, also while a provision job runs.
- Concurrent jobs write one ConfigMap: lost updates, stale reads, retries that run
  out, a scan that wraps around the pool, a migration that patches whole maps.
- Playbooks check (placements, VNIs, fabrics, peers) and act in separate calls,
  and their rescues rewrite fields later decisions rely on.
- Lists that fail and are taken for empty ones, or are older than the ledger or
  repository they are applied to.
- A PUT made of an earlier read; a request given up after 15 seconds that is
  carried out later; answers of fetches that arrive after the page has moved on.
- Forms and editors whose rules must match those of the server and of the CRDs.

## 2. The modules

Every module states at its head what it models; a definition introduced by
"Mutant:" is a plausible slip in the definition after it and is used by no
behaviour. History variables (`hist`, `used`, `missed`, ...) only count, bound or
remember for a property: apart from the named bounds they enable nothing.

### 2.1 KindReconcile

One resource, the runs of its operator, the AAP jobs and their playbooks. State:
`cr`, `run` (program counter and the facts set by the run), `jobs` (AAP's jobs
with the generation they were launched for and the one their playbook read),
`aap` (installation progress), `hist`.

| file | actions |
|---|---|
| `main.yml` | `StartRun` (with `FastPath`), `ClearNow`, `NoCredentials` |
| `aap_job.yml` | `QueryJob`, `RecordSuccess`, `KeepSuccess`, `WaitForJob`, `CancelJob`, `AwaitCompletion`, `TemplateMissing`, `LaunchJob`, `TrackJob`, `FallThrough` |
| `wait_teardown.yml` | `WaitTeardown` |
| `release_finalizer.yml` | `ReleaseFinalizer` |

`Interrupt` is a run that dies, or stops at a failing call, between two steps. Of the
playbooks only reading and reporting matter: `StartPlaybook` and `Report...`. AAP
is external and modelled from how the role uses its API (`AcceptJob`, cancelling, purging).

### 2.2 VniAllocator, VniLedger

`VniAllocator` is the promise: numbers are given to networks and taken back, in one
step. `VniLedger` is the two scripts, one API call per step: `Start`;
`GetToAllocate`, `GetToRelease` (the GET and the decision on it); `Put`, accepted for
the current resource version only; `PutConflict`; `GiveUp`; `Fail` (any other
answer, or an answer lost after the write). It implements `VniAllocator`.

### 2.3 HybridNetworks

Because of that refinement, networks allocate and release in one step here, and the
states are spent on the order of the playbooks' reads, writes and reports. State:
`net`, `placed`, `fab`, `ledger`, and the job in progress of each of the four
templates (`prov`, `tear`, `fprov`, `ftear`): AAP runs one job of a template at a
time, since `gitops/infrastructure/aap/templates/seed-jobtemplates.yaml` sets no
`allow_simultaneous`.

| playbook | actions |
|---|---|
| `hybridnetwork_provision` | `StartProvision`, `AllocateVni`, `AllocateFails`, `MarkReady`, `ProvisionFails` |
| `hybridnetwork_teardown` | `StartTeardown`, `ReleaseVni`, `MarkDeletionComplete`, `TeardownFails` |
| `hybridfabric_provision`, `ledger_migrate_legacy.yml` | `StartFabricProvision` (overlap check, lists, plan), `MigrateAdd`, `MigrateRemove`, `MarkFabricReady`, `FabricProvisionStuck`, `FabricProvisionFails` |
| `hybridfabric_teardown` | `StartFabricTeardown`, `DeleteLedger`, `MarkFabricComplete`, `FabricTeardownFails` |

The migration's plan is made from one list of the ledgers; its two patches write
whole `allocated` maps without a resource version, so whatever is allocated or
released in between is overwritten. `hist.crossed` remembers the networks to which
that happened, `hist.moved` those whose number or fabric has changed place. A
provision starts on a resource that is being deleted, and a teardown during a
provision: the operator's cancel is best effort (`MCKindReconcileOverlap.cfg`), so
`Overlapping` counts such a start as a failure, and `hist.overlapped` remembers the
networks concerned. Placements may be made on a network being deleted; `hist.late`
has those made since its teardown counted. `hist.unreported` has the networks whose
provision failed while a ledger held a number for them. The properties except these
networks by name, never a whole behaviour.

### 2.4 WireGuardLedger

Gateways (there, deleting, of type WireGuard, with an address of their own), the
ConfigMap, and scripts in mode allocate or release: `StartAllocate` (with the list
`bgw_facts.yml` read), `StartRelease`, `Get` (with the plan), `Put`, `PutConflict`,
`Gone`, `Fail`; `WriteVnis` is a VNI script's write to the same ConfigMap. The
resource version is a set, `current`: the jobs whose copy is the stored one.

### 2.5 ClusterCidrs

For every cluster its spec, `status.networking`, the check's verdict, and the job:
`Start`, `ReadHub`, `ListPeers` (each may fail and then counts as empty), `Record`
(the planner and the status patch before the verdict), `GiveUp`. `Plan` follows
`plan` of the script: recorded, explicit, legacy, allocated. A CIDR is the set of
its addresses.

### 2.6 IaacSync

`Begin` (with the ping, clone and adoption of old files), one list per kind, one
commit per resource, one delete per orphan, the commit and push of the clone, the
report, and for each of these its failure, before or after it took effect;
`Restart` loses the tracked paths. `Change` is anybody else.

### 2.7 ServerSpecs, PlatformSpecs, ResourceEdits

`ServerSpecs` says for each of the kinds with handlers what create refuses, keeps,
drops or fills in, and how update combines a submission with the stored spec; it is a
module of pure operators, used by all that follows. `PlatformSpecs` does the same
for the network and platform kinds, whose rules are the CRDs'. A spec is a record
from fields to "none", "blank", two proper values, and what rules refuse: "bad" (of the
wrong type or form), "odd" (beyond a bound), "space" (spaces where a text is
required), "dotted" (a name the API server takes and the handlers do not); fields that
the code treats alike are one. A handler refuses with 400, or with 500 if it trims what
is not a text. `ResourceEdits` runs the handlers of both servers on one
resource: sessions, the read and the PUT of an update, patches, the 15 second
timer with requests carried out late, refusals, lost answers, the operator with its
finalizer, and changes from outside. The patch of a Persona's annotations takes any
(it sets, removes or breaks the operator's or anybody's); the others set one.

### 2.8 CreateForms

The form of each of 22 kinds: the lists that come, come late or not at all; the
entity picker; default selections; the name; what the button lets through
(`canSubmit`, `...Complete`); the spec built (`...Spec`); the Secret; submissions
through the server or straight to the API (`ToApiServer`) and the API server's verdict
(`Accepted`: types, bounds, addresses and the rules of the CRDs). Texts may be kept
from a choice taken back.

### 2.9 ResourcePages, SpecEditor

One tab: `Navigates`, `OpenDetail`, `Back`, `Refresh`, `Reload`, the entity switcher,
saves, deletes and Reconcile Now, `Read`/`Arrives`/`FetchFails` for each fetch,
permission checks. `EntitiesArrive` has the three rules of `entityNamespace.ts`: the
user's groups, the only entity, an entity with the label, whose resource's own namespace
(`Home`) is shown. A save of a kind that is put is two steps of the server
(`HandlerReads`, `CarriedOut`), between which others write. A request outlives its page;
the answer of a delete then still leads to the list (`Orphaned`, `Answered`). `pick`
remembers what the user picked last, which a reloaded page knows from `choice.kept`
alone. `SpecEditor` is the pure part: which fields an editor shows, what an entry leaves in
the draft, and what a save makes of it.

### 2.10 Overview, EntityGraph, LayeredDrawing, NetworkViews

`Overview` has four pages that load the same catalogue in different ways (one
aggregate; entities first and then all lists; one list per kind) with retries,
failures and a refresh while resources come and go. The other three are pure:
the graph with its resolution of names, owners and layers; lanes, crossing
reduction and placing; the diagram and the matrix of the networks. A cell's fallback on the network's status
is keyed by kind and name (`ReadyRef`).

## 3. What the runs check

Each property is broken by a mutant listed in `PROJECT.json`. All runs end within
three minutes or so with two workers.

| run | instance | question |
|---|---|---|
| `kind_reconcile` | 2 generations, 2 jobs, 1 interrupted run, 1 reconcileNow, 1 overdue job, old image or incomplete AAP | finalizer, tracked job and generation, one relaunch per request, no false "applied" |
| `kind_reconcile_live` | 2 generations, 2 jobs, 1 failing playbook, jobs shown as `new` | is every edit applied or superseded, does every deletion complete? |
| `kind_new_drops_finalizer` | as above, with `FinalizerWaitsForTeardown` | expected violation, see 3.3 |
| `vni_ledger` | 3 networks, 2 scripts, 2 numbers, 2 attempts | unique numbers, true reports, "full" only when full, refinement, scripts end |
| `networks` | 2 networks, 2 fabrics with overlapping pools, 2 creations or edits of `fabricRef`, and at most two (`TwoEvents`) of: 1 placement, 1 failure or overlap, 1 fabric deleted or reconciled | do status and ledger agree, do placed networks keep their VNI, through migrations too, does nothing leak? |
| `wireguard` | 3 gateways, 2 free addresses, 2 scripts, 2 attempts, 3 changes | distinct addresses, entries lost only by rule, lists served |
| `cidrs` | 2 clusters, 3 creations, 1 failed read | disjoint unless unseen; a network moves only on a clash |
| `iaac` | 3 resources of 2 kinds, 3 changes, 2 mishaps | what "ready" means, which files stay behind, convergence |
| `edits` | 15 kinds, 2 sessions, 2 requests, 1 late, 1 mishap | do edits keep what they are not about, do answers tell the truth? |
| `forms` | 22 kinds, 2 entities, 2 submissions, 1 failure, at most one input that breaks a rule (`OneSlip`: then 1 submission) | references of the right entity, exactly which inputs the button lets through are refused, nothing lost, Secret first |
| `pages` | 2 entities and `Home`, 3 acts of the user, 1 of others, 1 mishap; a kind per update method, 4 fields that change (`Changing`: a text, a reference, a list, a list the handler ignores) | is what is shown current, does a save store what was entered and only that? |
| `overview` | 21 resources of 2 tenants with equal names, 1 change, 1 list that fails, 1 refresh, 4 kinds of page | is the drawing faithful to what was listed, do the two network views agree, does loading end? |

### 3.1 Why the bounds are enough

Two generations give "the spec changed while the job ran", two jobs a stale and a
fresh one, one interrupted run every crash point. Failures are left to
`kind_reconcile_live` (every rescue and its retry) and to the theorems, which hold for
any number of them. Two scripts are in every race a compare-and-swap can see, a
third network makes the pool run out. Two networks on a shared number compete at
every allocation; two fabrics with overlapping pools are needed for one to replace
the other, and two writes create a network and give it its `fabricRef`, so that its
number migrates while a failure or a deletion of the fabric comes anywhere; the
theorems hold for any number of each. Three
gateways for two free addresses exhaust the hosts; three creations delete and
create a cluster whose block a peer took. Three resources of two kinds distinguish
a kind that cannot be listed from a resource that cannot be written. Two sessions
make every lost update; two requests of which one is late come after any other.
Two namespaces are there and back again; three acts are choose, enter and save, or
switch to and fro. In the catalogue two tenants use the same names for resources
of the same kinds, which is what resolution by name could confuse.

### 3.2 Fairness

- `KindReconcile`: weak fairness of the operator (the controller requeues failed
  runs and has a `reconcilePeriod`), of each job (AAP starts and ends it) and of the
  installation.
- `VniLedger`: a script takes its next step.
- `IaacSync`: the pod's loop goes on (`Works`); failures and restarts are bounded.
- `ResourcePages`: requests are answered. `Overview`: a request is answered or
  fails, as its retries run on timers.

Users, failures and interruptions owe nothing anywhere.

### 3.3 Disagreements between code and documents

Finding with a run: `kind_new_drops_finalizer`. A tracked job that AAP shows as
`new` matches no row of the launch table (`aap_job.yml:82`); a deleting run that sees
one ends well and the finalizer is dropped, though `aap_job.yml:3` says that it is
kept until `deletionComplete`. In TLC's trace a run launches and tracks the provision
job, the resource is deleted, and the next run sees that provision as `new`: the
finalizer goes before any teardown was launched. (A teardown job seen as `new` by the
run after the one that launched it would do the same.) It depends on AAP showing a
launched job as `new` for a moment; `wait_teardown.yml:28` provides for that.

More configurations are kept as experiments; TLC finds the property violated by what
the code does:

| configuration | property | what it shows |
|---|---|---|
| `MCKindReconcileOverwrites.cfg` | `SuccessMatchesAndEnds` | a waiting run's status patch lands after the playbook's report and erases `ready`; the same generation is launched again (`aap_job.yml:21-23`) |
| `MCKindReconcileOverlap.cfg` | `CancelledBeforeRelaunch` | the teardown is launched while the provision it cancels may still run (`aap_job.yml:206,218`) |
| `MCHybridNetworksLeak.cfg` | `ReleasedWhenComplete` | a failed provision clears `status.allocated` (`hybridnetwork_provision/tasks/main.yml:266`); the teardown keeps the VNI and reports it released |
| `MCHybridNetworksFabric.cfg` | `LedgerKeptWhileAllocated` | a ledger that got an allocation after it was counted is deleted (`hybridfabric_teardown/tasks/main.yml:2-3,111`) |
| `MCHybridNetworksLate.cfg` | `PlacedNeverReleased` | a VNI is released although a placement was made after the count (`hybridnetwork_teardown/tasks/main.yml:2,72`) |
| `MCHybridNetworksMigrate.cfg` | `NeverAbsent` | the migration's patch removes an allocation made since its list, though it says "a VNI is never absent from both ledgers" (`ledger_migrate_legacy.yml:117`) |
| `MCResourceEditsAssignment.cfg` | `NothingLeftBehind` | updating an Assignment drops its finalizer (tenant `k8s-proxy.js:763`): a deletion leaves behind what the operator set up |
| `MCCreateFormsEntity.cfg` | `ReferencesFollowEntity` | a list that comes after the entity was changed fills in the old entity's reference (`CreateResourceForm.tsx:354`) |
| `MCIaacSyncReady.cfg` | `ReadyIsComplete` | a list that fails removes the files of its kind, and the pass reports ready (`git_sync.py:141`, `docs/workshop/lab-10-iaac.md:87`) |
| `MCResourcePagesRest.cfg` | `RestsWithoutUser` | a denied permission is asked for again and again (`k8s.ts:501`, against tenant `App.tsx:76`) |
| `MCClusterCidrsKept.cfg` | `KeptAsIs` | a recorded network is planned anew on a clash (`docs/concepts/fabric-design.md:1173` says kept as-is) |

Properties that hold only with an exception name it: `NoUntrackedJob` and
`EndsOnlyWhenApplied` until a run was interrupted (and, the latter, no job is overdue);
`NoOrphan` but for networks of which a provision failed or that moved or were crossed
by a migration; `AskedIsStored` but for `Forgotten` and sizes below one;
`EditsKeepTheRest` but for a Persona's annotations, which may be removed;
`EditTakesEffect` but for `Ignored` and `CannotEmpty`, fields that `specFieldMeta.ts:67`
registers as editable (the lists at `:334` and `:343` among them); `RestIsKept` but for
saves of a stale draft, which undo what others have stored. With an overdue
job, `DeletionCompletes` fails: a cancelled job that reports late can follow the
teardown's success with a failure, after which the resource waits for ever.

`ViewsAgree` compares the site of a placement in the diagram with the one in the head of
its column of the matrix unless the name is `Ambiguous`: the column has no namespace and
shows the site of the first cloud project of its kind and name
(`NetworkOverview.tsx:187`), although these are "only unique per ns"
(`HybridTopology.tsx:305`), so that with two tenants' projects on different sites, as in
the run's catalogue, the head may name the other tenant's. A gateway has one state in
both, but for `DrawnReady`: without a tunnel and with no transport reported up it is
ready in the diagram (`HybridTopology.tsx:266`) and pending in the matrix
(`NetworkOverview.tsx:158`). Not compared is the tunnel's name: the matrix prefers the
TransportLink's, the diagram the gateway's own.

What the create button lets through is refused for `Unchecked` of `CreateForms`, and
for nothing else (`SubmittedIsValid` says both). The button asks for a name only: the
handlers want one of `NAME_PATTERN`, the API server one of its own. It takes spaces for
a text (Entity's description, CloudOSO's project and domain, a Vault path, a VM's name),
a `cloudRef` with a dot, an environment picked for a type that was changed since, any
billing ID, a Persona type of the form's list that the CRD lacks, a size that is a
fraction; of the network and platform kinds it checks no length, no bound but an
overlay MTU's, no address, and not that a namespace or node set is given once.

Met while modelling, without a run of their own:

- Migrated networks: `status.fabric` still names the old fabric, so that a
  provision there allocates again, and a deletion releases nothing in the new one.
- WireGuard: an address of a spec equal to one in the ledger is not reported
  (`docs/concepts/fabric-design.md:1165`); a list older than the ledger drops or keeps
  entries until the next job; errors of `plan_allocate` do not fail the run.
- CIDRs: `allowConflict` is not passed to the planner, so an allowed explicit
  conflict is moved by the next run; crossing jobs may pick one block and both move
  again.
- Export: "lists every hybridsovereign kind" (lab-10) but `WATCHED_KINDS` has fewer;
  "removed as an orphan on the next pass" fails after a restart or a failed delete;
  the clone never pulls.
- Servers: `createTeam` drops `teamMemberRbac` and `teamViewerRbac` of the form;
  `updateAssignment` drops finalizers and `toolRbac`; the lists of AAPOrg and QuayOrg
  that a submission lacks are wiped, those of VaultKV cannot be emptied; a write
  given up with 502 may undo a later save. The raw proxy parses only
  `application/json`, so merge patches lose their body.
- Forms: a HybridNetwork without `fabricRef` is created when the list of fabrics is
  late; the bounds of a fabric's pool and a fractional MTU are left to the API; a
  Secret remains after a failed create and blocks the retry with 409.
- Overviews: a Refresh does not reach a tenant's topology; ports are ordered by the
  final target and not by lane; the matrix merges two placements of a network on
  one backend and may show one the diagram calls absent; a failed list is silent.

## 4. What is proved

TLAPS checks the following for every value of the constants, with one step per
action in each invariance proof. The assumptions on constants are the named
`ASSUME`s of the modules, which TLC evaluates in the runs.

**`VniLedgerProofs`**: `TypeCorrect`, `VnisAreUnique`, `TrueReports`,
`LedgerImplementsAllocator`, `ExhaustionIsTrue` (`ExhaustedMeansFull`). Uniqueness is
not inductive: `Put` writes a copy, not the ledger. The invariant adds what a script
may rely on between GET and PUT: a copy whose version is the stored one *is* the stored
ledger (`ReadIsStored`), and the number to write is free in that copy. The refinement
follows: an accepted PUT is an abstract `Allocate` or `Release`, every other step a
stutter. That the scan misses no free number is a fact about `Choice` alone
(`NoChoiceIsFull`).

**`KindReconcileProofs`**: `TypeCorrect`; `GenerationTracked`, from the facts a run
carries: what it read of the tracked job stays true, because only the run changes
`status.aapJob`, and the job about to be tracked was launched for the generation
read; `FinalizerHeld`, assuming `~ ShowsNew` (else 3.3): a run reaches `release`, and
the resource says `deletionComplete`, only after a teardown playbook reported it,
and no job state of a deleting run falls through the launch table. `NowOncePerSet`
(`ReconcileNowOncePerSet`): a forced launch is counted when it happens but decided
earlier, so `NInv` counts the run's claim to one and the annotation still set along with
it, against the times it was set. `NoJobEscapes` (`NoUntrackedJob`) and
`EndedMeansApplied` (`EndsOnlyWhenApplied`), both assuming `~ ShowsNew`, since such a job
matches no row of the table: `UInv` says what a run that decides knows of the job it may
forget (`RunKnows`), `EInv` that `status.ready` is the tracked job's own report
(`ReadyIsReported`), and that no playbook reads an older generation than its job was
launched for (`JobsFit`).

**`HybridNetworksProofs`**, without assumptions but `PoolAssumption`: `TypeCorrect`;
`StatusIsRecorded`; `NumbersGivenBack`; `PlacedKeepNumbers`; `VnisStayUnique`: no two
networks hold one number in a ledger, whatever migrations overwrite. The fabrics,
their pools (overlapping or not), the failures, overlaps, edits, late placements and
migrations are any. The inductive invariant joins what a job may rely on between two
steps (`JobsApart`: jobs that work on one resource are known to overlap; `JobsKnow`:
what they read and nobody changed), what stands behind a
number that a status reports or a provision is about to report (`Backed`: a ledger that
is not about to be deleted), and who answers for a number a ledger holds (`Accounted`:
the status, or the job about to write it). `NetSteps` and `OtherSteps` say once how each
variable may change, so that the arguments split on these changes and not on all the
actions.

**`WireGuardProofs`**: `TypeCorrect`, `AddressesDistinct`, `EntriesKept`, `ListsServed`
(`ListIsServed`). A PUT writes
what was planned from a copy read earlier, so distinctness is not inductive. The
invariant adds `PlanIsFresh`: a script whose PUT can still succeed has planned its new
map from the ledger as it is and its own list; a write therefore changes an entry only
as that list demands. That a plan is distinct rests on lemmas about `NextHosts`:
wanting gateways have different ranks, and ranks map to different unused hosts. That a
gateway goes without only when nothing is left needs the converse too: every rank is
taken, so that fewer hosts than gateways means that each host is (`RankOnto`,
`NoneLeft`).

**`ClusterCidrsProofs`**: `TypeCorrect`, `PassedNetworksDisjoint`,
`RecordsMoveOnlyOnClash`. A job writes what it planned from earlier reads, so the
invariant adds what these are still worth. `JobsSee`: a peer's network is among those
listed, unless the peer counts as unseen. `JobsRecorded`: the record a job plans from
is the one it replaces, since no other job writes it.

**`IaacSyncProofs`**: `TypeCorrect`, `FilesTracked` (`FilesAreTracked`),
`ReadyMirrored` (`ReadyIsMirrored`), for any resources and kinds and any number of
changes, failed calls and restarts. What a pass reports is the outcome of many steps.
The invariant therefore says what each listed resource has become so far (`PassKnows`:
yet to be written, written as it still is, or not there), which files the pass has yet
to remove (`Cleans`), and that a clone which can still push holds what the branch holds
(`CloneIsOld`), so that its push brings back only files the branch does not have.

**`DashboardWritesProofs`** is about `ResourceEdits` and `CreateForms`, whose proofs share
the handlers of `ServerSpecs`. Of the edits: `TypeCorrect`, `NothingIsOrphaned` (`NoOrphans`),
`RepliesTrue` (`RepliesAreTrue`), `TheRestIsKept` (`EditsKeepTheRest`), for any kinds,
any number of sessions and of requests carried out late. A PUT writes what was read at
an earlier step, perhaps long after the browser gave it up. The invariant adds what
makes it harmless (`RequestFits`): while the resource has the version the PUT carries,
its metadata is the PUT's and so are the fields the handler is not about; a new version
is one no request carries. Under it are lemmas on every handler of `ServerSpecs`: a
create handler builds a spec of its kind, an update handler changes its own fields only
(`TenancySpecs`, ..., `UpdatedSpecs`).

Of the forms: `FormTypeCorrect`, `ChoicesFollowEntity` (`ChoicesBelongToEntity`),
`ButtonIsEnough` (`SubmittedIsValid`), `NothingAskedIsLost` (`AskedIsStored`),
`SecretsComeFirst` (`SecretComesFirst`), for all 22 kinds, any entities and any number of
submissions and failures. An answer is about a spec built at an earlier step, from a form
that may show another entity since. `FormInv` therefore says of each submission under way
that the handler or the schema takes its spec, keeps in it what was asked, and finds the
Secret it names (`Sound`). That submitting establishes this is a lemma on each kind's
form against its handler or schema (`ButtonChecks`, from `TenancyForms`, ...,
`PlatformForms`): what the button requires is enough for what they demand, with the
exceptions `SubmittedIsValid` names.

**`DashboardReadsProofs`** is about `ResourcePages` and `Overview`. Of the pages:
`TypeCorrect`, `SettledPagesAreFresh` (`SettledIsFresh`),
`PicksStay` (`PickedStays`), `EditsTakeEffect` (`EditTakesEffect`), `TheRestStays`
(`RestIsKept`), for every kind with an editor (the run has one for each update method),
any namespaces and any number of acts. A page is fresh because the one fetch whose
answer counts is of the namespace shown and was sent when the page last asked
(`Counts`). The pages stay with the entity picked last because what is picked is always
what sessionStorage holds, and a page that holds something never detects (`PickKept`).
A save keeps the rest because the draft copies the item shown outside the
fields touched, and holds an entry of the field's widget in those (`EditorInv`), which
the request under way inherits (`Holds`); and because of what each route makes of a field
(`SaveEffects`): the draft's entry where the user made one, and what was stored where
the draft agrees with it.

Of the overviews: `OverviewTypeCorrect`, `GraphFaithful` (`GraphIsFaithful`),
`NothingLost` (`NothingIsLost`), `ViewsAlwaysAgree` (`ViewsAgree`), and
`PlatformListsOptional`, for any finite set of resources, any number of tenants and
changes, and any lists lost. The invariant (`OverviewInv`) only says that what a page
holds is of the catalogue: lists of different moments joined by chance make any set at
all, so the theorems are about every set (`AnyGraphIsFaithful`, `AnyGraphLosesNothing`,
`AnyViewsAgree`). `Upstream` and `Ownership` say what an edge may connect, and that a
tenant's resource is linked only within its namespace. Edges lead down because the layers
drawn are those of the kinds, in order and without the empty ones (`LayersAre`); that
leaving out and sorting loses and doubles no node rests on `RankedInOrder`, that the
elements of a finite set with distinct numbers stand each at one place. The views agree
because a placement names one cloud project and there is one of a kind and name in a
namespace; the heads of the columns, which look in no namespace, agree where the
projects of a kind and name are on one site (`SiteIsInTheHead`). `CatalogueAssumption` is what this takes of the cluster: names are unique per
kind and namespace (the API server), a placement names one backend and a gateway a site
(their CRDs), and `status.entity` of a tenant's resource is the entity of its namespace
(the playbooks copy it from the namespace's label). Without the last one `GraphIsFaithful`
fails on the platform's page: a resource would hang below another tenant's entity.

Only model-checked: liveness (`SpecApplied`, `DeletionCompletes`, `ScriptsEnd`,
`EventuallyMirrored`, `ButtonSettles`, `OverviewSettles`), which the prover does not
support under fairness, and `DrawingKeepsGraph`, which is about what folds over the
edges and the sweeps compute and would take induction over that data. Each module
defines its type invariant (`TypeOK`, `FormTypeOK`, `OverviewTypeOK`), and every one of
them is proved. `PageSettles` (`ResourcePages`) can be added to the configuration, where
it holds, and so can `PlatformListsAreOptional` (`Overview`), which is proved.

## 5. Plan of further work

A module for placements and gateways: the gating of an attachment on a ready gateway and
the removal order of a placement. `UniquePerLedger` of `HybridNetworksProofs` as an
invariant of the `networks` run.

## 6. Not modelled, and why

Playbooks that only call third-party services in sequence (tenancy, plugins, clouds,
cluster installation): their control, read, act, report, retry, is the playbook of
`KindReconcile`; the services' behaviour is not in this repository. NetworkPlacement,
CloudGateway and TransportLink appear by what others read of them: a placement's
reference, a gateway's address. Border gateway and route reflector configuration is
recomputed from the resources at every reconcile and pushed to devices. Of the
dashboards: columns, filters, styling, SVG paths, zoom, rate limits, headers, login,
the second cluster the admin server may merge, and routes no page uses. Bootstrap,
GitOps and AAP configuration are declarative. Formatting, messages, logging,
timestamps, conditions and `edaJobs`: no property depends on them.
