# A verification of infisical-entity-operator

TLA+ models of the operator's controllers, the TLC runs that check them on small
instances, and theorems about them that TLAPS proves for every instance.

## The system

The operator is one process (controller-runtime, leader-elected) with seven
controllers, one worker each. Each follows one kind of custom resource and keeps
one kind of entity in Infisical, through a typed HTTP client. A controller has no
memory of its own between two reconciliations: what it knows is the resource's
status, the informer caches, and what Infisical answers.

| component | state | operations | correct when |
|---|---|---|---|
| Connection | Ready condition | validate, build a client, check the API | the condition comes to tell the truth about the connection and its Secret |
| Organization | external id | adopt by id or name, create, read, delete | one organization per resource, Ready only for one the credential sees |
| Project | external id, organization | adopt, create, membership, read, update, delete | one project per resource, inside its organization, as declared, gone with the resource if asked |
| Environment | external ids of environment and project | adopt (restore), create, read, restore, update, delete | one environment per slug, never left soft-deleted while declared |
| Identity | external id, memberships | scope and anchor check, adopt, create, update, membership per binding, delete | memberships only in projects of its organization |
| KubernetesAuth | auth id, identity id | adopt, resolve Secrets, attach, read, update, detach | configuration and token as declared on the identity it names; gone with the resource |
| UniversalAuth | identity, credential id, nonce; the output Secret | attach, update, mint, publish, revoke, recover, detach | the Secret holds a usable credential, rotation loses neither the new nor the old one, nothing is left behind |
| HTTP client | bearer token and its expiry, for one reconciliation | login, request | a token is renewed before it expires |
| shared helpers | none | finalizers, policies, status patch | a finalizer goes only after the remote deletion |

Interactions. Resources refer to each other by name in one namespace
(organization <- project <- environment, identity <- auths; everything ->
connection). A controller reads a dependency's status from its cache and is woken
by its changes; UniversalAuth also writes a Secret that a Connection of another
operator may read. Users edit and delete resources, administrators change
Infisical, the garbage collector removes owned Secrets.

What is hard. Every reconciliation is a sequence of remote calls with no
transaction around it: it can fail, time out after the effect, or stop between
any two of them. It starts from caches that may be old, its status patch has no
resource version while its finalizer update has one, and the resource may be
edited or deleted meanwhile. `PROJECT.json` lists these hazards, each at its line.

## Modules

| module | models |
|---|---|
| `WatchedObject` | external: an object of the API server and the informer cache behind it, with writes that arrive in order and late |
| `Controller` | `common.go`: policies, the status merge patch, the error path, the finalizer update; the bounded faults and outside actions all controllers share |
| `UniversalAuth` | `infisicaluniversalauth_controller.go` and its client calls, with the output Secret |
| `CredentialRotation` | abstract: what `UniversalAuth` promises to whoever consumes its output Secret |
| `Project` | `infisicalproject_controller.go` and its client calls, with the creator's membership |
| `Identity` | `infisicalidentity_controller.go` and its client calls, both scopes, one step per membership call |
| `Environment` | `infisicalenvironment_controller.go` and its client calls, with soft deletion |
| `KubernetesAuth` | `infisicalkubernetesauth_controller.go` and its client calls, with the referenced Secret |
| `Organization` | `infisicalorganization_controller.go` and `organizations.go`, with user and machine tokens |
| `Connection` | `infisicalconnection_controller.go`, `infisicalClientForConnection` and the token cache of `client.go`, for the connection's own check and for its consumers |
| `MCUniversalAuth`, `MCProject`, `MCIdentity` | symmetry for TLC; which project belongs to which organization |
| `ControllerProofs` | lemmas about `Controller` and `WatchedObject` that the proofs of every controller use |
| `UniversalAuthProofs`, `ProjectProofs`, `IdentityProofs`, `EnvironmentProofs`, `KubernetesAuthProofs`, `OrganizationProofs`, `ConnectionProofs` | the theorems about the module of that name |

How a controller is modelled. One resource is followed through one lifetime. `pc`
is the call the reconciliation is about to make (`Idle` between two), `mem` its
local variables: the spec and status it read (`before`), the status it builds,
and `current`, whether its copy is still the stored version. An action is one
call to Infisical, with its possible answers, and the local code up to the next
call. Each call may also be rejected, or carried out with its answer lost, within
`MaxFaults`. `ReturnError` is the code's error path: its snapshot is taken late,
so the patch carries the condition and nothing else. `PersistReady` patches from
the early snapshot. The finalizer is removed only if the copy read is still the
stored one. `Disturb` actions are users, administrators and other controllers.

`CredentialRotation` has no caches, calls, failures or restarts: credentials are
published, recorded, retired, and the Secret may be withdrawn. `UniversalAuth`
implements it under the mapping `published <- secret.credential`,
`recorded <- api.status.credential`, `known` = the credentials with the
bookkeeping bit `published`, `retired` = those in state `RotatedOut`. Most of the
controller's steps are stutters there.

Bookkeeping that the code does not have, used by properties only: `nonce` and
`published` of a credential, the state `RotatedOut` (revoked by a rotation, as
opposed to `Removed`), `creator` of a project or an identity.

Abstractions. The auth, identity and client ids of a Universal Auth status are set
and cleared together and are one field; a configuration is one value and is always
declared; the identity a name resolves to changes only through the spec; the name
of the output Secret is fixed, its data and its annotation are written together,
and a Secret that exists beforehand has another owner. `FindProject` is one step
although it makes two reads. Project types and observed environments are left out. Slugs are
unique among the projects of Infisical. A membership call for a project that is
gone is answered "not found", as the client's own code expects of a missing
membership.
An identity's specs are those that the CRD and `validateIdentitySpec` admit; its
fields other than the name are one value; the roles of a membership are one value,
`OtherRoles` standing for whatever no spec declares; the bindings may come in any
order; a created project identity may or may not be a member of its project at
once; its Ready condition carries the generation, that of a failure does not. What
a project's `organizationRef` resolves to is state of its own: it is read anew by
every reconciliation, may change to another id or to none at any moment, and a
project never moves to another organization. An
environment's name and position are one value and it always declares its slug, so
that the slug is immutable; a soft-deleted environment is found by id and by slug
and holds its slug until it is purged. In `KubernetesAuth` the fields that come from no Secret are one value and are
always declared, so that drift of an omitted field does not count; the CA and the
reviewer Secret are one; specs are those that `validateKubernetesAuthSpec` admits,
and the comma-separated lists are sets in both places. In `Organization` the
endpoints that `FindOrganization` asks one after the other are one step, with one
fault for "the weaker check failed"; name and slug in the status are display only;
`goneAnswer` lets Infisical answer a user who asks for a deleted organization with
404 or 403, since the code handles the two differently. In `Connection` the
validity of a spec is one bit, a client and a client secret belong together when
they were read from the same content of the Secret, and time is counted in ticks:
it passes between calls freely, inside a call as a fault (`slow`), up to `Timeout`
in a login; `MaxOverdue` bounds how long an expired token is followed and
`MaxCalls` the calls of a reconciliation. The conversion of `expiresIn` from a
float is exact. Messages, the Reconciling and Stalled
conditions, transition times and all other generations are left out.

## Runs

Passing runs:

| run | question | instance |
|---|---|---|
| `UA_faults` | credential safety, deletion, and that `UniversalAuth` implements `CredentialRotation`; what is left behind where nothing failed | 3 credentials, 2 nonces, drift, all policies, any 1 fault, any 2 outside actions |
| `UA_liveness` | recovery and deletion under fairness | any 2 faults, any 1 outside action, revocation included |
| `P_faults` | one project, the organization boundary, deletion | unbound, bound or bound late; a resolution that changes among 2 organizations and none; `Adopt` and `CreateOrAdopt`, slugs, 3 ids, drift, any 2 faults, 2 outside actions |
| `P_liveness` | convergence and deletion under fairness | unbound, bound or bound late; a changing organization, drift, emptied descriptions, delete protection, any 1 fault, 2 outside actions |
| `I_faults` | one identity per owner, grants, what Ready means, deletion | both scopes, 2 project references, 3 projects of 2 organizations, 3 ids, 2 faults (lost answers, crashes, stale reads), 2 outside actions (edits, deletion, removal, lost dependencies); a project reference may change project, not organization |
| `I_liveness` | convergence of identity and memberships, deletion, stale reads included | drift of fields and roles, delete protection, 1 fault, 1 outside action |
| `E_all` | the pair of ids, deletion, restoration and replacement | `Adopt` and `CreateOrAdopt`, 4 ids, 2 projects, any 1 fault, stale reads included, 2 outside actions |
| `K_all` | the pair of ids, deletion, convergence of configuration and token | `Adopt` and `CreateOrAdopt`, 4 ids, 2 identities, 2 tokens, drift, any 1 fault, stale reads included, 2 outside actions |
| `O_all` | one organization, an honest Ready, deletion | all creation policies, 3 ids, both kinds of token and every set of accessible organizations, 1 fault, 2 outside actions |
| `C_all` | the token cache, an honest Ready | lifetimes 1, 2 and 5 with a skew of 2 and a timeout of 3 ticks, 3 calls, 2 credentials, 2 faults (slow ones too), 2 outside actions |

One or two faults and two outside actions are what the hazards need: each of them
is a failure, a retry that meets its leftovers, and an edit or a deletion in
between. The lifetimes of `C_all` lie below, at and above the skew, and the
timeout above it, so that a login can be too slow.
The ids are as many as those bounds can consume, so a refused creation for want of
ids does not hide a behaviour in the liveness runs. Ids are symmetric in the
safety runs except those `Init` tells apart, and in `I_faults` so are the two
projects of one organization, which every reference treats alike; liveness runs use
no symmetry. `I_faults` leaves the rejected calls to `I_liveness` and to the proofs:
a rejection is the lost answer without its effect.
Deadlock is not checked: once the resource is gone and the bounds are used up,
nothing is left to do.

Disagreements between code and documentation, each a run that TLC refutes
(`PROJECT.json`, findings, quotes the documents):

| run | what happens |
|---|---|
| `P_vanished` | a bound project that vanished is never replaced |
| `I_recheck` | the bound projects are read again after their organization was checked; one that is made again in between is granted outside the organization |

The passing properties are the same or neighbouring statements under the
assumption each of these breaks: a project that is unbound or has not vanished
(`P_liveness`), project references that stay in their organization (`I_faults`).

Some passing properties hold but for a case that the code does not handle. The case
is part of the model, and the property names it instead of being stated where it
cannot occur:

| property | but for |
|---|---|
| `EventuallyHealthy` (Universal Auth) | `Overlooked`: a rotation published a credential and failed before it was recorded; only the recorded one is verified, so that nobody notices when the published one is revoked; and a Secret that another owner has claimed |
| `RecordedInsideBoundary` (project) | Ready, unlike the id, patched beside a project recorded meanwhile, by a reconciliation that was overtaken |
| `OutsideIsUntouched` (project) | the project recorded before, once the binding was set late or the organization changed: it gets its administrator before it is checked, and its deletion asks for no organization |
| `EventuallyAsDeclared` (project) | an emptied description, which the patch leaves out; a bound project that vanished; a project outside its organization, which ends as a mismatch |
| `RecordsTogether` (environment, Kubernetes Auth) | the last patch of a reconciliation that was overtaken: the stored ids are no longer those it started from, and it sends one id and not the other |
| `DeletionDeletesRecorded`, `DeletionDetachesRecorded` (the same two) | a record torn apart in that way and not mended before the deletion |
| `ReadyHonest` (identity) | the last patch of a reconciliation that was overtaken: Ready without the identity it is about |
| `CachedTokenIsLive` (client) | the time by which a login took longer than the reserve |

The runs contain these cases, but for two: Ready beside another project takes four
stale reads in a row while the organization changes and changes back, and Ready
beside another identity the policy `Create` with two stale reads and an edit. TLC
refutes either property without its exception on such instances, and the theorems
(`RecordSafe`, `ReadySafe`) say that there is no other case.

Other divergences, which the models contain and no run is spent on. Universal
Auth: a call that fails after the attachment makes the controller forget the
identity, and a resource deleted then leaves the attachment behind, although
`deletionPolicy: Delete` promises to ask Infisical for the deletion
(`docs/reference/deletion-and-ownership.md:17`; `DeleteLeavesNothing` is therefore
stated for the case without failed calls, and for a controller whose last word was
not an error: an edit, a lost dependency and a deletion, three outside actions, are
enough to end on an error with the attachment unrecorded, without any failed call);
a credential minted for a Secret that was taken over is live and published nowhere
(`NoStrayCredential` speaks of published ones); `identityRef` can be edited, the old
attachment and its credentials stay, and if it is edited back with another nonce in
between, the old credential is recovered by its annotation and recorded under the
new nonce (`RotationHonoured` is false with two identities, and the runs have one); a failed revocation
leaks the replacement published before it; recovering a credential by its
annotation, after a crash, records the nonce of the current spec without minting
(`RotationHonoured` is stated for runs in which nothing failed, and does not see
this); a credential in the Secret that is not the one in the status is never
verified, and may be revoked while the resource is Ready for ever (`Overlooked`); a
blocked deletion leaves `Ready=True`. Project: under `Create`, a token of another
organization creates a project at every retry; an emptied description is left out of
the patch and never emptied (`projects.go:63`), against "patch mutable fields when
they drift"; a project recorded before the binding was set, or before the
InfisicalOrganization came to show another id, gets its administrator before the
organization is checked (lines 115 and 133), and is deleted with its resource without
any check. Identity and environment: under `Create`, an entity whose
creation was carried out but not recorded is created again (identity) or refused
at every retry (environment, whose slug is taken). Environment: the clearing of a
vanished environment keeps the project id (`infisicalenvironment_controller.go:116`),
so a reconciliation from a stale cache, after the project reference went from A to
B and back, patches the environment id of A beside the project id of B; a deletion
then addresses the wrong project. Kubernetes Auth keeps the identity id in the same
way (`infisicalkubernetesauth_controller.go:120`). This is the one exception of
`RecordsTogether`. The identity controller clears both ids, and its pair is safe with
a stale cache too (`RecordedAtHome`, `RecordsSafe` below). Its Ready condition,
however, can be patched from a stale copy beside another identity's id, the
exception of `ReadyHonest`, which needs the policy `Create`; and an administrator may
change a membership after it was set, which the next reconciliation mends:
`ReadyHonest` is checked without such changes, `EventuallyAsDeclared` with them. Two
bindings whose references show one project are granted one after the other, and the
later one stays; in the runs different references show different projects. The auth
id of Kubernetes Auth, which the type calls
immutable, is replaced silently by whatever is attached to the identity.
Organization: with a user token, an organization that is deleted and answered with
404 is reported as `ExternalReadFailed` for ever and its id is never cleared
(`docs/architecture.md:24`; `Stuck` in `Organization`), and answered with 403 it
blocks the deletion of the resource (`Undeletable`); with `CreateOrAdopt` and an
explicit `organizationID` that the credential does not see, another organization is
created, reported Ready once, and then mismatches for ever, and every lost answer
of that creation makes one more; a membership check that fails for any reason
clears the recorded id until the next reconciliation. Connection: resources do not
look at the Ready condition of their connection, although they are said to "wait
until it is ready" (`docs/crds/infisical-connection.md:3`): they build a client and
find out; a login that takes longer than the skew, which a `requestTimeout` above
30 seconds or a lifetime of at most 30 seconds allows, leaves a token that expires
before it is renewed, against the comment in `client.go:219`: the reserve (`Reserve`)
covers logins up to its own length, and `CachedTokenIsLive` says by how much it falls
short of longer ones.

Fairness. Weak fairness of the controller as a whole: `SetupWithManager` filters
no events, an error is requeued with backoff or after `retryFor`, a success after
`driftDetectionEvery`, and every call has a timeout. Weak fairness of each cache:
a watch delivers or is re-listed. Weak fairness of `RestoreDependency`: a
dependency that is lost comes back. In `Connection` one reconciliation runs at a
time, the connection's own or a consumer's, so the start of the former is given
strong fairness: in the program it has a worker of its own and consumers cannot
keep it waiting. Nothing is assumed of users, administrators or
faults, which are bounded in number.

## Proofs

For all values of the constants satisfying the `ASSUME`s of the modules, that is for
any number of identities, credentials, faults and outside actions:

`UniversalAuth`:

- `TypeCorrect`: `Spec => []TypeOK` (not in a run: it is proved).
- `RotationSafe`: `Spec => []PublishedNotRotatedOut`. Alone it is not inductive: a
  credential could be in flight to the Secret, or be the one about to be revoked.
  `RotationInvariant` adds what holds at `publish` (the minted credential was not
  rotated out) and at `revoke` (the Secret does not hold the recorded one).
- `RecordedSafe`: `Spec => []RecordedWasPublished`. An id travels from the Secret
  through its cache into memory, and from the status through its cache back:
  `PublicationInvariant` says it of every copy, and that a fresh id is unpublished.
- `DeletionSafe`: `Spec => DeletionDetachesRecorded`. `DeletionInvariant` says that
  the newest version is the stored one, that a current copy equals it, and that
  the identity is detached when the finalizer is about to go.
- `RotationImplemented`: `Spec => ImplementsRotation`. The initial states map to
  initial states. Only `PublishSecret` makes a credential known and only
  `RevokePrevious` retires one (`OthersKeepCredentials`); the first is a `Publish`
  because the minted credential was not rotated out, the second a `Retire` because
  the Secret does not hold it (`RotationInvariant`); everything else withdraws the
  Secret, records a published credential (`PublicationInvariant`), or stutters.
- `AlwaysConsistent`: the abstract specification keeps the published credential out
  of the retired ones and records only what was published. `ConsumerSafe`:
  `Spec => []Rotation!Consistent`, which the controller inherits.
- `HonouredSafe`: `Spec => []RotationHonoured`, and `NoneStray`:
  `Spec => []NoStrayCredential`, for `IdentityStays`: `identityRef` resolves to one
  external identity (two refute the first, see the divergences). Both speak of runs
  without a failed call, a crash or a stale read, but with any number of outside
  actions, and both need to know what the running reconciliation holds:
  `QuietInvariant` says that its snapshot is the stored status (nobody else writes
  it), that until it persists it has not touched what the status says of
  credentials (`RunFollows`), that the live published credentials are the recorded
  one and, between the publication and the revocation, the minted one
  (`LiveTracked`), and which of them the Secret holds (`HeldTracked`). So the
  recovery by annotation never finds a live credential there, a cleared status
  forgets none, because credentials die with their attachment
  (`AttachedInvariant`), and every revocation reaches the one it names.
- `NothingLeft`: `Spec => []DeleteLeavesNothing`, for `IdentityStays` and nothing
  attached beforehand (what is adopted is somebody else's until it is recorded).
  `RecordedInvariant`: with nothing recorded and no error reported, nothing is
  attached, unless the reconciliation is between the attachment and the record; it
  uses the two invariants above, `DeletionInvariant`, and that a resource that is
  gone does not change again (`GoneInvariant`).

`Project`:

- `TypeCorrect`. By itself `TypeOK` is not inductive, because a call that names no
  project is not defined; `Typed` adds that, but for `adopt` and `create`, a
  reconciliation knows its project.
- `RecordSafe`: `Spec => RecordedInsideBoundary`, and `OutsideSafe`:
  `Spec => OutsideIsUntouched`, without assumptions: the organization may change at any
  moment, the binding may be set late, and reads may be stale. Both speak of the
  organization that the reconciliation itself resolved (`mem.expected`), since what
  was recorded under another one may lie outside by now. `BoundaryInvariant`: until it
  has checked it, a reconciliation works on the project recorded before or on one
  that is inside; from the check to the last patch it is inside; a deletion works on
  what was recorded. It rests on a project keeping its organization (`CheckedStays`).
- `DeletionSafe`: `Spec => DeletionDeletesRecorded`, stale reads and late edits
  included: the update that removes the finalizer carries the version read.

- `ProjectSafe`: `Spec => []OneProject`, for `LooksFirst` (no policy `Create`) and
  `OneName` (edits do not change the name, by which a forgotten project is found).
  `UniqueInvariant`: the operator has at most one project, it has a declared name,
  and at `create` it has none. The count in the property comes from the library's
  theorems about finite sets.

`Identity`:

- `TypeCorrect`.
- `RecordsSafe`: `Spec => []RecordedAtHome`, and `DeletionSafe`:
  `Spec => DeletionDeletesRecorded`, without assumptions: this controller writes and
  clears the identity and its owner together, so every copy of the status holds a
  pair that belongs together, stale ones included.
- `GrantsSafe`: `Spec => GrantsInside`, for `ReferencesStay`: the projects that one
  reference may show are of one organization. `I_recheck` shows that it is needed.
  `GrantInvariant`: the check at the start of a reconciliation binds every later
  membership call to the organization found then.
- `IdentitySafe`: `Spec => []OneIdentity`, for `LooksFirst` and `OneName` as in
  `Project`, per owner.
- `ReadySafe`: `Spec => ReadyHonest`, stale reads included, for `NoDrift` (nobody else
  changes an identity's fields or memberships, which only the next reconciliation
  would notice) and `DistinctProjects` (two references show different projects).
  `OrderInvariant` orders the versions from the cached to the stored one by
  generation, with one spec for each; so, by `RunInvariant`, however stale the copy
  that a reconciliation reads, the stored condition is of no later generation than
  it. `WorkInvariant` follows the bindings one by one: those not waiting for their
  turn are in force.

`KubernetesAuth`:

- `TypeCorrect`.
- `RecordsSafe`: `Spec => RecordsTogether`, and `DeletionSafe`:
  `Spec => DeletionDetachesRecorded`, without assumptions, stale caches included.
  `NamesInvariant`: every id in any copy of the status is one that was used, and a
  method keeps the identity it was attached to; so clearing, failing and patching
  leave a pair as it was unless one id is replaced. `RecordInvariant`: a copy that is
  still current has the stored ids, and the pair that the last patch sends was
  observed together; so that patch can tear a pair apart only where the stored ids
  are no longer those it started from, which is `Overtaken`. A deletion works on what
  it read, and removes the finalizer only with the version that it read.

`Environment`:

- `TypeCorrect`, with `Typed` as in `Project`.
- `RecordsSafe`: `Spec => RecordsTogether`, and `DeletionSafe`:
  `Spec => DeletionDeletesRecorded`, by the same argument as in `KubernetesAuth`: the
  clearing keeps the project id here. Nobody but the controller brings an environment
  back (`RemoteSteps`), so what it deleted is still deleted when it removes the
  finalizer.

`Organization`:

- `TypeCorrect`.
- `DeletionSafe`: `Spec => DeletionDeletesRecorded`, by the version carried with the
  finalizer, whatever credential the connection has by then.
- `OrganizationSafe`: `Spec => []OneOrganization`. `MadeInvariant`: as long as nobody
  interferes, every copy of the resource declares what the stored one does, what was
  made is found by that name, and at `create` nothing was made.

`Connection`:

- `CachedTokensAreLive` (`ConnectionProofs`): `Spec => []CachedTokenIsLive` for every
  set of integer lifetimes, zero and negative ones included, every skew and timeout.
  `TokenInvariant`: while an answer is awaited the token is as old as the answer is
  late, and once it is held the two clocks keep their distance, the skew less the
  latency.

Each proof is `Init => Inv`, then one lemma per action or group of actions, then the
temporal step. Every safety invariant and action property of the passing runs is
stated by a theorem; the runs check the same properties on their instances. The
inductive invariants were model-checked before they were proved, those of the last
three theorems of `UniversalAuth` with three outside actions, which is where the
weaker forms of the properties above broke. Only model-checked: liveness under
fairness, which is beyond the prover.

## Not modelled

- A composition of the controllers, in which a dependency's status is another
  model's instead of a set of ids it may show: each model lets its dependencies
  show any admissible id at any time, which is more than the others can do, and the
  product of two of them is out of TLC's reach at useful bounds.
- Two resources of one kind that compete for the same external entity, and one
  resource deleted and made again under its name: one resource is followed through
  one lifetime.
- The validation helpers (`validateKubernetesAuthSpec` and the like), the
  comma-separated lists, role helpers and messages: pure functions of one spec with
  table tests of their own; the models start from the specs they admit.
- Pagination, encoding and transport of the HTTP client; overflow of `expiresIn`
  when it is converted to a duration.
- Two concurrent calls on one client: a client belongs to one reconciliation, which
  makes its calls one after the other, and the mutex in `bearerToken` is never
  contended.
- Manifests, the chart, generated deep copies, scripts, the manager's flags,
  metrics and probes. They hold no state that the properties are about.

What could be proved next: the refinements of a common abstract specification by
`Project`, `Identity` and `Environment` (an external entity that is acquired,
recorded and released), and `ReadyHonest` with drift, for what the last
reconciliation saw.
