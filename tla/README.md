# Verification of the Harbor secrets engine

TLA+ models of `vault-plugin-secrets-harbor`, a Vault secrets engine that
issues short-lived Harbor robot accounts, and of the GitHub Action that uses it.
TLC checks the models on small instances; TLAPS proves every safety property that
the passing runs check for every instance, some under hypotheses named below.
`PROJECT.json` maps each definition to the lines it models.

## The system

| Component | State it keeps | Operations | What makes it correct |
|---|---|---|---|
| Dynamic credentials (`path_creds.go`, `secret_robot.go` revoke) | WAL entries in Vault's storage; robots in Harbor; leases in Vault | read `creds/<role>`, `walRollback`, revoke | no robot without an entry or a lease; no lease without its robot; orphans and ended leases lose their robots |
| Lease lifetime (`secret_robot.go` renew, `duration.go`) | issue and expiry of the lease, `expires_at` kept with it; creation time and duration of the robot | issue, renew | the robot's expiry covers the lease |
| Configuration and client cache (`path_config.go`, `backend.go`) | the stored `config`; the cached client under `clientMu` | write, delete, `getClient`, `resetClient` | the cache matches the store |
| Root rotation (`path_config.go`) | password and pending password; Harbor's user password | `rotate-root`, settling | the store always has the password Harbor accepts |
| Roles (`path_roles.go`), naming (`naming.go`) | stored roles; none | write, delete, validate; make a name | Harbor accepts what validation accepts, under the name the engine makes |
| Harbor client (`internal/harbor`) | none | one HTTP call per operation, with a timeout; the search for a robot by its short name | errors are told apart: 404, 401/403, the rest; the search finds the robot and no other |
| GitHub Action (`action/src`) | the runner's saved state; Docker's login | main step, post step | what the main step obtained the post step undoes |
| Plugin entry point, version | none | serve | not modelled |

Requests to the engine run concurrently.  They meet in Vault's storage (the
`config` entry, WAL entries), in `clientMu` and in Harbor.  Vault calls back:
the rollback manager runs `walRollback` over the entries older than
`WALRollbackMinAge`, the lease manager renews and revokes, and `Invalidate` drops
the client when another node writes `config`.  The action talks to the engine only through
Vault's API.

The hard behaviours: a Harbor call that errs although Harbor served it; a crash
between any two steps; storage calls that fail after doing their work; the
rollback running next to the request it is to clean up for; config writes that
do not take `clientMu`; durations in days against leases in seconds, counted
from different instants; a WAL entry that must lead back to its robot after the
role, the project and the credential have changed; a job cancelled between obtaining something and
recording it.  `PROJECT.json` lists each of them at its line, with the
properties that watch it.

## The modules

**RobotIssuance** models `pathCredsRead`, `walRollback` and
`secretRobotRevoke`.  A request makes at most one robot under a random name, so
robot, entry and lease are named by the request.  `pc` is the statement a handler
is at; there is one action per storage or Harbor call.  `CreateRobot`,
where the effect and the answer matter apart, is three: `SendCreate`,
`HarborCreates`, `CreateReply` (or `LoseCreateReply`).  A deletion that errs may have been carried out.
`rollback` is the pass of the rollback manager, one entry at a time.  Robots
have the numeric ids Harbor counts up, because revocation addresses them by id
at whatever Harbor is configured by then.  `age` counts ticks up to `MinAge`.
Four faults are switched on by `Faults`: `lost_reply`, `late_crash` (the process
dies between `DeleteWAL` and the registration of the lease), `ambiguous_delete`
(`DeleteWAL` errs after deleting) and `reconfigure`.  The history variable
`faulted` collects the requests a fault has struck, so that the properties say
exactly what the faults cost, and nothing more is excused.

**RobotCustody** is the abstract promise: a robot is pending, then handed out
or discarded, never both; a leased robot goes only after its lease ended; none
comes back.  `RobotIssuance!KeepsCustody` is the refinement, through `custody`.

**RobotNaming** has the pure part of `naming.go` and of `client.go`: how a role
name and a prefix become a short name (`robotName`), what Harbor makes of it
(`FullName`), how the engine gets it back (`ShortName`), and the fuzzy match of
a listing.  A string is a sequence of characters.

**RobotAccess** puts Harbor's answers in the place of RobotIssuance's "Harbor makes
the robot or refuses".  It models `pathRoleWrite` with its partial updates,
`validateRole`, `pathRoleDelete`, one read of `creds/<role>` with its WAL entry,
its revocation, and `walRollback` through `FindRobotByShortName` step by step:
the project, one page of the listing, the match, the deletion.  Harbor's rules
are those of the fake server of the tests (`harbortest/server.go`), which states
what this code counts on: well-formed requests, who may create, list and delete
where, names already taken.  Meanwhile roles are rewritten, projects deleted and
made again, robots with names that ours is part of (`Copies`, before it or behind)
are made or deleted; revocation and rollback use any of the credentials.
`rollback.cut` records a page that left something out.  A listing may also match
the project's own name in front of a short name; that is left out, since it only adds
robots that the comparison of short names then passes over.

**RootRotation** models `getClient`, `pathRotateRoot`,
`settlePendingRotation`, `pathConfigWrite`, `pathConfigDelete` and
`resetClient`.  A configuration is the pair of its passwords; passwords are
numbers, and one that nobody has any more may be generated again, so that a
behaviour has any number of rotations.  A holder of `clientMu` goes through
`ReadConfig`, the settling steps, then either `Build` or the phases of the
rotation, and may return from each of them.  A password change whose caller gave
up stays in `late` and may be served at any later time.  The faults are
`lost_reply` (of the password change), `config_race` (a write or delete between
the read and the put of a lock holder, or the other way round) and `lost_put` (a
config put or delete that is reported as failed but was carried out).  The
history variable `struck` collects those that happened, so that each property
names the faults that excuse it.  The operator of a write gives the password in
force or omits it; `Writes` says which of the two an instance has.  `harbor.New` cannot fail for a stored configuration, since
the write that stored it built a client from it, so that return is left out.

**LeaseRenewal** models the times of one lease: what issuance fixes, what
`secretRobotRenew` and `capRenewToRobot` make of it, and what Vault then grants.
There is one clock; `Day` is two ticks, so that lifetimes fall on and off whole
days.  The role may be rewritten or deleted, the robot deleted in Harbor, the lease
ended at any time.  Any number of renewals of the lease (`Renewal`) may be under way
at once: nothing in the engine keeps a client from that.  `issuer` is fixed for a behaviour: `robot` issuers are
always refused an update, `user` issuers only with the fault `update_error`,
which may hide an update that was made.  `Limit` and `Granted` are Vault's
`CalculateTTL`: the increment or the TTL, but nothing beyond MaxTTL *counted from
the issue of the lease*.  The history variable `struck`, which no guard reads, notes
the two ways in which a renewal leaves lease or robot worse than its record
says, `Mishaps`:

- `overlap`: it sets a duration that ends before the robot's present expiry
  while another renewal is under way or has answered since it began (`Cut`);
- `failed_update`: its update is answered with an error, and the expiry it saw is not
  the `expires_at` kept with the lease, so that the lease is capped to another
  life than the record says (`Behind`).

A robot issuer that is refused, a failed update of a robot that the record is right
about, a failed re-read, or renewals that overlap without one shortening the robot
are none of these: the properties excuse the two and nothing else.

**HarborLogin** models the action: the main step, statement by statement where
something is obtained or recorded, the post step, Vault's view of token and
lease, and who is logged in to the registry.  The main step can be cancelled
anywhere, and what it asked of Vault may be served after that.

The `MC*` modules give TLC symmetry sets, and the roles, names and credentials
of an instance.  Each module has its theorems in one beside it:
**RobotIssuanceProofs** (RobotCustody's refinement included),
**RootRotationProofs**, **LeaseRenewalProofs**, **RobotNamingProofs**,
**RobotAccessProofs**, which builds on the naming lemmas, and
**HarborLoginProofs**.

## The runs

| Run | Instance | Result |
|---|---|---|
| `IssuanceSafety` | 2 requests, 2 Harbors, `MinAge` 2, `RequestLimit` 1, all faults, symmetry | safety properties and `IInv` hold |
| `IssuanceProgress` | 2 requests, 1 Harbor, all faults but `reconfigure`, fairness | custody kept; orphans, ended leases and entries go |
| `OrphanAfterLostReply`, `OrphanAfterLateCrash` | 1 request, one fault each | `NoOrphanEver` violated |
| `RobotAccess` | roles of every shape, 2 projects, 5 credentials, 2 robot prefixes of Harbor, names over a small alphabet, pages of 1 | valid roles are accepted but for three named reasons; the rollback finds, may delete and deletes exactly its own robot |
| `Rotation` | 2 requests, 2 passwords in use, all faults, fairness | what each fault costs and no more: the store has the live password, Harbor gets no unpersisted one, the cache matches the store, rotations are settled, the lock is given back |
| `LockoutAfterLostReply` | 1 request, `lost_reply` | `Recoverable` violated |
| `LockoutByWriteRace` | 2 requests, `config_race`, writes omit the password | `RecoverableAtRest` violated |
| `LeaseSafety` | 2 renewals at once, 2 roles, both issuers, failed updates, clock to 6, symmetry | until a mishap the lease is covered up to one `Latency` and caps hold; `expires_at` kept with it is safe until an overlap |
| `CapRefused` | 1 role, never changed | `CappedNotRefused` violated |
| `RobotCutShort` | 1 renewal at a time, 3 roles, increments, `update_error` | `LeaseAlwaysCovered` violated |
| `HarborLogin` | all inputs, cancellation anywhere | what was granted can be ended and is; nothing foreign is touched |

The five runs of safety properties also check `IInv`, the invariant that the
proofs of their module show to be inductive, so that each conjunct of it was
tried on an instance before it was proved.

*Why the bounds are enough.*  Two requests are what the interactions of
issuance take: one whose robot is at stake, and one whose revocation or
rollback might hit it (ids coincide only across two Harbors).  `MinAge` 2 over
`RequestLimit` 1 separates an entry that is young, one at the limit and one
that is old.  Two requests give a rotation or settlement with a config write or another
rotation behind it, before and after a crash; only one at a time holds the lock.
Two passwords are the one in force and a candidate; a rotation
that finds none unused ends where it would generate one (`OutOfPasswords`), so
what the bound leaves out is a rotation while a late change or a writer still
holds a third password.  In `RobotAccess` a segment of two characters is cut
in front of, at and behind a separator, and role names of up to three characters
need no cut, one at the end, or become empty; of the robots with ours in their name
one has more before it and one more behind, and either fills a page of one; the credentials are a system and a project administrator, a robot for one
project, one for everything, and one that may create and nothing else.  A clock
of 6 with days of two ticks lets a lease of the longest role be issued,
renewed past its first robot's expiry and capped.  `LeaseSafety` takes two renewals
at a time, as one needs to come between the read and the update of another; when one
has answered the next may begin, so that a lease sees any number of them.  A role
whose `max_ttl` falls between two days and one that leaves both limits to the
mount make the later of two updates the shorter or the longer one.  Increments would
multiply the instance; to the engine one is another TTL to want, as the roles are,
and the theorems are for all of them.

*Deadlock* is checked in `Rotation`, `RobotAccess` and `IssuanceSafety`, where a
configuration or role can always change.  The others may stop: requests are over, the
clock is at its bound, or the job has ended.

## Fairness

`IssuanceProgress`: a handler that began goes on (weak fairness: its calls have
timeouts), Harbor serves or refuses a request it was sent, and time passes.
Rollback and revocation are strongly fair: Vault runs the rollback every minute
and retries revocations, so a call that keeps being possible succeeds
in the end.  A Harbor that never answers again, or a project that was deleted
(the search for the robot then errs for ever), is outside this assumption.

`Rotation`: handlers go on; requests keep coming (`Lock` for a use);
Go's `RWMutex` starves no waiter, hence strong fairness of the unlocked steps; the
storage and Harbor, asked again and again, answer in the end.  No fairness makes
an operator write or rotate.

## The proofs

The theorems hold for every value of the constants that satisfies the
assumptions of the modules: those say of what kind a constant is, and that its
markers (no entry, no client) are none of the real values.  The bounds
of the runs (`MaxPassword`, `MaxTime`, sets of requests, roles or names) are
constants like the others and may be anything.  Each module defines `IInv`; the
proofs show `Init => IInv`, one lemma per action that it keeps `IInv`, and that
the properties follow.  One hypothesis is not the assumption of a module but
named in the theorems that need it: `Prompt`, of RobotIssuance.

**RobotIssuanceProofs**, for all sets of requests and Harbors, all `MinAge` and
`RequestLimit`, and every choice of faults:

- `Inductive`: `IInv` is an invariant.
- `TypeCorrect`, `NoOrphans`, `SurvivingEntryMeansNoLease`,
  `LeasesMatchRobots`, `RevokedRobotsGone`: the safety invariants follow from it.
- `RunningRobotsKept`: the action property `OnlyCleanupDeletes`.
- `ImplementsCustody`: without `reconfigure`, RobotIssuance implements
  RobotCustody (initial states map to initial states, each step to a step or a
  stutter).

All of them assume `Prompt`, `RequestLimit < MinAge`: the comment "a normal
creds request never takes anywhere near this long" (`backend.go:22`) made
precise.  It is needed in one lemma, `RollbackPickKeeps`: an entry that is old
enough belongs to a request that is over.  With the environment variable that
overrides `WALRollbackMinAge` set below the duration of a request it fails, and
so do the properties: that is the mutant `AnyAge`.

The properties are not inductive as they stand.  `NoOrphan` alone says nothing of
how an entry and a robot came to be; `IInv` adds how the handler's place
fixes the state of its call (`CallFollowsHandler`), its entry and robot
(`EntryFollowsHandler`) and lease (`LeaseFollowsHandler`), what a rollback under
way knows of its entry (`RollbackFollowsHandler`), and that an id names one robot of a
Harbor (`IdsIdentify`), without which a revocation might delete another's robot.

**RootRotationProofs**, for all requests, passwords and faults, without further
hypotheses: the properties name the faults that excuse them.

- `Inductive`, `TypeCorrect`, `HolderExclusive` (`OneHolder`), `CacheAgrees`
  (`CacheMatchesStore`), `NeverLockedOut` (`StaysRecoverable`).
- `CandidateFirst`: the action property `ChangeIsPersisted`.

That the store has the live password is no help unless one knows which of its two
passwords that is wherever a handler is about to drop one.  `CopyTellsStore` says
it for each place of a holder of `clientMu`, together with the copy of the
configuration it works on being the stored one; `HolderAlone` says that no
writer is in between, `NoLateChange` that no change will come that nobody waits
for, `WriterHasLive` that a writer has the password in force.  All four
hold while no fault but `lost_put` has struck (`Sound`), which is exactly what
`StaysRecoverable` excuses.  `CacheFollowsStore` is what makes the cache
inductive: who holds the lock has dropped the client, and what it builds the next
from is stored or about to be reset.

**LeaseRenewalProofs**, for all roles, increments, lengths of a day, latencies, any
set of renewals that overlap in any way and any failed updates, without further
hypotheses:

- `AlwaysInTime`, `TypeCorrect`: a request is as old as `Latency` at most, and a
  renewal asks the robot to last for what Vault will grant; no duration underflows.
- `Inductive`, `KnownExpirySafe` (`KnownIsSafe`): what is kept with the lease, and
  what each renewal under way believes, holds of the robot until an `overlap`.
- `LeasesCovered` (`LeaseCovered`), `CapsHold` (the action property `CapHolds`):
  the lease, and what a capped renewal leaves of it, until either mishap.

What is excused is a step that has happened in the behaviour, not a kind of
instance.  It cannot be less: without either excuse TLC has a counterexample to
`LeaseAlwaysCovered`, in `RobotCutShort` and in `LeaseSafety` without faults (see
below).

The invariant follows each renewal's knowledge.  `RobotLasts` says that the robot
lasts as long as the lease's record, every renewal's copy of it, what a renewal saw
before its update and what it wants after it; `RenewalAsks` that a renewal asks for no
less than it knew, so that in sequence no update ever ends before the record.
`CapsWithin` and `CoveredByKnown` are the same for capped answers and for the lease:
whoever may still change the robot has capped to the record itself, and whoever
capped to anything else can change it no more.
The arithmetic is in lemmas of their own: `DaysCover` (rounding up covers),
`ExtensionReaches` (`durationForExpiry`), `CapResult` (`capRenewToRobot`).

**RobotNamingProofs**, for every alphabet, prefix of Harbor and name:

- `ShortNameBack`: a robot's short name can be read back from its full name if it
  is project-level, or Harbor's prefix ends in `$` or `+`.
- `ShortNameLost`: it cannot if a system-level robot's prefix has neither.
- `JoinedNameIsValid`: whatever the prefix and the name of the role are, the
  segments that survive normalisation and the suffix join to a name Harbor takes.

For the first two: a valid name has no separator, so the last one
in the full name is where the name begins.  For the third, `Collapse` leaves
letters, digits and single dashes, trimming takes the dashes off the ends, before the
cut and again after it, and joining with `-` puts each dash between two of the rest.
`Collapse` is a recursive function over the characters.  The library's induction
theorems cannot be used by the installed provers, so `CollapseIsClean` argues by the
least length for which its claim fails (`LeastMember`), once for the existence of
the recursive function and once for its values.

**RobotAccessProofs**, for all roles, names, projects, credentials, robots named
after ours and sizes of a page, without further hypotheses:

- `Inductive`, `TypeCorrect`, `GuardNeverReached` (`GuardUnreached`, from
  `JoinedNameIsValid`).
- `ValidRolesAccepted`, `CleanupNeverRefused`: what `validateRole` guarantees of
  Harbor's answers.
- `OnlyOwnRobotFound`, `DroppedMeansGone`: what the search of the rollback finds.

A role, a request and its WAL entry may be of different roles by the time of the
rollback.  `RoleValid` says that what was stored and what was read has been
validated; `EntryFollowsHandler` and `RobotsNamed` that the entry and the robot have
the same level and project, and that every robot about is the entry's own or one
named after it.  By `ShortNameBack` the own robot has the name searched for,
by `CopyIsLonger` none of the others has.

**HarborLoginProofs**: `Inductive`, `TypeCorrect`, `LeasesTraceable`
(`LeaseIsTraceable`), `PostCleansUp` (`CleanedUp`) and `ForeignUntouched` (the
action property `ForeignKept`), without hypotheses.  The model is finite and TLC
explores all of it, so what the proofs add is the argument: the order of the records in the
saved state (`SavedInOrder`), what they say of the calls Vault may still serve
(`CallsFollowSaved`) and of Docker (`LoginFollowsDocker`), and what each part of the
post step has undone when it goes on (`UndoneInOrder`).

*Only model-checked.*  Liveness, which is beyond the prover: `OrphanReclaimed`,
`RevocationCompletes`, `EntriesDrain`, `RotationSettles`, `StaleClientGoes`,
`LockFreed`.  The violations are TLC's counterexamples.  That the
operators of RobotNaming mean what `naming.go` computes is stated by their
definitions: the proofs say of `Collapse` and the rest what the
properties need, not that they equal Go's library functions.

## What the checks found

Each of these six is a `violation` run and is quoted under `findings`:

1. A create whose reply is lost drops its WAL entry; the robot is orphaned.
2. A crash after `DeleteWAL` orphans the robot, against the scenario in the
   specification.  The window is short, and the robot's Harbor-side expiry ends it.
3. A lost reply to the password change clears the only copy of the new password.
4. A config write that omits the password, reads the stored one before a rotation
   and puts it after, restores the old password.
5. The cap on a renewal is taken by Vault as a limit from the issue of the
   lease, so that the renewal it was to save is refused.
6. Updates that Harbor makes but answers with an error: after a first one the
   lease's record is behind the robot; a second renewal sees the longer life, has its
   own update to a shorter one answered with an error too, and is granted a lease up to
   the life it saw.

Divergences met while modelling that no violation run checks:

- Of two renewals of a lease at once the one that asked for less may set its duration
  last (`secret_robot.go:152`); the other's longer `expires_at` stays with the lease,
  and a renewal that passes by it without asking Harbor takes the lease beyond the
  robot.  `LeaseSafety` with `Faults = {}` and `LeaseAlwaysCovered` for its
  invariant shows it, with no failed call.
- A renewal that need not ask Harbor (`secret_robot.go:131`) succeeds for a robot
  that was deleted there, where `dynamic-credentials/spec.md:33` wants it to fail.
- A job cancelled before `markPostRun` (`main.ts:22`) makes the post step run
  the main step, which nothing cleans up after (`StartPost` without `isPost`).
- Harbor's own robot prefix is "configurable" (`docs/compatibility.md:62`), but
  `ShortName` (`client.go:225`) takes it off only if it ends in `$` or `+`.  With
  another, the rollback never finds a system-level robot and drops its entry;
  `DropMeansGone` excuses it by name.
- A project-level role may have several permissions of one project
  (`path_roles.go:222`), where Harbor wants exactly one; so may one name a project
  Harbor does not have, or a rule it does not know.  Harbor refuses these at each
  read: they are the three cases of `Unforeseen`.
- The help of `config` asks for a robot issuer with `update` permission
  (`path_config.go:502`), which Harbor does not have
  (`docs/compatibility.md:65`) and the README does not ask for.
- With `revoke: false` and a token of its own, the action's post step revokes
  the token (`post.ts:62`), and with it the lease that
  `harbor-login/spec.md` ("Cleanup opted out") leaves in place.
  `ForeignKept` states what does hold: the lease stays under a supplied token.
- A put of `config` that errs though it was carried out leaves a client of the
  older configuration cached; `clientCfg`, documented as there to detect that
  (`backend.go:44`), is never compared.  In `Rotation` this is `lost_put`.
- "SHALL never issue a lease whose expiry is later than the robot's" holds only
  up to the latency of the request when `max_ttl` is whole days; `LeaseCovered`
  allows for it.

## Not modelled

The parsing of a role's permissions from JSON, the encoding of requests, TLS,
versions and the plugin's entry point: data rather than control.  `deny`
rules: `validateRole` lets them through and the fake server only leaves them out
of what a robot holds.  That two random suffixes differ is taken for granted.
A change of the issuer between user and robot under a live lease (in RobotAccess
the credential changes, in LeaseRenewal it does not).  A runner that dies, so
that there is no post step.  Vault's own storage and lease manager beyond what
the engine sees of them.

## Plan

The order is by importance; all but the last are done.

1. RobotIssuance, RobotCustody, the refinement, the proofs.
2. RootRotation: the cached client and the two-phase rotation.
3. LeaseRenewal: coverage of the lease over time.
4. HarborLogin: the action.
5. RobotNaming, RobotAccess: names, roles and Harbor's rules; the naming theorems.
6. RootRotationProofs: all safety properties.
7. LeaseRenewalProofs: all safety properties, with overlapping renewals and failed
   updates.
8. HarborLoginProofs: all properties.
9. RobotAccessProofs and the validity of names: all properties.
10. An issuer that changes between user and robot in LeaseRenewal.
