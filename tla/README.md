# Pilothouse in TLA+

Pilothouse is a host administration console. This directory holds its TLA+
specification: modules translated from the Go source under `src/`, TLC
configurations that check them on small instances, and TLAPS proofs for every
instance. `PROJECT.json` is the index: components, runs, the source lines of
each definition, hazards, findings and theorems.

## 1. The system

Two processes on a host, and the services they talk to.

- **`pilothouse`** (`cmd/pilothouse`, `internal/web`, the `module.go` and
  `handler.go` files of `internal/modules/*`) is unprivileged. It serves the
  browser, keeps the session token in a cookie, gates pages by the capabilities
  the broker advertises, and turns forms into broker calls.
- **`pilothoused`** (`cmd/pilothoused`, `internal/broker`, `internal/audit`,
  `internal/jobs`, the `manager.go` files of the modules) runs as root behind a
  Unix socket. It checks passwords, holds sessions, resolves the caller's groups
  for every request, and runs *queries*, *actions*, and *streams*.
- systemd, PAM, the account database, bbolt, the file system, container engines
  and the storage tools are outside; the models take from them what the source
  relies on, and mark it external.

### Inventory

| Part | Source | State and concurrency | Module |
|---|---|---|---|
| Resource locks | `broker/serialize.go` | map of reference-counted one-slot channels | `ResourceLocks`, `ExclusiveLock` |
| Action registry | `broker/actions.go` | request goroutines, background jobs, drain at shutdown | `ActionRegistry` |
| Audit store | `audit/audit.go` | bbolt bucket, retention, recovery at open | `AuditStore` |
| Job store | `jobs/jobs.go` | bbolt bucket, retention, recovery at open, reboot flag | `JobStore` |
| Broker process | `cmd/pilothoused/main.go` | start, stop, order of the deferred calls | `ActionRegistry` (stop), partly |
| Session store | `broker/sessions.go` | map under a mutex, two expiry limits | `SessionStore` |
| Login, limiter | `broker/server.go` | failure tracker, back-off, login slots | `LoginLimiter` |
| Broker requests | `broker/server.go`, `auth/identity.go` | identity resolved for each request | `BrokerRequests` |
| Streams, uploads | `broker/streams.go`, `broker/client.go`, `modules/files` | pipe through both processes, link into place | `FileUpload` |
| Capability cache | `web/capabilities.go`, `web/server.go` | set and flag shared by all browsers | `CapabilityCache` |
| Managed remote mounts | `modules/storage/{remote_manager,manifest,units,paths}.go` | files, units, manifest; steps with undo | `RemoteMounts` |
| Storage inventory | `modules/storage/{manager,cache,normalize,core,smart,mdraid,lvm,devicemapper,zfs,btrfs}.go` | concurrent backends, timeouts, health cache, merging with limits | `StorageBackends`, `StorageSnapshot`, `StorageCollection` |
| Extensions | `modules/sysext/extctl` | enabled, installed and merged sets, one lock | `Extensions` |
| Maintenance | `modules/maintenance/manager.go` | reboot reasons from several reads; cached extension state | `RebootAdvice`, `Extensions` |
| Host image, automatic updates | `modules/maintenance/{hostimage,autoupdate}*.go` | reports joined from several reads | `HostImage`, `AutoUpdate` |
| Incus, Podman, Docker, services | `modules/{incus,podman,docker,services}` | look up, check, act on objects others change | `HostObjects` |
| Log tails | `logs.go` and `manager.go` of the engines | bounded tail of a framed stream | `LogTails` |
| Backups | `modules/backups/manager.go` | three reads of a timer that goes on | `BackupTimers` |
| Capability probes, registrations | `capability`, `cmd/pilothoused/main.go` | probes once at start; registration by what was found | `Operations`, `Gating` |
| Module platform, pages | `platform`, `web`, the `module.go` files | gates by capability sets | `Pages`, `Gating` |
| TLS certificate, listening | `tlscert`, `cmd/pilothouse` | two files, renamed one after the other | `WebStart` |
| K3s, journal pages, system metrics, file browsing | `modules/{k3s,logs,system,files}` | read-only, no state | not modelled |
| PAM, wire types, templates, package tooling | `auth/pam`, `broker/api.go`, `*.templ`, `packaging` | none of their own | not modelled |

How they meet: a browser request passes the web server (`CapabilityCache`),
reaches the broker, is authorized (`BrokerRequests` on `SessionStore`), is
dispatched to the registry (`ActionRegistry` on `ResourceLocks`, `AuditStore`,
`JobStore`) or to a stream (`FileUpload`), and ends in a manager such as
`RemoteMounts`, `Extensions`, `HostObjects` or the storage inventory. Which
operations exist is settled when the broker starts (`Operations`, `Gating`), and
which pages are open follows from the set it advertises (`Pages`).

## 2. Modules and their correspondence to the code

An action is a stretch of code that nothing can interrupt with an effect on the
modelled state: a critical section of a mutex, one database transaction, one
channel operation, one system call or D-Bus call. Where a function releases a
mutex, awaits a context or returns to its caller, the model has another action.
Every definition that stands for code has its lines in `PROJECT.json`.
Definitions whose comment begins with "Mutant:" are faulty variants: each
property has one that it must reject.

**`ResourceLocks`** has the map `locks`, the heap cells with their channel
(`ready`) and count (`refs`), and each caller's place. `TryLock`, `Lock`
(`JoinEntry` or `CreateEntry`) and `ReleaseReference` are the critical sections;
`Acquire` and `CancelWait` the arms of the `select`; `ReturnToken` the send in
the unlock closure. **`ExclusiveLock`** is what it promises: an owner per
resource, taken when free, given back by the owner. `FileUpload` and
`BrokerRequests` use the abstract lock, `ActionRegistry` the table itself.

**`AuditStore`** and **`JobStore`** map IDs to an outcome, or to a status with
the reboot flag and the boot in which the job ended. An operation includes its
trailing `trimOldest`. `bucket.Stats().KeyN` inside a transaction may or may not
count the key just put: `KeyN` is a choice. `owed`, `abandoned`, `live` and
`stuck` record what the process still intends, so the properties can tell a
running action from an interrupted one.

**`ActionRegistry`** composes the three. `pc` follows a request through
`Execute`: lock (waiting, or refused for the non-blocking kinds), `audit.Begin`,
then the handler or `jobs.Enqueue` and the goroutine of `runBackground`. Each
failure return is an action of its own, with the order of unlock and completion
the code has there. `broker` is the life of the process: `Signal` (Serve returns
at once and Shutdown cancels the jobs' context), the bounded wait, the deferred
closes of the job store and then the audit store while handlers still run,
`Exit`, `Crash`, and a start that opens the audit store first. `effect` is what
the handler really did; the code cannot see it.

**`SessionStore`** splits `Create` and `Get` at the clock reading, which comes
before the mutex; `MaxDelay` bounds the wait. `created`, `used` and `ended` are
histories. **`LoginLimiter`** has the two critical sections of the limiter with
the password check between them, eviction, stale entries, and the slots.

**`BrokerRequests`** follows `authorize`: session look-up, account look-up,
groups, dispatch with the admin flag, wait for the lock, run; accounts and
groups change at any time.

**`CapabilityCache`** numbers broker processes; a set and a session belong to
one. A browser's request checks its session, refetches when the cache is
marked, and serves, or logs out; the answer of a fetch may be stored much later than
it was given, and a session may end at the broker while its cookie is still kept.

**`FileUpload`** has the web handler, the pipe, the request body and the
broker's handler as separate places, so that an end-of-file, a cancellation, a
give-up and a reply cross in every order. The anonymous file is linked to its
name and the directory synced; `PowerLoss` may take an unsynced name away.

**`RemoteMounts`** runs `Create`, `Mount`, `Unmount` and `Delete` as lists of
steps with one generic step action: it succeeds, fails, or fails after it took
effect. `Create` notes an undo for each step that returned nil and rolls back in
reverse; an undo that fails makes it keep the manifest as needs-attention.
systemd jobs run beside the worker: a wait ends with the job or with the ctx.
A stop of a unit whose file is gone may be refused, since systemd then no longer
knows it. Users touch mount points, the broker crashes, and administrators put files of
their own in place of managed ones, at any moment; `disk` tells what was there before
an operation (`Foreign`), what was put there while one was at work (`Meanwhile`), and
credentials that have the managed mode and owner, which is all that is compared of
them (`Alike`).

**`StorageBackends`** has one operator per backend (lsblk, findmnt, SMART, MD
RAID, LVM, device-mapper, multipath, ZFS, Btrfs), from what its tools print,
abstracted to the fields that decide health, identity and relations, to
resources, relations, mounts and findings. **`StorageSnapshot`** is
`normalize.go`: the core results are merged and checked, each enricher is applied
to a copy that replaces the aggregate only if it is consistent, lists are cut at
their limits and the whole is halved until it fits. A result is applied also when it
comes with an error, and the SMART result may be the cached one, which was collected for
the inventory of an earlier call. **`StorageCollection`** is the
concurrency of `State`: a goroutine per backend under its own timeout inside the
call's, results that race the deadline, tools that hang in the kernel, and the
health cache that calls share.

**`Operations`** lists what each probe may find and what each `register...`
function registers for a set; **`Pages`** lists the modules, their routes, gates,
and the calls of each route with the parameters it sends. **`Gating`** is the
broker's start around them: probes in order, the connection to systemd whose
goroutine may outlive the wait for it, the socket, and a page that loads the set
and calls afterwards, perhaps a restarted broker. **`WebStart`** is the start of the
web process: flags and environment, the choice of HTTP or HTTPS, reuse or renewal
of the certificate, and power losses between the two renames.

**`Extensions`** has the four actions on the lock "sysext/global" (`disable`
looks the merged set up, then passes `--force` by what it saw), `State` as the
union of two sources that fail independently, and the maintenance manager's
one-minute cache. **`RebootAdvice`** composes the maintenance manager's `State` with
`JobStore` and a host whose clock may be set; the uptime and the clock, from which it
takes the boot time, are two reads. **`HostObjects`** has one object of an
engine, with its snapshot and image: actions look it up, refuse or submit, and the
engine finishes, perhaps after the wait has ended; `Disturb` marks the calls whose
check something outside their lock has overtaken. **`HostImage`**, **`AutoUpdate`**
and **`BackupTimers`** are reports that read several sources one after the other
while the host moves. **`LogTails`** is the bounded tail over plain and framed
streams.

### Composition in the MC modules

Components that interact share variables: `ActionRegistry` extends the lock
table and uses both stores, `Gating` extends `Pages` and `Operations`,
`RebootAdvice` runs on an instance of `JobStore`. Components that share no
variable are checked side by side: `MCLogins`, `MCGating`, `MCStorage`, `MCHost` and
`MCLiveness` have a variable `which` that names the component a behaviour moves.
They extend the modules of the components that theorems are about, whose names are
distinct for that reason, so that a run and a theorem state the same definition.
The components that do not move stay in an initial state, so that the states of the components add up
instead of multiplying, and one run answers for several components without
weakening any: every behaviour of each component is a behaviour of the run. One
component is divided further: `MCHost` moves the extensions' requests or their reader,
and what the requests do to the host the reader sees as done by others. `MCStorage`
explores the collection twice, since all its behaviours up to the last tick are too
many: "races" has everything up to `RaceTime`, "ageing" goes on to `MaxTime` without
calls that are left early and tools that hang (`Calm`).

## 3. Runs

| Run | Checks | Instance |
|---|---|---|
| `liveness` | `LockInvariant` and the refinement `ImplementsExclusiveLock` of the lock table; `LocksServe`, `RegistrySettles`, `RevocationTakesHold`, `StartEnds`, `StateEnds`, `AttentionIsResolved` | locks: 3 callers, 2 resources, 3 entries; registry: 2 requests of the kinds that wait, 1 stop or crash; 2 requests of 1 account; 2 starts; 1 inventory; 2 definitions, 1 worker, 1 fault |
| `action_registry` | `RegistryInv` (a job has its lock, its open record and its job in the right status; handlers exclude each other; an idle broker has no locks), `IntentPrecedesMutation`, `HistoriesAreTruthful`, refinement `AuditDiscipline` | 2 requests, each a waiting action or a job on one resource or a refusing action on another, 2 records with both bounds at 1, 2 stops or crashes, failing writes |
| `file_upload` | `UploadInv` (every published file is in the trail, every recorded success is durable), `NeverPartial`, `NoOverwrite`, `BrokerLetsGo` | 2 uploads to one name, both good or both bad, limit 1 unit, sizes 0 to 2, 1 crash or power loss |
| `remote_mounts` | `MountInv` (targets are not shared, an active definition is whole), `NothingLeftBehind`, `DeletedIsGone`, `ForeignSurvives` | 2 definitions for one target, 2 workers, 2 faults (an edit is one) |
| `gating` | `StartInv` (no stray connection to systemd, a socket exactly while serving), `PagesMatchOperations` (a page that opens finds its operations, with the right parameters and confirmations), `CacheRules`, `WebRules` | 2 starts with different hosts; 2 browsers, 2 restarts; 2 addresses, 2 certificates, 1 power loss |
| `storage` | `SnapshotIsClosed`, `NoHealthIsHidden`, `LossIsMarked`, `AnswersAreComplete`, `HealthIsFreshOrMarked` | about 4,000 machines; 2 calls with 2 backends sharing the cache, time to live 2, a collection up to 2 and a call up to 3 ticks |
| `logins` | `SessionInv`, `SessionsKeepTime`, `LimiterRules`, `RequestInv`, `JobRules`, `AdviceIsSound` | 2 calls, 2 tokens, limits 3 and 5; 3 keys, room for 2, 1 slot; 2 requests of every kind; bound 2, 5 jobs; a host with 2 jobs, a history of 1 and a clock that is set once |
| `host` | `ExtensionsAgree`, `ObjectsAgree`, `OrdersAreSerial`, `TailIsExact`, `ReportsAreTrue` | 2 requests, 2 extension names; each engine with 2 requests; 4 deployments; files of 3 lines; streams of 3 lines; 4 days |
| `remote_mounts_jobs`, `gating_managers`, `storage_mounts`, `host_image` | one property each, violated (section 6) | as the runs they stand beside |

What the less obvious ones say:

- `NoHealthIsHidden`: no backend's worse verdict on a resource is lost when
  results are merged; `LossIsMarked`: what an accepted backend reported and the
  snapshot lacks is announced as truncated, and then not every backend is shown as
  available; `SnapshotIsClosed`: relations and
  findings name resources that are in the snapshot, within all limits.
- `HealthIsFreshOrMarked`: disk health shown without the stale mark was measured
  within the time to live and one collection.
- `AdviceIsSound`: an answer names no reboot reason that did not hold at some
  moment of the call and leaves out none that held throughout.
- `CacheRules`, `WebRules`, `JobRules`, `LimiterRules`: an invariant throughout and
  what no step may do, in one temporal formula.
- `ObjectsAgree`: what a manager checked holds when the engine acts, unless
  something its lock cannot keep away came between; and a call reports what
  happened. `OrdersAreSerial`: two orders for one object are with the engine together
  only if the call of the first was told that its wait had ended.
- `ForeignSurvives`: what an administrator had put there before an operation is never
  removed or replaced; what they put there meanwhile goes only in a rollback, and
  credentials that look managed in a rollback or a delete.
- `AttentionIsResolved`: a definition that needs attention is finally deleted if its
  deletion is retried, unless a foreign file is in the way or an attempt ended with a
  unit file gone (section 6).
- `ReportsAreTrue`: a report claims nothing that no source said, although the
  host moves between its reads.
- `TailIsExact`: the lines kept are the last ones that fit both bounds.

### Bounds

- The lock table needs three callers: a holder, a waiter, and one that arrives
  while another leaves. Two resources show that entries are not mixed up. One
  entry per caller is enough, since every entry in use has a caller.
- Retention acts on the first record beyond the bound, so a bound of 1 with two
  records, and of 2 with five, meets full, overfull (all running) and shrinking
  histories. The properties of both stores are proved for every bound.
- Two requests suffice for the conflicts of kinds of action; a third meets the same
  lock states, which the lock table covers with three. A refusing action meets another
  of its kind: `TryLock` does not ask who holds the lock. Safety is proved for every
  number of requests, resources and actions. An action that
  is refused rather than waits is left out of `liveness`, where nothing is owed to it.
- Under the reader of the extensions the installed ones do not change, since the
  reasons it gives do not depend on them; the requests change them.
- Two stops let a crash hit the recovery from another one.
- The session limits are small but ordered as in the code (delay < idle <
  absolute), and time passes the absolute limit. Proved for all values.
- A limit of one unit makes 0, the limit and the limit plus one different cases.
  Two good bodies race for the name; an oversized and a malformed one fail side by side,
  and a connection that breaks makes a truncated one of any. Safety is proved for every
  limit and number of uploads.
- Two faults let an undo fail after a step has failed, or an edit fall between a
  failure and its repetition. Safety is proved for every number of faults.
- The machines of `MCStorage` are chosen per backend so that every branch of the
  backend and of the merging is taken: thresholds on both sides (79 and 80 per
  cent, 69 and 70 degrees), duplicates, dangling references, several backends that
  speak of one disk, and lists one longer than the limits, which are small.
- With a time to live and a collection of two ticks each, an entry of the health cache
  ages before it expires, a collection that began earlier ends after a newer one, and
  three ticks for a call let it end between the two. `RaceTime` is the length of a
  call; `MaxTime` of 7 lets an entry be stored late, age, expire and be replaced.
- Two hosts for the two starts of `MCGating` divide the capabilities so that
  those which interact in a gate are together.
- Deployments are two from a container and two that are not, which is what
  `compareIdentity` tells apart. Frames and lines of a log have lengths below, at and
  above the byte bound.
- The instance of the reboot advice is the smallest that has a job retained and a job
  forgotten. It is too small for one case: a job reason left out because the clock was
  set back during the call needs a history of 2 and 3 jobs (section 6), 4.9 million
  states, which is more than the run has room for. The theorem covers it.
- `MaxID`, `MaxStops`, `MaxLosses`, `MaxMishaps`, `MaxFaults`, `MaxTime`, `MaxFailures`,
  `MaxBoot`, `MaxRestarts`, `MaxSerial`, `MaxRead`, `MaxDays`, `MaxFileLines`,
  `RaceTime`, `AdviceJobs` and `AdviceTime` bound what is unbounded in reality. They are guards of
  the actions they bound, and named in the configurations.

Symmetry is used only in runs without liveness, on requests, entries, workers
or inventory calls that no definition tells apart. Deadlock is not checked where a component stops
by design: time is bounded, or a request has ended and is not repeated.

### Fairness

In `liveness` the fairness of a component is the hypothesis of its property, since
the components run side by side.

- Lock table: weak fairness of the two halves of unlock (a goroutine that
  can run does, and handlers return because they work under timeouts), strong
  fairness of `Acquire` because blocked receivers of a Go channel are served in
  order. Cancellation is never owed.
- Registry: the same for requests, and weak fairness of the shutdown sequence and of
  the restart (`Restart=` in the unit). No fairness for signals, crashes or
  arrivals, and no failing database writes: a job whose `Start` could not be
  written stays queued until the next restart, which nobody owes.
- Requests: a handler goes on, and waiters of a lock are served in turn.
- Start: code goes on, and the wait for systemd ends after five seconds. Nobody owes
  an answer of systemd.
- Inventory: time passes, goroutines that can run do, and a context that has ended is
  noticed. A hung tool owes nothing.
- Remote mounts: the worker and systemd make progress, and the administrator
  repeats the deletion of a definition that needs attention (strong fairness of
  that request); without a repetition nothing would ever resolve it.
- Uploads (in `file_upload`): the broker's handler goes on; the web process's context
  ends after fifteen minutes at the latest and then ends `StreamAction`. Nothing is
  assumed of the browser.

## 4. Proofs

Checked by TLAPS for every value of the constants that the named assumptions admit.
Each theorem whose property a run checks is about the very definition of the run.

**`ResourceLocksProofs`** assumes that callers are finitely many and that the
null values are no entries or resources. `MutualExclusion` alone is not
inductive: `releaseReference` deletes the map's key without looking at the
entry, so exclusion rests on there being one entry per resource in use
(`EntryIsRegistered`), which rests on the counts (`RefsCountUsers`: `refs` is the
cardinality of the entry's users), which together with `NoLeakedEntry` and
`UnlockNeverBlocks` make up `LockInvariant`. `LockTableCorrect` proves it
invariant, `RefusalsAreJustified` the action property, and
`LocksImplementExclusiveLock` the refinement, by showing that the owner of a
resource is the caller in phase "held".

**`AuditStoreProofs`** assumes only that the retention bound is a number.
`trimOldest` is characterised once (`Trimmed`): it changes no record, takes only
finished ones, takes those older than every finished one it leaves, and leaves
a finished one only if the bound is reached. The last fact takes the least
finished record that stays; all older ones are gone, and they are at least as
many as were too many. `AuditInvariant`, `OldestRecordsGoFirst` and
`OutcomesStay` follow.

**`ActionRegistryProofs`** is about the registry composed with the lock table and both
stores, and assumes finitely many requests and positive retention bounds. What a
request at each place of `Execute` and `runBackground` may rely on is `Standing`: its
lock phase (`Control`), the IDs and the outcome it has (`Known`), the link between its
job and its record (`Linked`), that its record is kept and still says "started"
(`RecordOpen`), that its job is kept in the right status (`JobStands`), and that what
it is about to report is what the handler did (`OutcomeTrue`). Requests do not share
records, jobs do not share audit IDs, and there are never more jobs than records (a
pigeonhole argument). With `LockInvariant` this is inductive (`RegistryInduction`),
retention included: it takes finished records only, and those of a request under way
are not. `RegistryIsSafe`, `IntentComesFirst` and `HistoriesTellTheTruth` follow.
`RegistryUsesAuditStore` is the refinement: under the mapping that takes the records
of requests under way for what is owed, every step is a step of `AuditStore`
or none. So the theorems about the store carry over (`BrokerKeepsAuditInv`,
`BrokerKeepsOutcomes`): no outcome in the running broker's history is rewritten.

**`BrokerStateProofs`** has what the broker keeps about its callers and its jobs.

- Sessions, for limits and a delay that are numbers with `MaxDelay < IdleTTL`:
  `SessionInv` adds to the stored times what a call under way may rely on: its clock
  reading is at most `MaxDelay` old, and a token being created is known to nobody
  else. From it follow `LogoutIsFinal`, `LimitsAreKept` and `ActiveSessionsLast`, and
  from the last two `SessionsEndOnTime`.
- The login limiter: a key is in the table exactly if it has failed since it was last
  forgotten, taken slots are counted by the logins that have them, and the table is
  finite; so its size, its counts and its delays are right after every eviction
  (`LimiterKeepsItsRules`).
- Requests, with no assumption: `OnlyTheAllowedRun` needs what is known at each place
  of a request (`Established`): from dispatch on there was a moment since its arrival
  at which the account had the memberships it was let in with, and the account's
  present memberships are always among those moments, so whichever step of the look-up
  comes last finds its memberships there.
- Jobs: `trimOldest` is characterised as for the audit store, for either count that
  the bucket's statistics may give. `JobInv` with "no process, no live job" is
  inductive; the trailing trim of each transaction takes inactive jobs only, so what a
  transaction has put stays true of what it leaves (`CommitInv`). `JobInvariant`,
  `StatusMoves` and `JobsFollowTheRules` follow.
- The reboot advice: unless the clock was set, the jobs of this boot are those that
  finished after it (`HistoryIsDated`), and the boot time a call has read, which is
  never too early, tells them apart (`SinceIsBoot`); what the call has found held when it was read, and what still
  holds it has found (`QuestionStands`). `AdviceHolds` follows. An earlier form of
  `AdviceIsSound` was not provable, and false in larger instances than the run's: its
  exception for a clock set back was too narrow (section 6).

**`WebProofs`** has uploads, the start of both processes, and the capability cache.

- Uploads, for any limit that is a number: the invariant has two parts per upload.
  `Flow` accounts for the bytes: those taken from the form are on the wire or in the
  anonymous file, and an end of file is on the wire only if the form was whole and
  within the limit. `Trail` says, for each place of the broker's handler, what the
  audit record, the answer and the disk hold. With `FileIsWhole` they give
  `UploadsAgree`, `FilesAreWhole` and `PublishedStays`, the crash and the power loss
  included.
- The broker's start: `StartsStayInOrder` adds to `StartInv` that no goroutine connects
  before `run` waits for systemd.
- The capability cache: a browser is in touch with the running broker if its cookie
  or the request it has under way is of that broker. As long as none of the excepted
  events has happened, the cache has the broker's set or is marked while anybody is in
  touch; that is inductive, and `StaleSetsAreMarked` follows. A cookie is cleared by a
  logout, or by a running broker that does not, or no longer, know the session.
- The certificate: the pair being written, and the one about to be loaded, are good for
  the address from now on; the pair loaded last was so when it was loaded. The key is
  written first, so a power loss leaves a pair that is taken for what it is.
  `ServedPairsAreGood` follows, the action property from the same invariant.

**`HostProofs`** has three components that look at a host others change meanwhile.

- Objects of the engines, for finitely many calls: `Place` ties a call's place to its
  lock and its order, `Seen` says that what a call has seen is still so unless
  something intervened that its lock cannot keep away (`disturbed`). For each engine,
  what the manager lets pass is what the engine carries out (`AllowedFits`,
  `FittingIsCarried`); `ChecksStillHold`, `AnswersStayTrue` and `ObjectsStayAgreed`
  follow. `OrdersStaySerial` rests on `Place`: an order is with the engine while its
  call has the lock, or was left when the wait for it ended.
- The storage collection, for timeouts that are numbers and finitely many backends: a
  cache entry was stored less than one collection after it was seen (`EntryOK`), a
  result on the channel is as fresh as its call demands (`WorkOK`), and what a call has
  received has distinct names (`CallOK`). `HealthStaysFresh` and `SnapshotsAreComplete`
  follow; the second also needs that the list made of the missing names has each of
  them once (`Listed`) and that distinct names are as many as the results (`Counted`).
- Extensions, for any directories and any time to live: a request at work has the lock
  of the extensions, so what it was told of merged ones stands (`OrdersInv`). A state is
  right within an age if it is wrong only about names that changed, and lacks only
  sources that failed, at most so long ago (`RightWithin`). A collection under way is
  right within its own delay, the cache within its age and a longest collection, and an
  answer within less than `Window`. `ExtensionsFollowHost` follows.

**`RemoteMountsSteps`** and **`RemoteMountsProofs`** assume of the constants only that
every definition has a target and that the null values are no definitions. Each property
of the run fails to be inductive, because a worker acts on a list it read some steps
before. The invariant says what a worker knows at each place of its operation
(`Stands`: for `Create` which of its files are there and which undos are noted, for
its rollback which are left, for `Delete` which parts are gone), what is recorded of
a definition whoever works on it (`Kept`), and that one creator is at work at a time and
one worker per definition (`Locks`). The argument: a worker that has passed its checks
*holds* its target, that is, no other definition of that target has a manifest; and
whatever it then does touches its own definition's files and its target's units only
(`Touches`). So a step of one worker disturbs neither another worker nor another
definition, and is looked at for its own definition. `RemoteMountsSteps` has these
lemmas and the failing, undoing and foreign steps, `RemoteMountsProofs` the beginnings,
the steps that succeed, and the theorems: `WhatAManifestSaysIsThere`,
`FailedCreatesLeaveNothing`, `DeletedStaysGone` and `AdministratorsFilesSurvive`.

Only model-checked:

- all liveness properties: TLAPS proves no liveness from fairness and no `ENABLED`;
- what the folds and recursive operators of the storage inventory and of the log tail
  compute for every input (`SnapshotIsClosed`, `NoHealthIsHidden`, `LossIsMarked`,
  `TailIsExact`), which would need an induction over data;
- `ReportsAreTrue`, for the same reason: the policy of rpm-ostree is the result of a
  scan over the lines of its file, compared with a definition that does not scan;
- `PagesMatchOperations`, which compares the whole tables of pages and of
  registrations; TLC evaluates them, and the provers do not get through their
  expansion.

## 5. What the models leave out

- Contents: parameters, messages, names, rendered units, log lines. Parsing and
  validation that happen before any state is touched are left out as well; where a
  tool's output is parsed, the model starts from the fields.
- Time, except where a property is about it (sessions, limiter, inventory,
  certificates, caches, backups); timeouts elsewhere are actions that may happen
  whenever the code waits.
- Corruption of the databases; a transaction is atomic, and fails or commits.

### Not modelled

- K3s, system metrics, the listing of services, journal pages, file browsing and
  downloads: each reads once, keeps nothing, and formats. Their registrations and
  pages are in `Operations` and `Pages`. What could go wrong in them is parsing and
  arithmetic on text, which a model would only repeat.
- PAM (a wrapper around a C library), wire types, templates, and the package tooling,
  which runs at build time on files.

## 6. Findings

- `remote_mounts_jobs`: `waitForStorageUnitJob` returns `ctx.Err()` when the ctx
  ends before the systemd job, and the rollback of `Create` then removes the unit
  files while the job runs. The comment at `cmd/pilothoused/main.go:752` says that
  the wait exists so that this never happens.
- `gating_managers`: the comments at `cmd/pilothoused/main.go:581`, 776 and 1172 say
  that the managers exist exactly when systemd is advertised. The connection for the
  managers is a second one; when it fails the set still has systemd, and the pages of
  services, backups and logs are open while their operations are unknown.
- `storage_mounts`: a mount that ZFS enriches replaces the one of findmnt, whose
  read-only warning is lost.
- `host_image`: where rpm-ostree names no digest, detail of a deployment that was
  staged between the two commands is shown for the one bootc reported, although the
  comments demand less detail rather than wrong detail.

Limits that the properties state openly rather than hide:

- `CacheRules` excepts a set stored after a restart by a fetch that the previous
  broker answered (variable `overtaken`): that set stays, unmarked, until the
  next outage or login. `docs/design/capability-gating.md:615` describes the
  ordinary case only. After a restart of the web process the set is empty and
  unmarked until a login.
- `NothingLeftBehind` excepts steps that fail after taking effect (variable
  `unnoted`): `Create` notes an undo only for a step that returned nil, so the
  file of such a step stays and no manifest names it.
- `AttentionIsResolved` excepts the attempts that ended with a unit file gone. `Delete`
  begins with the stop of both units; once a file is removed and systemd has noticed, it
  answers NoSuchUnit, `cmd/pilothoused/main.go:756` returns that, and every further
  attempt may end there. `docs/specs/storage.md:186` says "A failure keeps the manifest
  in `needs-attention` so delete can run again", and the comment at
  `remote_manager.go:263` that a retried delete "accepts an absent canonical artifact
  during recovery".
- `ForeignSurvives` excepts what is put in place of a managed file while an operation is
  at work on it: the rollback of `Create` removes by name what it had written
  (`remote_manager.go:134`, 140, 146, 151). It excepts credentials files with the managed
  mode and owner, whose contents are not compared (`remote_manager.go:241`, 276).
- Retention may take a finished job whose reboot is still due, and
  `RebootRequiredSince` then answers no. `AdviceIsSound` also excepts the job reason
  after the wall clock was set: forward, a job of this boot may not count; back, an
  old one may count again. Nor need a job count that finished no later after the boot
  than the time between the reads of uptime and clock. The proof found one more case. When the clock is set back
  after a call has computed the boot time, a job that finishes before that time by the
  new clock does not count, although it follows the boot; it matters when retention
  has left no other.
- `ExtensionsAgree` excepts the minute after a source failed: the cache keeps the
  partial answer, unflagged.
- `ObjectsAgree` excepts calls that work outside their lock has overtaken: other users
  of the engine; work left over from a call whose wait ended (a Podman stop may take the
  ten seconds after which the client gives up); and Incus snapshots, whose lock key
  differs from the instance's, so that a restore and a start may overlap (Incus does not
  refuse to roll a running instance back). A unit job is not awaited, so `OrdersAreSerial`
  is about the other engines.
- `HealthIsFreshOrMarked` allows for the length of one collection: the cache stamps a
  result when it is stored, and an older collection that ends later replaces a newer.
- `LossIsMarked` does not say which backend lost something: `State` overwrites the status
  of a backend that also failed (`manager.go:149`). It excepts findings on mounts beyond the limit, which are dropped after
  `Truncated` is computed (`normalize.go:69`, 232).
- `WebRules` is about certificates at the time the listener loads them; expiry is not
  looked at again until the next start.
- `TailIsExact` excepts frames that alone exceed the bounds, which are cut and leave a
  gap before the next frame's lines.
- `ReportsAreTrue` excepts a backup run that began between two reads; and while a
  run goes on, systemd's result is that of a fresh start, "success".
- Model readings that no property is about: the UUID look-up of Btrfs mounts
  (`btrfs.go:85`) and that of device-mapper parents (`devicemapper.go:146`) never match
  what the core reports in the modelled machines; one unreadable disk fails the SMART
  collection as a whole.

## 7. Plan

1. **Proofs**: what remains of section 4 needs induction over sequences, or a model of
   the merging without folds.
2. **Downloads and browsing** as a second pair of stream actions, and the journal's
   cursor scan.
