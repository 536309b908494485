# Shiyao: TLA+ models, model checking and proofs

Shiyao runs commands in Firecracker microVMs. A daemon answers the HTTP API and
keeps users, sessions and sandboxes in Postgres; it publishes lifecycle jobs to
NATS JetStream. A worker consumes the jobs and drives the VMM manager, which
owns the virtual machines of a host together with their addresses, TAP devices
and firewall elements. A guest agent in each VM executes commands that the host
sends over VSOCK and a websocket bridge returns their output. Beside these stand
a transactional outbox, a warm pool of prepared VMs and a snapshot builder.

This directory models the parts that run concurrently or can fail half-way. Each
module is written from the Go code; `PROJECT.json` names the lines behind every
definition (about a third of the implementation; the rest is routing,
validation, conversions, generated accessors and packages without behaviour).

## Modules

| Module | Code | What is a step |
| --- | --- | --- |
| `Ipam` | `core/network/ipam.go` | one operation of the pool, under its mutex |
| `Network` (extends `Ipam`) | `core/network/allocation.go`, `tap.go`, `nftables.go` | one kernel or nft call of Setup or Release |
| `VmManager` (extends `Network`) | `core/vmm/manager.go`, `instance.go`, `lifecycle.go` | one critical section, or one host call |
| `WarmPool` | `core/vmm/pool.go` | one critical section, the reset function, or a stage of Stop |
| `SandboxLifecycle` | `platform/sandbox`, `runtime/daemon/service.go`, `runtime/worker`, `adapters/nats` | one SQL statement, publication, VMM call or acknowledgement |
| `EventDelivery` | none: the promise of the outbox | store, send, finish |
| `Outbox` | `platform/outbox` | one statement, publication or clock tick |
| `GuestExec` | `cmd/guest-agent/main.go`, `limits.go` | one stage of `execute`, or one event of a command's processes |
| `ExecStream` | `cmd/guest-agent/main.go`, `core/vsock`, `core/websocket` | one write, frame sent or frame received |
| `Identity` | `identity/*`, `runtime/middleware/auth.go`, their sqlc statements | one SQL statement of an HTTP request |
| `SnapshotBuild` | `platform/snapshot/builder.go`, `registry.go` | one external command, removal or upload |

`Network` uses the pool, `VmManager` drives the allocations: the three are one
composed state machine. `SandboxLifecycle` and `WarmPool` reduce the manager to
what its operations show to them. `MC*` modules give constants their values for
TLC, the `*Proofs` modules hold theorems. Definitions whose
comment says "Faulty variant" are the mutants: each property is shown to fail
when one mapped definition is replaced by its variant.

How the state corresponds:

* `VmManager`: `instances` is `Manager.instances`, `provision` the channel of
  tokens, `state` and `machine` the fields of an `Instance`. `pc[t]` is where
  goroutine `t` stands. `procs` and `sockets` are the Firecracker processes and
  their socket files; `signalled` are the processes that `StopVMM` told to end:
  it sends SIGTERM and does not wait, so a process may outlive the Stop that
  ended it (`ProcessExit`). `unread` is what is left of the loop with which
  Reconcile reads the states while it has the manager's mutex (`Unlocked`); the
  states change meanwhile, under mutexes of their own. An element of `Objs` is
  an instance with its allocation.
* `SandboxLifecycle`: `row` is the status column; `job`, `deliveries`, `seen`
  and `again` are the stream, its duplicate window and the buffer of a consumer.
  A job is known by its sandbox and a copy number: once the duplicate window is
  over, at any time, a second Delete stores another copy beside the first.
  `at`, `on` and `copy` are the two consumer loops, `req` the API requests. `vms` is
  the manager's view of a VM and `strays` the VMs it has lost sight of.
* `Outbox`: a row is `stored`, `published`, `quarantined`, with `lock`, `age` of
  the lock, `wait` until it is available and `failures`. Time is relative, so
  that clocks need no bound. `copies` and `window` are the stream. `locked_at` is
  the database's `now()`, the times `RunOnce` passes are its host's `time.Now()`:
  each reading is off by up to `MaxSkew` ticks (`Skews`).
* `WarmPool`: `idle` and `inUse` are the fields of the pool. `owned` and `repeated`
  are history variables: what its owner has not given to the pool, and what was
  added although the pool, or a tenant, had it. `Add` does not refuse the latter.
* `GuestExec`: a command consists of `main`, `child` (same process group),
  `holder` (left the group, keeps the pipes) and `daemon` (left the group, closed
  them): what `kill(-pid)` and `Wait` tell apart.
* `ExecStream`: bytes are the one-byte character `a` and the halves `l`, `c` of a
  two-byte one; JSON encoding replaces a stray half by `r`, three bytes long.
* `Identity`: time is the set of rows whose `expires_at` has passed; `grants`
  and `origin` are history variables used by properties only.
* `SnapshotBuild`: `mounts`, `work`, `image` and `hostDev` are the build host,
  `store` the registry; `ignored` (failures that Build does not see, and mounts
  that took effect although their command failed), `pusher` and `alone` are
  history variables. A removal may fail, and its error is dropped.
  Each build has its own output file.

## Runs

| Run | Shows | Distinct states |
| --- | --- | --- |
| `vm` (`Vm.cfg`) | `OneActor`, `RunningIsolated`, `StoppedClean`, `ProcessHandled`, `ResidentLimit`, `PoolAccounted`, `FirewallOwned`, `LifecycleOrder`; and, under fairness, `CallsReturn`, `ReconcileEffective` | 474,980 |
| `sandbox` (`Sandbox.cfg`) | `AckedDestroyIsGone`, `RunningBacked`, `StraysDestroyed`, `GoneForGood` | 2,441,586 |
| `sandbox_liveness` | `CreateSettles`, `DestroyReported` | 208,506 |
| `outbox` | `TerminalUnlocked`, `ClaimsExclusive`, `EventuallySettled`, and that `Outbox` implements `EventDelivery` (`AtLeastOnce`) | 219,078 |
| `warm_pool` | `OnePlace`, `IdleClean`, `RunningKept`, `GrowthBounded` | 258,099 |
| `guest_exec` | `CommandsBounded`, `ResultTruthful`, `TimeoutEffective` | 361,944 |
| `exec_stream` | `CaptureExact`, `ProtocolOrder`, `TextExact` | 207,167 |
| `identity` | `SessionBacked`, `Granted`, `OwnerRevokes` | 1,769,305 |
| `snapshot` (`SnapshotBuild.cfg`) | `HostIntact`, `ImageComplete`, `Registered` | 1,770,200 |
| `cleanup_visible` | violated: see below | |
| `frame_cap` | violated: see below | |
| `execution_bounded` | violated: see below | |

The runs `vm`, `sandbox`, `outbox` and `identity` check a type invariant as well.

### Bounds and why they are enough

* `vm`: two goroutines, two VM ids, two instances over the life of the system,
  `MaxVMs` 1, two subnets and context ids, one failing host call. Two goroutines
  are the smallest number that meets every race of the code (both hazards of
  `CreateVM`, Stop against Configure or Start, Stop against Stop); `MaxVMs` 1
  makes the second test of `CreateVM` decide. A ProvisionVM begins only while an
  instance is left for it to make or the pool is empty (`ObjsLeft`): a lease
  leaked by a failed validation and one that is held make it empty.
* `sandbox`: one sandbox, since jobs of different sandboxes meet only in the
  consumer loops; one request at a time, but any number of them; two copies of a
  job (`MaxCopies`), two deliveries of each, one failure, one restart.
  `sandbox_liveness` has one copy of a job at a time.
* `outbox`: two relays, one good and one oversized event, clocks that are off by up
  to one tick, a lock age of two ticks, a batch that may take two (so that claims
  go stale by a clock that is ahead), a back-off of up to two ticks, a duplicate
  window of one, three failures or crashes. As in the code (1024 s and 600 s) the
  back-off can outlast the window, and the run reaches a second copy of a message.
  The counter of copies stops at two.
* `warm_pool`: capacity 1 with two instances, two leases and three callers, so that
  Adds overtake Checkins, and instances are added again while the pool has them.
  `guest_exec`: three requests for one slot.
* `exec_stream`: buffer of four bytes, frames of two, up to six bytes written:
  outputs below, at and above the limit, and cuts inside and between characters.
  `frame_cap`: frames of three bytes, a buffer of six, and commands that write
  valid text of up to five bytes.
* `identity`: two requests at a time over two users, two logins, two sessions and
  one access token; requests are unlimited in number.
* `snapshot`: three builds of two names, so two builds of one name beside a third
  or three of one name; two failures or crashes, for a failed unmount together
  with a failed step.

The safety properties of all runs are proved for every size (see below), so the
bounds matter to the liveness properties only.

Symmetry is used only in runs without liveness properties. Deadlock is not
checked where the system really may come to rest: a finished execution, a
sandbox that is gone, finished builds.

### Fairness

* `vm`: a goroutine inside a call goes on whenever it can again and again (strong
  fairness of its steps): host calls return, and a `sync.Mutex` goes to the
  goroutine that has waited longest, so that no reconciliation keeps others from
  the manager for ever. Nobody has to call, and no process has to end.
* `sandbox_liveness`: requests and handlers run on (weak fairness); JetStream
  delivers a job that is due over and over (strong fairness of delivery, since
  the loop serves other jobs in between); an expired ack wait is noticed.
* `outbox`: time passes, and a relay that has claimed a batch goes on with it.
  Nothing under `src/` constructs a `Relay` or calls `RunOnce` yet, so that they
  are run is no fairness of the code: `EventuallySettled` has it as a hypothesis
  (`RunAgain`, of one relay), together with relays that are eventually prompt (a
  batch within the lock age less the skew): slow relays can take rows from each
  other for ever.
* `guest_exec`, `execution_bounded`: the agent runs, timers fire, and a process
  that was sent SIGKILL dies. Nothing is assumed of what a command does.

## Disagreements the runs show

* `cleanup_visible` (`CleanupFailuresVisible`): "Cleanup failures remain visible in
  the manager until a later reconciliation succeeds." (`core/vmm/manager.go:145`).
  `Stop` returns nil while somebody else configures, starts or stops the instance,
  and its caller deletes the entry all the same. In the run `DestroyVM` is stopping
  an instance that `ProvisionVM` has just configured; `Start` is refused,
  `removeFailedVM` gets nil from its own `Stop` and deletes the entry; then a host
  call of the first `Stop` fails, and no `Reconcile` finds the failed instance.
* `frame_cap` (`FrameCap`): "Streaming frames capped at **64 KiB**." (`README.md:136`). A cut
  inside a character makes the encoded data longer than the cap, and the host
  refuses the frame (`core/vsock/client.go:83`). The run has a cap of three bytes
  and a command that writes two characters of two bytes: valid text.
* `execution_bounded` (`ExecutionBounded`): "A bounded command execution timeout." (`README.md:137`).
  A descendant outside the process group that holds the output pipe keeps
  `cmd.Wait`, and with it the command slot, for as long as it lives.

Behaviours the models have that no run states as a property, for a maintainer to
decide on:

* `SetupTAP` that can neither bring up nor delete its link leaves a TAP that no
  cleanup is recorded for (`allocation.go:45` says it remains owned).
* A `Configure` that fails its validation (`instance.go:56`) leaves the lease with
  an instance that is removed from the map, and nobody returns it, although
  `docs/ARCHITECTURE.md:170` says that IPAM allocations "must all be accounted for
  when a VM is removed". `PoolAccounted` counts such a lease as held: it says that
  pool and leases agree, not that every lease comes back.
* A VM whose `DestroyVM` came while it was configuring or starting comes up without
  an entry in the map. Its lease and its process handle are in order, so that no
  property of `vm` is broken, but nothing will stop it.
* `Stop` releases the lease as soon as SIGTERM was sent: the process may live beside
  the next VM that gets its subnet, context id or TAP name.
* Two instances of one VM id (the first one left the map before its teardown was
  over) share TAP name and nft elements. The teardown of either deletes the
  elements of both, and the deletion the other still has to do fails for ever: the
  exception (`Twin`) of `ReconcileEffective`.
* Outside tests nothing calls `Reconcile`, the warm pool or the outbox relay.
* An exhausted address pool is an ordinary error, not `ErrBackpressure`.
* A redelivered create job, or a publication that reports an error although the job
  was stored, marks a live sandbox failed; a destroy job whose VM is gone fails
  until its deliveries run out and leaves the row `cleanup_failed`; a second Delete
  within the duplicate window publishes nothing. After a restart of the worker VMs
  may go on without an entry and rows go on saying `running`. The dead-letter
  stream of `jetstream.go` is never written to.
* `WarmPool.Add` takes an instance that is idle or leased already; it is then there
  twice and two tenants can share it. The caller must not do this: `OnePlace` and
  `IdleClean` speak of the instances that were not added again.
* `WarmPool.Checkin` may put back an instance that stopped after the test of its
  state (`docs/ARCHITECTURE.md:176` says that it is evicted), and such an instance
  on top of the list makes every Checkout fail.
* `SendOTP` stores a challenge with a purpose that the table's CHECK
  (`migrations/004`) refuses, so the OTP login never succeeds.
* A request the guest agent cannot decode is answered by a bare result
  (`sendError`), not by a frame, although `core/vsock/client.go:47` says that the
  final frame always contains the result.
* The daemon's exec dials `firecracker-<id>.sock` (`platform/sandbox/service.go:130`),
  the path the manager gives to the Firecracker API (`core/vmm/manager.go:96`); the
  model takes the connection to the agent as given.
* A request that was admitted goes on to its end when its session or token is
  revoked meanwhile: the credential is tested once, by the middleware.
* One login transaction can yield two sessions when two logins race.
* A failed unmount in the snapshot builder goes unnoticed, and a mount command that
  is killed after its system call leaves a mount that nothing undoes; the removal
  that follows walks into the mounted tree, in the case of `/dev` deletes device
  files of the host, and its error is dropped. `tar | tar` hides a failure of its
  left side. Two concurrent builds of one name can mix their artifacts.

## What is proved

`tlapm` checks the theorems for every value of the constants that satisfies the
named assumptions, which TLC evaluates in the runs. Most of these say that a
value meant as "none" is not one of the others, or that a bound is a natural
number. Those that say more: `SubnetsAssumption` and `CIDsAssumption` (the address
space of the code), `LimitsAssumption` and `CapacityAssumption` (constructors
refuse limits that are not positive), `CallersAssumption` (a process has finitely
many goroutines), `TextAssumption` (what is written consists of bytes, and the
replacement character is not one of them). Two theorems have an assumption of
their own: `ClaimsAreExclusive` that owners are distinct (`DistinctOwners`; that
clocks are off by at most `MaxSkew` is part of the model) and
`PlainTextFits` that text has characters of one byte only (`PlainText`).

Every component has an inductive invariant: its safety properties are seldom
preserved step by step on their own, because they say nothing of the actors that
are between two of their steps. The common shape is a formula about one process (a
request, a relay, a build, a caller), a lemma that other processes leave it alone,
and one lemma per kind of step. Each invariant was model-checked on the instance of
its run too (`PlainInv` on the instance of `exec_stream` with one-byte characters
only).

* **Network** (`VmManagerProofs`). `NetInv` adds to the types that an
  allocation in the middle of Setup or Release has the bookkeeping of that phase
  (`Busy`), that leases are disjoint, that the pool is accounted for, and that nft
  elements belong to allocations whose firewall cleanup is pending, on the list or
  in the running Release (`ElementsPending`). The last part is needed because a
  Release takes a step off the list before the list is written back. Theorems:
  `NetTypeCorrect`, `LeasesStayDisjoint`, `PoolStaysAccounted`,
  `FirewallStaysOwned`.
* **VMM manager** (`VmManagerProofs`). The inductive invariant
  `Inv` is `NetInv` with: types; `LockInv` (the state of an instance is a lock, an
  instance not yet in the map is in its creator's hand only); `HoldInv`
  (configured, starting and running instances hold their lease); `ProcInv`
  (processes nobody has told to end are reachable); `CleanInv` (what Stop has
  recorded so far is true; a process told to end may still live);
  `AdmitInv` (tokens and residents are counted). The first part of the module reduces
  every action to a few kinds of step, so that the invariants are shown once per
  kind.
  Theorems: `TypeCorrect`, `OneActorHolds`, `RunningAreIsolated`,
  `ProcessesAreHandled`, `StoppedAreClean`, `ResidentsAreLimited`,
  `ProvisioningIsLimited`, `ManagerAccountsForPool` and, as an action property,
  `LifecycleIsOrdered`.
* **Warm pool** (`WarmPoolProofs`). `PoolInv` is the four properties with the types
  and with what `IdleClean` needs: what an owner has, or a call has reset or is
  adding, is clean too, but for what was added again. Every step moves one instance
  between its owner, the idle list, a lease and the hand of a call. `GrowthBounded`
  is a counting argument: an Add that finds room is itself a call that holds no checked-in instance, so at
  most one less than all callers do. Theorems: `PoolInvariant`,
  `InstancesHaveOnePlace`, `IdleIsClean`, `RunningAreKept`, `GrowthIsBounded`.
* **Sandbox lifecycle** (`SandboxProofs`). `LifeInv` says of every copy of
  a job that its deliveries agree with the loop that handles it, whether or not the
  duplicate window kept another copy out (`JobInv`); of every VM that it is half-made
  exactly while the create loop provisions it, and that a row about to
  become `running` has one (`VmInv`); and that the destroy handler acknowledges what it deleted (`GoneInv`). Theorems:
  `LifecycleInvariant`, `LifecycleTypes`, `AckedDestroysAreGone`,
  `RunningIsBacked`, `StraysAreDestroyed` and the action property `GoneStaysGone`.
* **Outbox** (`OutboxProofs`). `OutInv` says that a relay about to record a
  publication has made it, that rows in hand are stored, and that settled rows are
  unlocked. Theorems: `OutboxInvariant`, `TerminalRowsUnlocked`, and the
  refinement `DeliversAtLeastOnce`: every step of the outbox is a step of
  `EventDelivery` or a stutter. `ClaimsAreExclusive` rests on `ExclusiveInv`: up to
  the lock age a relay has the lock of every row in its hands, and the lock is as
  old as its batch. It assumes `DistinctOwners`: `NewRelay` takes the owner from
  its caller (`relay.go:22`) and the statements free a row by that name, so two
  relays of one name could free a row that a third relay has claimed since.
  `OutboxTypes` is the type invariant with its caps, which is inductive once
  `1<<failures` is known to grow (`ShiftOneGrows`).
* **Guest agent** (`GuestExecProofs`). `ExecInv` ties slots, processes and results
  to where a request stands: a slot is held exactly from the select to the
  deferred release, nothing runs before the start, what Wait has waited for is
  over, and a killed command carries an error. Theorems: `ExecInvariant`,
  `CommandsStayBounded`, `ResultsAreTruthful`.
* **Identity** (`IdentityProofs`). Requests interleave at every statement, so what
  one has read may be stale. `RequestInv` says what of it stays true; it survives
  the statements of the others because rows only move forward (`RowsForward`):
  nothing un-expires, is un-revoked or changes its user. Theorems:
  `IdentityInvariant`, `IdentityTypes`, `SessionsAreBacked`, `ActsAreGranted` and
  the action property `OnlyOwnersRevoke`.
* **Snapshot builder** (`SnapshotProofs`). `HostInv` says that something is mounted
  only between its mount and its unmount unless its unmount failed or its mount was
  reported as failed, and that an
  image on its way to the store was populated; it concerns one build alone.
  `UploadInv` is about builds of one name: a build that is alone with it has
  written every object it is past, and no other build of the name is between its
  kernel and its manifest. Theorems: `SnapshotInvariant`, `HostStaysIntact`,
  `ImagesAreComplete`, `RegistrationsHold`.
* **Execution stream** (`ExecStreamProofs`). `CaptureInv` is `CaptureExact` with the
  types: a write adds what fits (`TakeBeyond`) or nothing (`TakeWithin`).
  `StreamInv` orders the frames: stdout before stderr among what was received, is
  on the wire or is still to be sent, and the result behind both. `TextInv` says
  where the captured text was cut: there are positions such that every frame on the
  wire is the encoding of the slice between two of them, what is not yet sent is the
  slice behind the last, and what was received of a text is the slice before the
  first, which lies between two characters. A frame that is not longer than its
  bytes has no replacement in it (`NoGrowthIsWhole`), so that a slice that begins
  between characters also ends there (`FrameIsKept`); this is how the length check
  of `client.go:83` keeps a damaged text from being taken for the whole. Theorems:
  `CaptureInvariant`, `CaptureIsExact`, `StreamInvariant`, `ProtocolIsOrdered`,
  `TextIsExact`. Two more bound the disagreement `frame_cap`: `FramesAreBounded` (a
  frame is at most three times the cap) and `PlainTextFits` (text of one-byte
  characters keeps `FrameCap`). Characters have one or two bytes here, as in the
  model.

Two models compute with recursive functions: `ShiftOne` (`1<<n`) in `Outbox` and
`Joined` (the text in a sequence of messages) in `ExecStream`. The proofs show that
such a function exists and what it is by induction over the natural numbers,
stated for a set (`Induction`, from the well-foundedness of `<`).

Only model-checked are the liveness properties (`CallsReturn`,
`ReconcileEffective`, `CreateSettles`, `DestroyReported`, `EventuallySettled`,
`TimeoutEffective`): fairness and `ENABLED` are out of the prover's reach. The three
violation runs show behaviours, which TLC exhibits and nothing here proves.

## Not modelled

* Contents of Firecracker configurations, kernel arguments, nft rulesets, resource
  limit values, error texts: data that no property tells apart.
* A Firecracker process that ends by itself: nothing under `src/` watches for it.
* `cmd/guest-agent/rootfs.go`: a fixed sequence of mounts before the agent serves.
* Set-up of connections, streams and routes (`cmd/*`, `runtime/daemon`, adapters
  for Postgres, Redis and Polar, configuration): done once, pure I/O.
* Team tokens: single statements on a table nothing else reads; they have the
  shape of access tokens in `Identity`.
* Proxy policy, authorization and request-scoped values: pure functions.
* `VerifyOTP` behind a stored challenge: unreachable, as no challenge is stored.
* Pulling snapshot artifacts and checking snapshot configurations: no code calls
  the pull, and the check has no state.
* `cloud` and `enterprise`: package clauses, data types and their constructors.
* `pkg/*`, the command-line client and generated row scanning: conversions.
