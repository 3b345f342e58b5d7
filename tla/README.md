# Specifications of the CADR disk, input and session

The repository runs MIT CADR Lisp Machines: as containers around existing
emulators (`scripts/`), and as its own port, `cadr-web/` — a C core compiled to
WebAssembly, a worker that drives it, and a browser shell that stores the
machine's private disk, feeds it input and plays its sound. The modules here
model the parts where a mistake costs a user's work or leaves the machine
stuck: the path of a disk block from the guest's command to a durable commit,
the path of a mouse button or key to the guest, and the session that starts,
pauses and ends the machine.

Contents: [inventory](#inventory) · [modules](#modules-and-the-code) ·
[runs](#runs) · [fairness](#fairness) · [proofs](#proofs) ·
[findings](#findings) · [limits](#what-is-not-modelled) · [plan](#plan)

## Inventory

How the parts interact:

    mouse, keys --> pointer adapter ----.       M13 application
                                        v            v
    guest core (C, WASM) <-> worker <-- messages --> M13 shell
         |                                                 |
         |---- host request (status WAITING) -------> worker disk bridge
         ^                                                 |  readBlock / commitWrites
         '------------- host completion -------------------'
                                             M10 controller (one per page)
                                                 |  reopen, stage, commit, pin ...
                                   IndexedDB backend (one per tab) --> one database,
                                                                       many tabs

| Part | State it keeps | Operations | Hard because | Correct when |
|---|---|---|---|---|
| IndexedDB backend, `browser/cadr-m10-indexeddb.mjs` | meta (session, writer epoch, reserved generation, high-waters), head, activation log, pages, nodes, manifests, root references; per tab: handles and running commits | initialize, reopen, stage, begin/closeWriter, reserveGeneration, commit, compact, pin, unpin, close, deleteDisk | every operation spans several transactions; other tabs, a crash or a damaged record may come between two | acknowledged commits stay, the head always opens, pins keep their trees, old sessions cannot write |
| M10 controller, `browser/cadr-m10-controller.mjs` | handle, CLEAN / IN_DOUBT / RECOVERY_REQUIRED, busy, ambiguity marker and epoch, review lease | open, commitWrites, import, discard, readBlock, export, clone, compact, recover, close, ambiguity report, acquire / resume / release of a review | shared variables re-read after awaits, replacement racing release and recover | a write the guest believes in is durable or the guest is replaced; a reviewed snapshot does not move |
| Worker disk bridge (same file) | busy, the request in service | serviceOnce | a completion whose response is lost may or may not have been applied | one completion per request, the bridge always returns |
| Guest worker replacement, `cadr-m10-process-*.mjs` | the worker | replaceWorker | asynchronous, may fail | one replacement per loss |
| In-memory backend, `wasm/cadr-m10-persistence.mjs` | the same store in maps, an incremental collector | as above, collectGarbage(budget) | marking awaits while roots change | nothing reachable is swept |
| Core host-request protocol, `core/cadr_core.c` | outstanding request, queued completion, generation, last completed id | issue, next, complete, apply, invalidate, snapshot / restore | late, duplicate, stale completions | each request is completed once |
| Disk controller, `core/usim-port/disk-controller.c` | command, list, address, active, idle, reset | start, continue with the next CCW, apply a completion, reset | a reset of the core cancels the request under a transfer | one request per page, owned by the transfer that issued it |
| M4 block service, `host/cadr_m4_block_service.c` | pending request, its due tick, staged and committed copy of block 1 | poll, discard, snapshot gate | rejected completion, replay, a request of an abandoned machine | the overlay holds exactly the accepted writes |
| Scheduler and keyboard FIFO, `core/cadr_core.c`, `usim-port/iob.c` | 64 events, FIFO, interrupt bits | schedule, preflight, dispatch, register reads | all-or-nothing groups at a full queue | order by kind then insertion, no partial slot |
| Processor, bus, display, audio model | registers | instruction and register cycles | — | agrees with the original emulator (traced) |
| Pointer adapter and lifecycle, `browser/cadr-m9-pointer-adapter.mjs`, `wasm/cadr-m9-interactive-lifecycle.mjs`, `browser/cadr-m8-m9-worker-channel.mjs` | mirrors of held buttons, capture, browser state, generation; in the worker the controllers' generation and held sets | press, release, accessible buttons, motion, Release All, capture loss, focus, resume, keyboard edges and blur | every request crosses to the worker and back while more events arrive | no input of an old generation, no button held that the page does not know |
| WASM worker, `wasm/cadr-worker.js` | lifecycle, visibility, the active slice, deferred controls, expected id | ordered requests, slices that yield, controls captured under a slice, host completions, input | a pause arrives while a slice is active | answers in order; paused means that nothing executes |
| M13 shell and application, `browser/cadr-m13-shell.mjs`, `cadr-m13-production-app.mjs` | pending requests by id, ingress, neutrality, generation; the application's phase and FIFO | submit, release and restore of input, service of a waiting run; pause, resume, input, stop | a reply after its timeout, a release that overtakes a restore | every request settles, a confirmed release is true, worker loss is final |
| M11/M13 audio | lease, queue, deadlines, epochs | open, pump, acknowledge, cancel | late replies after cancel | bounded queue, no sample of an old epoch |
| Review adapter, debugger, boot and checkpoints, trace engine, containers, release, site | — | — | batch or plumbing | compared with oracles |

`PROJECT.json` lists every part with its files, and the hazards with the line
where each bites.

## Modules and the code

### DurableDisk — the promise

Every disk operation atomic: an append-only history (`log`) of complete trees,
an owner session, a single-use writer grant, pins, and the set of trees that can
be read. It is the abstract specification of the store and the store that the
controller is modelled over.

### IdbStore — `cadr-m10-indexeddb.mjs`

One action is one IndexedDB transaction, or the synchronous code between two
awaits. Long operations are program counters per handle:

| Code | Actions |
|---|---|
| `reopenDisk`: `beginReopenSession`, then `recoverActive` | `BeginReopenSession`, `RecoverActive` |
| `beginWriter`, `closeWriter`, `reserveGeneration` | `BeginWriter`, `CloseWriter`, `ReserveGeneration` |
| `stage` (session check, then a transaction) | `StageBegin`, `StageLand` |
| `commit`: read head, stage, verify, prune, publish, reread | `CommitBegin`, `CommitStage`, `CommitVerify`, `CommitPrune`, `CommitPublish`, `CommitReread`; `CommitFail` at any point |
| `compact`: mark the head's closure, mark the pins, sweep | `CompactMark`, `CompactMarkRefs`, `CompactSweep`; `CompactFail` |
| `pinRoot`: verify, then add; `unpinRoot` | `PinVerify`, `PinAdd`, `PinFail`; `UnpinRoot` |
| `close`; a tab that dies or loses its connection | `CloseHandle`; `Crash` |
| a record that no longer parses or is missing | `DamageHead`, `DamageActivation`, `DamageObject` |

Several operations of one handle may overlap, as the code allows; the `commits`
set of a backend excludes commits, leases and reopens of the same tab only, so
handles name their backend (`BackendOf`).

Data: a root is the set of pages its tree maps (it is named by content, so this
is its identity); the radix nodes of a tree travel with its root, since every
write path stages them together. A manifest commits to its parent's hash, so it
is the chain of entries from genesis to itself. Counters are naturals up to a
named bound that stands for the u64 limit, at which the code refuses.
`MaxActivations` is 1024 in the code and any number from 3 up here.

Simplifications that only leave out behaviour that changes nothing: verification
walks (`verifyRootTree`, `recoverActive`) read in one step — a read that a
concurrent deletion would break fails, and failure is possible at every step
anyway; quarantine records are written and never read back.

### M10Controller — `cadr-m10-controller.mjs`

The controller and the bridge over the `DurableDisk` actions. State corresponds
to the closure's variables: `state`, `disk`, `marker`
(`ambiguousInvalidationFlight`), `markerFailed`, `lease`
(`snapshotReviewLease`), `op` (the call that holds `busy`), `opening`, and for
the bridge `bridge`; `guest` is the worker. `flights` records each replacement
by its epoch, `live` the sessions of handles that were not closed, `releases`
the release attempts that have not settled, an abandoned one included. Of
`authorityRecord` the model keeps what the lease does not already tell: `stuck`,
that its recovery names a record whose pin is gone.

Everything runs on one event loop. Code that waits only for an already settled
promise is a microtask and runs before any other event: `ContinuationDue`
gives `BridgeResumes` that priority. Which of several ready events comes first
is otherwise free. A call on the store succeeds only through `Usable` (open
handle of the owning session); any call may also fail, or take effect and then
fail (`PublishLands`, the unpin that lands and throws).

A lost completion (`Report`) is one synchronous piece of code: it joins the
replacement under way, or raises IN_DOUBT, drops the handle, fences the lease
and starts `replaceWorker`, which terminates the old worker before its first
await (`cadr-m10-process-controller-worker.mjs:98`). The guest may have applied
the lost completion or not (`GuestsAfterLoss`).

Abstractions: generation numbers and objects are those of `DurableDisk`; a pin
is named by its root and session, so two pins of one root in one session are
one; the rival tab takes the disk over but does not publish.

### GuestDisk — `disk-controller.c`, `cadr_core.c`, `cadr_m4_block_service.c`

One block transfer from the guest's START to the media and back, in the native
host: three C components and the loop that calls them.

| Code | Actions |
|---|---|
| `cadr_machine_boot`; guest stores | `Boot`; `GuestStore` |
| `cadr_disk_start`, `cadr_disk_issue_current_ccw` | `GuestStart`; `GuestOther` for the commands that move nothing |
| command 016 and the release of the reset condition | `GuestDiskReset` |
| `cadr_apply_completion`, `cadr_disk_apply_block_*_completion`, `cadr_disk_continue` | `Apply` (one turn: retire, move the page, issue the next CCW) |
| `cadr_machine_reset` | `Reset` |
| `cadr_m4_block_service_poll` (capture, latency, delivery, commit) | `Poll` |
| `cadr_machine_complete_host_request`, called again with an old answer | `Redeliver` |
| `cadr_m4_block_service_discard` | `Discard` |
| `cadr_m4_block_service_snapshot_status`, `_save`, `_restore` | `Save`, `Restore` |
| the host gives the service a new machine | `Replace` |

`believed` and `sent` are history: what block 1 holds according to what this
machine was told, and the last answer delivered to it. `Image`, `DriveBlocks`
and the CCW lists are parameters. A snapshot is kept only while a restore inside
`MaxLives` can still use it, one per behaviour. `Discard` is taken with no
completion queued, and `Replace` between the service's turns: that is when the
hosts in the repository call them.

### PointerInput — `cadr-m9-pointer-adapter.mjs` and what it drives

The page's mirrors of the held buttons, the capture, the lifecycle's state and
generation; the two queues of the channel; the worker's controllers.

| Code | Actions |
|---|---|
| `pointerDown`, `pointerUp`, `accessibleButton`, `accessibleMove` | `PointerDown`, `PointerUp`, `AccessibleButton`, `Move` |
| `lostPointerCapture`, `releaseAll`, `focus`, `setTransform` | `LostPointerCapture`, `ReleaseAll`, `Focus`, `SetTransform` |
| `acknowledgeNeutralization`, `resume` of the lifecycle | `AcknowledgeNeutralization`, `Resume` |
| `bindCadrM8PhysicalKeyboard`: key edges and blur | `Keyboard` |
| `v6InputSubhandlerResult` and the two controllers in the worker | `HandleRequest` (accepted, refused, or broken off half-way) |
| the code after each `await` of a submission | `ReceiveReply`: `ReceiveDown`, `ReceiveUp`, `ReceiveRelease`, `ReceiveLoss` |

A handler that first awaits an earlier transition is an action that is enabled
only when that transition has settled; between the two any other event may come,
which is more than the microtask order allows. `pointerMove` is covered by the
weaker guard of `accessibleMove`. `crossed` is history: the capture was dropped
under a press that was under way.

### GuestWorker and M13Session — `cadr-worker.js`, `cadr-m13-shell.mjs`, `cadr-m13-production-app.mjs`

`GuestWorker` is the worker's scheduler: the ordered queue (`Handle`), a slice up
to its yield (`BeginRun`), controls captured during the yield (`Capture`), and
the answers after it, of the slice and then of each captured control (`FinishRun`,
`ApplyDeferred`). `M13Session` composes it with

| Code | Actions |
|---|---|
| `CadrM13Shell`: `submit`, `releaseInput`, `restoreInputIngress`, message and timer handlers, `workerLost` | `Submit`, `Release`, `Restore`, `Receive...`, `TimeOut`, `WorkerDies` |
| the bridge's `serviceOnce` called for a WAITING run | `ReceivePublic`, `ReceiveNext`, `Serve`, `ReceiveComplete` |
| `CadrM13ProductionApp`: `pause`, `resume`, `submitInput`, `stop`, its FIFO | `Pause`, `Resume`, `ResumeOutsidePaused`, `SubmitInput`, `Stop`, `Begin`, `ReceiveRestore`, `ReceivePublic` |

A session has one of two clients: the production application, or a caller of
`submit` that uses the public operations in any order. The application does not
issue `machine-run`, so slices and disk requests come from the second. Its
`resume` has two actions: while it is paused it queues the resume (a call that
finds one in flight joins it and changes nothing); in any other phase, also while
a pause has not settled, it fails the session. `app.reason` is the `reason` of
the application's last state, reduced to what the properties tell apart. The
storage under the bridge is reduced to its outcome; `M10Controller` has its
state. Continuations that neither a message nor a timer separates are one step.
The worker's loss terminates it in the same synchronous code whether the
application (`ownership "external"`) or the shell owns it. Ids are counted modulo
`MaxFlight`, which keeps those under way apart and makes the state space finite.
`crossed` is history: a fence overtook a resume's restore, or a reset overtook
the service of a disk request; see [findings](#findings) for both.

### MC modules

Each MC module names small sets; each `.cfg` fixes one question. Symmetry is not
used: a head and a genesis distinguish handles, the image and the lists
distinguish values, and liveness runs forbid it.

## Runs

| Run | Properties | What makes them hard |
|---|---|---|
| `idb_tabs` | `TypeOK`, `HeadAlwaysOpens`, `AckedDurable`, `ImplementsDurableDisk` | two tabs, each may die between any two transactions while both commit and one collects |
| `idb_log` | `ActivationLogUnbroken`, `HeadExtends` | more commits than the log holds; a stale commit prunes while another publishes |
| `idb_pins` | `PinsKeepClosure`, `RefsAdmissible` | stale and current handle of one tab; pin verified before the sweep, added after it |
| `idb_damage` | `AckedShown`, `HeadDamageFreezes`, `RecoveryIsNewest` | one record of any kind lost at any moment |
| `m10_host` | `AckedIsPublished`, `StagedBeforeGuest`, `OnlySuspectsReplaced` | lost and rejected completions, failing publications, rival tab, host calls in any order |
| `m10_review` | `CTypeOK`, `ReviewFrozen`, `LeaseKeepsDoubt`, `BridgeReturns`, `ReviewSettles` | a release superseded in mid-reopen by a second loss, an old unpin that returns late |
| `guest_disk` | `GTypeOK`, `TransferOwnsRequest`, `CompletionAnswersRequest`, `MediaAsBelieved`, `CommitIsAccepted`, `TransferEnds` | resets, restores, a new machine, a replay or a second answer between capture, delivery and application of a page |
| `pointer_input` | `PTypeOK`, `NoUnknownHold`, `GenerationsAgree`, `SuspendedIsNeutral`, `CaptureFollowsPhysical`, `TerminalSilent`, `LossSettles` | three requests and replies crossing with every browser event, refusals and broken deliveries |
| `m13_session` | `STypeOK`, `AnswersInOrder`, `NeutralWhenConfirmed`, `AppKnowsWorker`, `QuietFailsOnlyByResume`, `PauseHolds`, `RequestsSettle`, `WaitingSettles` | controls that overtake the queue under a slice, fences that overtake a resume, timers against late replies, completions for a paused or reset guest |
| `m10_acquire` | `LossFences` — violated, see findings | |
| `m10_recover` | `OneCompletionPerLoss` — violated, see findings | |
| `m10_resume` | `RecoveryRetryable` — violated, see findings | |

Bounds. Two handles suffice for the store's races: each pairs one operation with
one other actor, and a takeover plus a takeover back needs two sessions. One page
gives the empty and the full tree, which is what shared and unshared objects come
to (the log run needs no page at all, since only sequences matter there); three log slots with four generations is the first size at which pruning
chooses among several records; two pins are the first size at which a purge can
keep one and drop the other; one damage event is what the code is built to
survive. Two operations in flight at once (`MaxInFlight`) is every pairwise
race; the damage run admits one, its second actor being the damage. In the controller two losses are the first number where one can join,
supersede or be mistaken for another; three release attempts cover original,
superseded and retry; one or two roots distinguish a published from an
unpublished write.

In `guest_disk` two request ids per generation give a transfer of two pages, or
two single ones; two generations a reset in between; one restore or replacement a
future that is abandoned; two ticks an answer that is due now, later, or after
the end of the counter. Two blocks are enough because only block 1 can be
written, and a list of two pages from block 1 runs off the drive (212,000
states). In `pointer_input` two buttons are the first number at which one rolls
over another, one key shows whether a release reaches the keyboard, one advance
of the generation shows a stale and an exhausted one, and three messages allow a
request, a reply and an event between them; one keyboard request is under way at
a time (1.07 million states). In `m13_session` three messages let a control be
captured under a slice while another request waits; three queued operations hold
a resume, a fence and what it makes stale; one reset makes one stale completion
(a second is not submitted while the first is on its way).
`MCSessions` lists the callers: one each that stops, hides and shows, resets and
boots, or types with faults, beside the application with and without faults
(454,000 states). A caller leaves the last place to a bridge that serves, since
the bound is the model's and the code has none there.

All bounds sit in guards and are named constants. A system at
its bound may stop, so deadlock is not checked. The proofs remove the bounds for
the store, the controller, the guest's disk, the pointer and the session.

Each property has a mutant, an operator marked `\* mutant` next to the
definition it replaces: a dropped recheck, a lease that survives, a fence that is
skipped, a failure that is swallowed. Each is a mistake that the code avoids, and
TLC finds each property violated under it.

## Fairness

Four specifications assume fairness, each of the parts of the code that cannot
stay idle.

`m10_review` (`CFairness`): an IndexedDB request fires
success or error, a worker reply arrives or its timeout does, `replaceWorker`
settles: every step of the bridge, of the running call, of an acquisition, of
the current release and of a replacement is taken if it stays possible.
Strong fairness is used because a microtask disables the others for a moment;
the event loop serves every queue. Nothing is assumed of the guest, of the host,
of the rival, or of an abandoned release, which may hang for ever: the code
guards against exactly that. The last replacement inside `MaxFlights` cannot
fail, because a failure needs a successor that the bound forbids;
`BridgeReturns` says so with its second disjunct.

`guest_disk`: the loop of `cadr_m4_native.c` polls the service while a request is
outstanding and runs the machine while a completion is queued (`WF(Poll)`,
`WF(Apply)`). `TransferEnds` is stated for latency 0, where no tick is needed; it
does not ask that the guest go on, nor that a tick ever pass.

`pointer_input`: the worker takes the next message and the page the next reply
(`WF(HandleRequest)`, `WF(ReceiveReply)`). No browser event is fair.

`m13_session`: the worker's queue and its yield, message events, the storage, and
the application's FIFO go on. No client, timer or fault is fair: a timer is what
the code needs when a reply stays away, and `RequestsSettle` and
`WaitingSettles` hold without it because the modelled worker always answers.
Ids are handed out in rotation and any number of requests may come before, so
`RequestsSettle` is stated for id 0 and stands for all of them.

## Proofs

`IdbStoreProofs` proves, for any number of handles, tabs, pages, counters and any
log bound from 3, under the three assumptions named in `IdbStore`
(`BackendAssumption`, `KindAssumption`, `BoundAssumption`):

| Theorem | Statement |
|---|---|
| `TypeCorrect` | `Spec => []TypeOK` |
| `Invariance` | `Spec => []IInv` |
| `AckedStaysDurable`, `RefsStayAdmissible` | those invariants, damage included |
| `HeadStaysOpenable`, `PinsStayClosed`, `LogStaysUnbroken` | those invariants (they speak of an undamaged store) |
| `HeadOnlyExtends`, `DamageFreezes` | the action properties `HeadExtends`, `HeadDamageFreezes` |
| `RecoversNewest` | the action property `RecoveryIsNewest`, for any damage |
| `AcknowledgedIsShown` | the invariant `AckedShown`, which speaks of a store whose head record alone may be damaged |
| `Implementation` | `ASSUME MaxDamage = 0 PROVE Spec => ImplementsDurableDisk` |

The inductive invariant `IInv` has four parts, each needed because the property
it serves is not inductive:

* `TypeOK` gives every record its shape and bounds each counter by its
  high-water.
* `HistoryInv`: a live writer epoch is newer than the head's; a commit under way
  extends the head it read by one entry whose generation has been issued, and
  that head is not newer than the present one. With it the premises of
  publication (same head, same epoch, same pending generation) imply that the
  candidate extends the present head, so acknowledged histories stay prefixes.
* `LogInv`: the log is a run of sequences that ends at the head, one record for
  each, and a commit that has pruned and will publish on the present head has
  room for one more. A stale commit prunes for the head *it* read; it protects
  that head and its predecessor, and only removes the oldest of what is left,
  which the proof shows never opens a gap. When the commit is stale its own
  publication is refused, so the room it made does not matter.
* `ObjectInv`: every stored tree is complete; the head's lineage and trees and
  every pin's tree are stored; what a handle shows, what a batch or a candidate
  was planned on, is named by the head's history, which no sweep touches. A
  candidate past its staging is stored *as long as its generation is still
  pending* — a sweep is refused while one is — and a collection has marked what
  its head names and, before the sweep, what the references it saw name; the
  recheck of head, epoch and references in the sweep does the rest. These
  conditionals are what carries collection against commit, pin and takeover.

Recovery adds `RecoveryInv`, since `IInv` promises objects only to an undamaged
store:

* `LineInv`: every record of the log is a prefix of the head's chain, as long as its
  sequence number. Prefixes of one chain are ordered by their length
  (`PrefixOrder`), so the greatest sequence among the records that read back has the
  longest history, whatever is missing.
* `LostInv`: a store that has lost its head record and nothing else still has the
  head's activation, its objects and the run of the log. Nothing is published or
  collected then, but a stale commit may still prune; the argument of `LogInv`
  covers it. So what recovery accepts is the head that was lost (`NewestIsHead`).
* `SessionInv`: no two live handles are of one session, so a commit that is
  acknowledged on one handle leaves no other current one behind.

`Implementation` maps `log` to the head's chain, the owner to the active session,
the grant to the active epoch, pins to references, and what can be read to the
stored roots whose pages are stored; each transaction is one abstract operation
or a stutter, and `HeadAlwaysOpens` gives the premise of publication.

`GuestDiskProofs` proves, for every geometry, memory, CCW list, base image,
latency and bound, under the assumptions named in `GuestDisk`
(`CommandsAssumption`, `ListsAssumption`, `BoundAssumption`, `ImageAssumption`,
`NoneAssumption`, `RecordAssumption`):

| Theorem | Statement |
|---|---|
| `TypeCorrect`, `Invariance` | `Spec => []GTypeOK`, `Spec => []GInv` |
| `RequestIsOwned` | `TransferOwnsRequest` |
| `CompletionIsAnswer` | `CompletionAnswersRequest` |
| `MediaIsBelieved` | `MediaAsBelieved` |
| `CommitsAreAccepted` | the action property `CommitIsAccepted` |
| `DuplicateRefused` | an answer delivered a second time changes nothing in the core |

The inductive invariant `GInv` rests on the identity of a request, a generation
and an id:

* `NewestRequest`: the outstanding request carries the present generation and the
  newest id issued, above the last one retired. `Issued`: a request this machine
  has issued and that agrees with the outstanding one in generation and id *is*
  that request. So what the core compares — never the payload — is enough.
* `CaptureOK`: what the service captured was issued by this machine; a staged
  write is the request's own payload and newer than what is published; a write
  answered without a stage is a replay, whose payload the overlay already holds;
  and while the captured request is outstanding nobody else has answered it. The
  last part needs `SentOK`: what was delivered once can never be answered again.
* `ServiceOK`: between requests a stage is left behind only by an answer that was
  due after the end of the tick counter, and then every later answer is as well,
  so that stage is never published.
* `SavedOK`: a snapshot was taken under the gate, with nothing pending and no
  overlay, so coming back to it finds the media it believed in. Without the gate's
  condition on a pending request an abandoned future could answer a request of
  the restored machine that has its id.
* `Media(1) = Told(core, believed)`: the overlay agrees with the machine's own
  history, where an accepted and not yet applied write counts as told.

`M10ControllerProofs` proves, for any number of sessions, epochs, roots, losses,
release attempts and published heads, and whatever subset of its methods the
shell calls, under the assumptions named in `M10Controller` (`StoreAssumption`,
`FlightsAssumption`):

| Theorem | Statement |
|---|---|
| `TypeCorrect`, `Invariance` | `CSpec => []CTypeOK`, `CSpec => []CInv` |
| `AckedPublished`, `ReviewStaysFrozen` | the invariants `AckedIsPublished`, `ReviewFrozen` |
| `GuestToldLast`, `OneReplacementPerLoss` | the action properties `StagedBeforeGuest`, `OnlySuspectsReplaced` |
| `LeaseDoubts` | `ASSUME "open" \notin HostCalls PROVE CSpec => []LeaseKeepsDoubt` |

The inductive invariant `CInv` is a conjunction of parts that take the state they
speak of as arguments, so that a step that leaves this state alone keeps them:

* `OpOK`: who waits for whom. A write holds `busy` exactly while the bridge is in
  it, or waits for the replacement that its failure began; from staging to
  publication its root is the request's own, its tree is stored before the guest
  hears of it, and the closure it was planned on is part of the history.
* `GuestOK`: what the guest was told is published, or is the root whose
  publication is under way, or the guest is under suspicion. `AckedIsPublished`
  alone is not inductive: it does not say *which* write is still under way.
* `LeaseOK`: a lease that is not free shuts out every call that holds `busy`, and
  attempts of release exist only while one is due or under way. Hence a failure
  of a call never meets a lease, and an acquisition never meets a release.
* `FrozenOK`: from the moment an acquisition has pinned, in its own session, the
  pin is in force; only a takeover drops it, and then the session is another.

`OneReplacementPerLoss` adds `ReplacedOK`: there is at most one pending
replacement, the one the bridge waits for, and no guest runs until it has
succeeded; while a failed write waits, the marker names its flight, since no
`recover` and no release can run then; and the marker's failure flag agrees with
the flight. So a second report joins, unless the replacement failed and nobody is
there to be taken down.

`LeaseDoubts` adds `DoubtOK`, which extends the property to the acquisition
before it is held and to every attempt of release: one that has passed its wait
follows a replacement that succeeded. The premise is there because
`open()` looks at the lease when it starts and not when it ends, and sets CLEAN
whatever happened in between (the hazard at line 790 in `PROJECT.json`).

`PointerInputProofs` proves, for every set of buttons and keys, any number of
generations and any number of messages under way, under the assumption named in
`PointerInput` (`BoundAssumption`):

| Theorem | Statement |
|---|---|
| `TypeCorrect`, `Invariance` | `Spec => []PTypeOK`, `Spec => []Inv` |
| `NoHoldIsUnknown`, `GenerationAgreement` | the invariants `NoUnknownHold`, `GenerationsAgree` |
| `SuspensionIsNeutral`, `CaptureFollows` | the invariants `SuspendedIsNeutral`, `CaptureFollowsPhysical` |
| `TerminalIsSilent` | the action property `TerminalSilent` |

The inductive invariant `Inv` is about the line of messages, the replies on their
way to the page before the requests on their way to the worker:

* `InOrder`: which request may stand behind which. Behind a capture loss there is
  no pointer request; a loss is posted when no transition is under way; and the
  press that takes the capture is alone, unless the capture was dropped under it.
* `Holds`: `NoUnknownHold` alone is not inductive, since a reply that empties the
  mirror may be read before one that fills it. It is strengthened by *after*: a
  reply on the line that will take a held button out of a mirror is followed by
  one that puts it back.
* `Gens`: the reply to a loss that was carried out is the last of its kind, the
  worker is neutral behind it, and the generation it carries is the lifecycle's
  and the next; without one the two sides agree. A pointer request on its way to
  the worker carries the worker's generation, which `InOrder` keeps true when the
  worker advances.
* `Neutralized`: behind a suspension there is no edge, motion or loss on the
  line; while a loss is under way the capture is not held.
* `Capture`: the press that takes the capture holds it before the mask shows the
  button; without such a press on the line capture, mask and lifecycle agree.

`M13SessionProofs` proves, for every number of messages under way, of resets and
of queued operations, and for every set of sessions, under the assumptions named
in `GuestWorker` and `M13Session` (`FlightAssumption`, `NoneAssumption`,
`QueueAssumption`):

| Theorem | Statement |
|---|---|
| `TypeCorrect`, `Invariance` | `Spec => []STypeOK`, `Spec => []SInv` |
| `InOrder` | the invariant `AnswersInOrder` |
| `PauseHeld` | the action property `PauseHolds` |
| `NeutralConfirmed` | the invariant `NeutralWhenConfirmed` |

The inductive invariant `SInv` speaks of one line: the replies on their way to
the page, the slice, the controls captured under it, and the requests on their
way to the worker.

* `Order`: from some id on, the ids along the line are consecutive, the worker
  expects the first of the requests and the shell will hand out the one after the
  last; every entry the shell waits for is on the line, and no two share an id.
  Since at most `MaxFlight` messages are on the line, an id that comes round again
  is not taken for the one before. A control that is captured must have the
  expected id, so it is the first of the requests: capturing does not reorder.
* `Releases`: behind the request of a release that waits for its confirmation
  there is no input, its reply finds the worker neutral, it is never captured,
  and only one waits at a time. `NeutralWhenConfirmed` alone is not inductive,
  since it is the reply that makes it the shell's business.
* `Halts`: a guest whose pause, hide or stop was confirmed neither runs nor
  waits, so that a completion finds nothing to wake.
* `Shape`: of the application's FIFO only the first operation has begun, and what
  it waits for is the one entry that is not a release.

The same invariant gives the type of every message, and with it that nothing is
counted beyond the bounds.

`M13AppProofs` and `M13QuietProofs` continue with the production application,
under the same assumptions:

| Module | Theorem | Statement |
|---|---|---|
| `M13AppProofs` | `AppKnows` | the invariant `AppKnowsWorker` |
| `M13QuietProofs` | `FailsOnlyByResume` | the invariant `QuietFailsOnlyByResume` |

What the application shows is a cache of what the worker is, and the FIFO, the
line and the shell lie between. `AppKnowsWorker` says nothing while an operation
is queued, so it is strengthened by `AppInv`, inductive relative to `SInv`:

* `Queue`: an operation that was fenced has its fence behind it; a resume that
  was not is the last; ingress is open for the input the application admits and
  for a resume that has restored it, and for nothing else.
* `Posted`, `Done`: at most one request under way is not a release, and it is that
  of the first operation; an OK answer to it finds the worker as it left it.
* `Shows`: a worker that runs under an application that shows it paused has the
  fence that pauses it, or the resume that will show it, in the FIFO; input is held
  or under way only if the application shows a running machine.
* `Plain`: the application's worker has no slice and no captured control.

`QuietInv`, relative to both, says that a failure was asked for by a `resume()`
outside PAUSED, and excludes every other way to fail while the session lives.
`Heard` and `Due`: every message is awaited, every reply says OK, and a start finds
the worker paused. `Level`: a shell that is not neutral is being released, behind a
pause or with ingress still to be closed, so no operation is refused when it
starts. A pause answered while the shell is not neutral is only dropped
(`cadr-m13-production-app.mjs:565` throws a cancellation, which `#failFrom` at `:854`
lets pass), but it would leave `Level` without the pause that stands for the
release, and the next resume would be refused. It does not happen to a pause that
was not fenced: that one posted last, so when it is answered the line is empty and
its release has been confirmed (`LastAlone`).

Proving about `GuestWorker` and `M13Session` changed them where they could not be
reasoned about: the guards of the CASE in `Accepts`, and of the one after an
answer, are disjoint now (a CASE whose guards overlap may have either value).

Only model-checked: liveness (temporal reasoning with fairness and ENABLED is
outside what the installed provers do). Every safety property of a passing run is
a theorem. Recursion is not used in any module.

## Findings

1. **A rolled-back acquisition leaves the join marker** (`m10_acquire`). If a
   completion is lost while `acquire` has a pin in flight, the rollback waits for
   the replacement, reopens, unpins and sets CLEAN
   (`cadr-m10-controller.mjs:505`) without `clearAmbiguousInvalidation`. The
   ordinary release does clear it. The next loss joins the finished flight: no
   IN_DOUBT, the handle stays open, no worker is replaced. The overlay
   specification (`docs/mit-cadr/cadr-private-disk-overlay-reimplementation-specification.md:254-260`,
   `:305-309`) promises both.
2. **`recover()` during a loss lets a second completion out** (`m10_recover`).
   `recover` captures the marker before its reopen (`:1040`). A loss in the middle
   is then cleared by `clearAmbiguousInvalidation(null)` and the state set CLEAN
   while the replacement is still pending; when the replacement has settled the
   bridge's catch finds no doubt and sends a failure for the same request.
   `tests/test_cadr_m10_controller.mjs:445` asserts that no second completion
   is emitted.
3. **A resumed acquisition can lose its recovery** (`m10_resume`). `acquire()`
   after a failed rollback repeats the rollback and then acquires anew, within
   one `try` (`:653-658`). If the new acquisition fails, the catch (`:659-662`)
   restores the old record, whose pin has been removed; if the new one left a pin
   of its own, no later `acquire()` can retry it and `revoke()` is refused as well,
   while all mutations stay fenced until the page is reloaded. The overlay
   specification (`:277-280`) says that the next `acquire()` retries the cleanup.

Related code paths seen in the model, without a statement of the documents to
hold them against: `open()` in doubt also sets CLEAN over a live marker
(`:790`); the retreat of a failed mutation reopens and sets CLEAN over an
IN_DOUBT raised meanwhile (`:857`, `:890`); `open()` is not excluded by `busy`
(`:780`); a failed flight that is no longer the newest still marks the newest as
failed (`:773`).

Seen while modelling the session. These are disagreements with the documents, or
paths without a statement to hold them against; the properties above exclude them
by name (`crossed`, `resume-outside-paused`) or do not speak of them.

* *A fence during a restore ends the session.* A pause, a layout change or a
  release while a resume's `display-full` is under way makes
  `restoreInputIngress` return false; the application then fails and terminates
  the worker. The hardening specification
  (`docs/mit-cadr/cadr-browser-hardening-and-accessibility-reimplementation-specification.md:430-433`)
  calls this staleness "a harmless cancellation; it cannot fail-stop the new
  paused generation". `QuietFailsOnlyByResume` excludes it by `crossed`.
* *A resume before a pause has settled ends the session.* `pause` leaves the phase
  RUNNING until both replies have come (`cadr-m13-production-app.mjs:555-566`), and
  `resume` in any phase but PAUSED is `#fail("resume-outside-paused")` (`:533`),
  which terminates a healthy worker; so does a second resume of a machine that
  runs. The same specification (`:419-421`) speaks only of duplicate calls while
  PAUSED. Nothing under `src/` gates the call: the one page that offers it,
  `cadr-m13-production-browser.mjs:170`, passes it on. `QuietFailsOnlyByResume`
  names it as the one failure an undisturbed session can have.
* *A late neutralization reply loses the worker.* After the 250 ms timer the
  worker is kept, and its late reply matches no pending entry, which is a
  protocol violation; the same specification (`:1113-1114`) says that a late
  acknowledgement "neither confirms nor fails the current generation".
* *A reset while the bridge serves a disk request.* The completion is then of an
  old generation and refused: a write ends the session in doubt, a read is
  answered with a failure that is refused too, and a new run that waits while the
  bridge is still busy is not served until the machine is paused, started and run
  again. `WaitingSettles` excludes it by `crossed`. A reset or stop between a
  waiting run and its `host-next-request` is treated as a protocol violation.
* *Ids.* The shell's private id goes from 0x7fffffff back to 1
  (`cadr-m13-shell.mjs:1656`), the worker's expected id does not
  (`cadr-worker.js:2655`): the session ends after 2^31 - 1 requests.
* *Pointer ownership.* If the last button's release, or Release All, is accepted
  while another press is under way, that button is held with no capture owner and
  its release is refused. `CaptureFollowsPhysical` excludes it by `crossed`; the
  pointer specification
  (`docs/mit-cadr/cadr-pointer-and-interactive-lifecycle-reimplementation-specification.md:104`)
  states "capture exists exactly while the physical mask is nonzero".
* *A keyboard blur* neutralizes the worker's buttons too, and the adapter's
  mirrors keep them; a blur that the worker refuses is not repeated.

## What is not modelled

In the modelled files: the race of two first initialisations, schema migrations,
quarantine records, `deleteDisk`, byte formats, `cloneTo` (two controllers in
sequence), claim and revoke of the review authority (one synchronous check). The
hash function is taken to be injective, as the code does. A read that recovery
makes fails only for damage; the catches at `cadr-m10-indexeddb.mjs:934` and `:975`
also fall back on a transient error of a sound record.

In `GuestDisk`: the FLIP and DELAY faults and the fault selectors of the block
service, the sticky error bits, interrupts and memory address register that the
guest reads, failed evidence and a halted core, and the address arithmetic of the
drive. In `PointerInput`: `dispose`, the closing of the channel and the worker's
error event (`M13Session` has them), warp, rebase, coordinates and coalescing of
motion, a full input queue other than as a refusal, the asynchronous wait of
`focusGuest`, and the seam through which tests drive the controllers directly. A
deactivation of the lifecycle alone, which in this form advances the generation
without the worker, is what the channel's comment (`:143-149`) excludes. In
`M13Session`: bootstrap and media mount, the debugger's hand-off and the review
transaction, audio, the admission ledger, the exhaustion of ids, a malformed
envelope, the restore hook, and unsupported host operations.

Elsewhere: see `components` in `PROJECT.json`. The instruction-level emulator is
out of TLC's reach and is checked by the repository against traces of the
original. Display, sample generation, boot drivers, oracles, containers, release
scripts and pages have no protocol of their own; they are most of the
repository's lines.

## Plan

Done: the store, the controller, `GuestDisk`, `PointerInput` and `M13Session` over
`GuestWorker`, each with its proofs. What is left:

* Modules that would replace a run: the core's event groups and keyboard FIFO
  (a group is dispatched whole or not at all), the in-memory backend's
  incremental collector (nothing reachable is swept), the audio boundary's lease.

Each module keeps its proofs in a module of its own, and no RECURSIVE operator.

## Running

    tlc -workers 2 -config MCIdbStore_tabs.cfg MCIdbStore
    tlc -workers 2 -config MCGuestDisk.cfg MCGuestDisk
    tlc -workers 2 -config MCPointerInput.cfg MCPointerInput
    tlc -workers 2 -config MCM13Session.cfg MCM13Session
    tlapm IdbStoreProofs.tla
    tlapm GuestDiskProofs.tla
    tlapm M10ControllerProofs.tla
    tlapm PointerInputProofs.tla
    tlapm M13SessionProofs.tla
    tlapm M13AppProofs.tla
    tlapm M13QuietProofs.tla

The runs `m10_acquire`, `m10_recover` and `m10_resume` are expected to end with
an error trace of about ten states.
