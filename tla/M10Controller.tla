---------------------------- MODULE M10Controller ----------------------------
(***************************************************************************)
(* The persistence controller and the worker disk bridge of                *)
(* cadr-web/browser/cadr-m10-controller.mjs, over a store that keeps the   *)
(* promise of DurableDisk.                                                 *)
(*                                                                         *)
(* The guest (a CADR core in a worker) asks for disk transfers.  The       *)
(* bridge serves one request at a time: a write is staged, then the guest  *)
(* is told that it is done, then the new head is published.  A completion  *)
(* whose response is lost, or whose publication fails, leaves the guest    *)
(* and the disk in doubt: the controller closes the disk and replaces the  *)
(* worker.  A review lease pins the active root and fences all mutations.  *)
(*                                                                         *)
(* Everything runs on one event loop.  An action is the synchronous code   *)
(* between two awaits of a transport (IndexedDB, worker message, network); *)
(* a continuation that only awaits an already settled promise runs before  *)
(* any other action (ContinuationDue).                                     *)
(***************************************************************************)
EXTENDS DurableDisk, FiniteSets

CONSTANTS
  HostCalls,   \* controller methods that the surrounding shell calls
  RequestKinds, \* what the guest asks for: read, write, other
  MaxFlights,  \* bound on ambiguous completions that start a replacement
  MaxAttempts, \* bound on release() attempts of one lease
  MaxLog       \* bound on published heads

ASSUME StoreAssumption ==
  /\ 1 \in Sessions /\ Sessions \subseteq Nat /\ EmptyRoot \in Roots
  /\ [root : Roots, session : Sessions] \subseteq Pins
ASSUME FlightsAssumption == MaxFlights \in Nat

VARIABLES
  state,        \* CLEAN, IN_DOUBT or RECOVERY_REQUIRED
  disk,         \* the controller's handle, NoDisk when null
  live,         \* sessions of the handles that have not been closed
  marker,       \* ambiguousInvalidationFlight, 0 when null
  markerFailed, \* ambiguousInvalidationFailed
  flights,      \* the replacements, by ambiguity epoch
  op,           \* the call that has set `busy`
  opening,      \* open() is under way; it does not look at `busy`
  lease,        \* snapshotReviewLease and the acquisition working on it
  releases,     \* attempts of release() that have not settled
  stuck,        \* authorityRecord.recovery is a record that has no pin
  bridge,       \* serviceOnce() and the request it serves
  guest         \* the worker: its request, the writes it was told are done

ctl == <<state, disk, live, marker, markerFailed, flights>>
cvars == <<dvars, ctl, op, opening, lease, releases, stuck, bridge, guest>>

-----------------------------------------------------------------------------
\* Values

Tail1(l) == l[Len(l)].root
RootsIn(l) == {l[i].root : i \in 1..Len(l)}

NoDisk == [session |-> 0, readOnly |-> TRUE]
NoOp == [kind |-> "none", pc |-> "none", epoch |-> 0, closure |-> <<>>,
         root |-> EmptyRoot, captured |-> 0]
NoLease == [phase |-> "NONE", pc |-> "none", session |-> 0, attempt |-> 0,
            pin |-> 0, epoch |-> 0, fresh |-> FALSE, binding |-> <<>>, resumed |-> FALSE,
            fenceEpoch |-> 0, fenceFresh |-> FALSE]
NoRequest == [kind |-> "none", root |-> EmptyRoot]
Requests == {[kind |-> k, root |-> r] : k \in RequestKinds, r \in Roots}
NoService == [pc |-> "idle", request |-> NoRequest, worker |-> 0,
              from |-> "none", last |-> FALSE, done |-> FALSE, flight |-> 0]
NewWorker(f) == [id |-> f, up |-> TRUE, request |-> NoRequest, acked |-> {},
                 suspect |-> FALSE]

\* A handle whose next call can succeed.
Usable(s) == s \in live /\ s = owner
Granted == Usable(disk.session) /\ grant = op.epoch
Busy == op.kind # "none"
LeaseFree == lease.phase = "NONE"

\* The pin of the lease, named by its root and the session that created it.
ReviewPin == [root |-> Tail1(lease.binding), session |-> lease.pin]

CInit ==
  /\ DInit
  /\ state = "CLEAN" /\ disk = [session |-> 1, readOnly |-> FALSE]
  /\ live = {1} /\ marker = 0 /\ markerFailed = FALSE
  /\ flights = [f \in 1..MaxFlights |-> "unused"]
  /\ op = NoOp /\ opening = FALSE /\ lease = NoLease /\ releases = {}
  /\ stuck = FALSE
  /\ bridge = NoService
  /\ guest = NewWorker(0)

\* A continuation of the bridge waits for nothing but its turn.
ContinuationDue == bridge.pc = "wait" /\ flights[bridge.flight] # "pending"

-----------------------------------------------------------------------------
\* The store as the controller uses it

\* backend.reopenDisk: a new session; it opens read-only after damage.
Reopened(readOnly) ==
  /\ owner + 1 \in Sessions /\ TakeOver(owner + 1)
  /\ disk' = [session |-> owner + 1, readOnly |-> readOnly]
  /\ live' = live \cup {owner + 1}
StateAfter(readOnly) == IF readOnly THEN "RECOVERY_REQUIRED" ELSE "CLEAN"

\* disk.stage of one complete tree.
Stage(r) == /\ readable' = readable \cup {r}
            /\ UNCHANGED <<log, owner, issued, grant, pinned>>

\* closeWriter in an error path: its own failure is swallowed.
TryCloseWriter == (Granted /\ Release) \/ UNCHANGED dvars

NextGeneration == log[Len(log)].generation + 1

\* The commit's publication may land although the call then fails.
PublishLands == /\ grant = op.epoch /\ log = op.closure /\ Len(log) < MaxLog
                /\ Publish(NextGeneration, op.root)

\* Another tab opens the same disk.
RivalTakesOver == /\ owner + 1 \in Sessions /\ TakeOver(owner + 1)
                  /\ UNCHANGED <<ctl, op, opening, lease, releases, stuck,
                                 bridge, guest>>

-----------------------------------------------------------------------------
\* invalidateAfterAmbiguousGuest

NextFlight == 1 + Cardinality({f \in 1..MaxFlights : flights[f] # "unused"})

\* A release that is itself following a replacement may be superseded.
Superseding == lease.phase = "RELEASING" /\ lease.fresh

NeverJoins == FALSE                                              \* mutant
Joins == marker # 0 /\ ~Superseding /\ ~markerFailed

\* The lease is kept, bound to the new flight, and its attempt is voided.
EpochForgotten(f) ==                                             \* mutant
  IF LeaseFree THEN lease ELSE
  [lease EXCEPT !.fresh = TRUE,
     !.phase = IF @ \in {"HELD", "RELEASING"} THEN "RELEASE_REQUIRED" ELSE @,
     !.attempt = IF lease.phase = "RELEASING" THEN @ + 1 ELSE @]
LeaseFenced(f) ==
  IF LeaseFree THEN lease ELSE
  [lease EXCEPT !.fresh = TRUE, !.epoch = f,
     !.phase = IF @ \in {"HELD", "RELEASING"} THEN "RELEASE_REQUIRED" ELSE @,
     !.attempt = IF lease.phase = "RELEASING" THEN @ + 1 ELSE @]

\* One report of a lost completion: b is the service that then awaits the
\* flight, g the guest.  replaceWorker terminates the old worker at once.
Report(b, g) ==
  \/ /\ Joins
     /\ bridge' = [b EXCEPT !.pc = "wait", !.flight = marker]
     /\ guest' = g
     /\ UNCHANGED <<ctl, lease>>
  \/ /\ ~Joins /\ NextFlight <= MaxFlights
     /\ state' = "IN_DOUBT" /\ marker' = NextFlight /\ markerFailed' = FALSE
     /\ flights' = [flights EXCEPT ![NextFlight] = "pending"]
     /\ lease' = LeaseFenced(NextFlight)
     /\ disk' = NoDisk /\ live' = live \ {disk.session}
     /\ bridge' = [b EXCEPT !.pc = "wait", !.flight = NextFlight]
     /\ guest' = [g EXCEPT !.up = FALSE, !.request = NoRequest, !.acked = {}]

Suspected(g) == [g EXCEPT !.suspect = TRUE]

\* replaceWorker settles.
WorkerReplaced(f) ==
  /\ flights[f] = "pending"
  /\ flights' = [flights EXCEPT ![f] = "ok"]
  /\ guest' = NewWorker(f)
  /\ UNCHANGED <<dvars, state, disk, live, marker, markerFailed, op, opening,
                 lease, releases, stuck, bridge>>
ReplacementFails(f) ==
  /\ flights[f] = "pending" /\ f < MaxFlights
  /\ flights' = [flights EXCEPT ![f] = "failed"] /\ markerFailed' = TRUE
  /\ UNCHANGED <<dvars, state, disk, live, marker, op, opening, lease,
                 releases, stuck, bridge, guest>>

\* clearAmbiguousInvalidation
Cleared(f) == IF f \in {0, marker}
              THEN marker' = 0 /\ markerFailed' = FALSE
              ELSE UNCHANGED <<marker, markerFailed>>

-----------------------------------------------------------------------------
\* serviceOnce

GuestIssues(q) ==
  /\ q.kind = "write" \/ q.root = EmptyRoot
  /\ guest.up /\ guest.request = NoRequest
  /\ guest' = [guest EXCEPT !.request = q]
  /\ UNCHANGED <<dvars, ctl, op, opening, lease, releases, stuck, bridge>>

\* The bridge's catch: an apology is sent unless the completion was sent or
\* the controller is in doubt.
Caught(st) == IF st # "IN_DOUBT"
              THEN [bridge EXCEPT !.pc = "apology", !.from = "none"]
              ELSE NoService

BridgeTakes ==
  /\ bridge = NoService /\ guest.up /\ guest.request # NoRequest
  /\ bridge' = [NoService EXCEPT !.request = guest.request,
                                 !.worker = guest.id, !.pc =
       CASE guest.request.kind = "read" -> "read"
         [] guest.request.kind = "write" -> "write"
         [] OTHER -> "answer"]
  /\ UNCHANGED <<dvars, ctl, op, opening, lease, releases, stuck, guest>>

BridgeReads ==
  /\ bridge.pc = "read"
  /\ \/ Usable(disk.session) /\ bridge' = [bridge EXCEPT !.pc = "answer"]
     \/ bridge' = Caught(state)
  /\ UNCHANGED <<dvars, ctl, op, opening, lease, releases, stuck, guest>>

MutatesUnderLease == ~Busy /\ disk # NoDisk                      \* mutant
CanMutate == LeaseFree /\ ~Busy /\ disk # NoDisk
OpCall(k) == [NoOp EXCEPT !.kind = k, !.pc = "grant"]

BridgeWrites ==
  /\ bridge.pc = "write"
  /\ \/ /\ CanMutate
        /\ op' = OpCall("write") /\ bridge' = [bridge EXCEPT !.pc = "op"]
     \/ ~CanMutate /\ bridge' = Caught(state) /\ UNCHANGED op
  /\ UNCHANGED <<dvars, ctl, opening, lease, releases, stuck, guest>>

\* The guest still waits for this very request.
Awaited == /\ guest.up /\ guest.id = bridge.worker
           /\ guest.request = bridge.request
Consumed(ok) ==
  [guest EXCEPT !.request = NoRequest,
     !.acked = IF ok /\ bridge.request.kind = "write"
               THEN @ \cup {bridge.request.root} ELSE @]
GuestsAfterLoss(ok) == {guest} \cup IF Awaited THEN {Consumed(ok)} ELSE {}

\* complete() of a read, of an unsupported request, or as an apology.
BridgeAnswers ==
  /\ bridge.pc \in {"answer", "apology"}
  /\ \/ /\ Awaited /\ guest' = Consumed(FALSE) /\ bridge' = NoService
        /\ UNCHANGED <<ctl, lease>>
     \/ /\ bridge' = IF bridge.pc = "answer" THEN Caught(state) ELSE NoService
        /\ UNCHANGED <<ctl, lease, guest>>
     \/ \E g \in GuestsAfterLoss(FALSE) :
          Report([bridge EXCEPT !.from = bridge.pc], Suspected(g))
  /\ UNCHANGED <<dvars, op, opening, releases, stuck>>

\* The failed call waits in the bridge's hands until the flight has settled.
FailsAfterGuest(b, g) ==
  /\ Report([b EXCEPT !.from = "op"], Suspected(g))
  /\ op' = [op EXCEPT !.pc = "failed"]

\* completeGuest: a lost response is reported by complete() and again when
\* publishPlan unwinds, a rejected completion by publishPlan alone.
BridgeCompletesWrite ==
  /\ bridge.pc = "op" /\ op.pc = "guest"
  /\ \/ /\ Awaited /\ guest' = Consumed(TRUE)
        /\ bridge' = [bridge EXCEPT !.done = TRUE]
        /\ op' = [op EXCEPT !.pc = IF op.root = Tail1(op.closure)
                                   THEN "close" ELSE "commit"]
        /\ UNCHANGED <<ctl, lease>>
     \/ FailsAfterGuest([bridge EXCEPT !.last = TRUE], guest)
     \/ \E g \in GuestsAfterLoss(TRUE) : FailsAfterGuest(bridge, g)
  /\ UNCHANGED <<dvars, opening, releases, stuck>>

\* What the bridge does when the flight it awaited has settled.
ReportsForever ==                                                \* mutant
  /\ ContinuationDue
  /\ \/ bridge.from = "op" /\ Report(bridge, guest) /\ UNCHANGED op
     \/ /\ bridge.from # "op"
        /\ bridge' = IF bridge.from = "answer" THEN Caught(state)
                                               ELSE NoService
        /\ UNCHANGED <<ctl, op, lease, guest>>
  /\ UNCHANGED <<dvars, opening, releases, stuck>>
BridgeResumes ==
  /\ ContinuationDue
  /\ \/ /\ bridge.from = "op" /\ ~bridge.last
        /\ Report([bridge EXCEPT !.last = TRUE], guest)
        /\ UNCHANGED op
     \/ /\ bridge.from = "op" /\ bridge.last
        /\ op' = NoOp
        /\ bridge' = IF bridge.done THEN NoService ELSE Caught(state)
        /\ UNCHANGED <<ctl, lease, guest>>
     \/ /\ bridge.from # "op"
        /\ bridge' = IF bridge.from = "answer" THEN Caught(state)
                                               ELSE NoService
        /\ UNCHANGED <<ctl, op, lease, guest>>
  /\ UNCHANGED <<dvars, opening, releases, stuck>>

-----------------------------------------------------------------------------
\* mutate, publishPlan, compact, exportOverlay: the calls that hold `busy`

HostBegins(k) ==
  /\ k \in HostCalls \cap {"mutate", "collect"} /\ CanMutate
  /\ op' = OpCall(k)
  /\ UNCHANGED <<dvars, ctl, opening, lease, releases, stuck, bridge, guest>>

\* An exception before the guest was told anything.
OpThrows(st) ==
  /\ op' = NoOp
  /\ bridge' = IF op.kind = "write" THEN Caught(st) ELSE bridge

OpGrants ==
  /\ op.pc = "grant"
  /\ \/ /\ Usable(disk.session) /\ ~disk.readOnly
        /\ grant = 0 /\ issued + 1 \in Epochs /\ Grant(issued + 1)
        /\ op' = [op EXCEPT !.epoch = issued + 1,
             !.pc = IF op.kind = "collect" THEN "collect" ELSE "plan"]
        /\ UNCHANGED bridge
     \/ OpThrows(state) /\ UNCHANGED dvars
  /\ UNCHANGED <<ctl, opening, lease, releases, stuck, guest>>

\* A failure before the guest was told anything: the lease is given back if
\* possible (TryCloseWriter), the disk closed and then reopened.
Retreats(pc) ==
  IF disk = NoDisk THEN OpThrows(state) /\ UNCHANGED live
  ELSE /\ live' = live \ {disk.session}
       /\ op' = [op EXCEPT !.pc = pc] /\ UNCHANGED bridge

\* The next step of a write after its tree is stored, or need not be.
GuestFirst(k, next) == IF k = "write" THEN "guest" ELSE next

\* publishPlan refuses a disk that an open() has meanwhile made read-only.
OpPlans ==
  /\ op.pc = "plan"
  /\ \/ /\ Usable(disk.session) /\ ~disk.readOnly
        /\ \E r \in Roots :
             /\ op.kind = "write" => r = bridge.request.root
             /\ op' = [op EXCEPT !.closure = log, !.root = r,
                  !.pc = IF r = Tail1(log) THEN GuestFirst(op.kind, "close")
                                           ELSE "stage"]
        /\ UNCHANGED <<dvars, live, bridge>>
     \/ TryCloseWriter /\ Retreats("replan")
     \/ disk.readOnly /\ OpThrows(state) /\ UNCHANGED <<dvars, live>>
  /\ UNCHANGED <<state, disk, marker, markerFailed, flights, opening, lease,
                 releases, stuck, guest>>

GuestBeforeStage ==                                              \* mutant
  /\ op.pc = "stage"
  /\ \/ /\ Granted /\ UNCHANGED <<dvars, live, bridge>>
        /\ op' = [op EXCEPT !.pc = GuestFirst(op.kind, "commit")]
     \/ TryCloseWriter /\ Retreats("repair")
  /\ UNCHANGED <<state, disk, marker, markerFailed, flights, opening, lease,
                 releases, stuck, guest>>
OpStages ==
  /\ op.pc = "stage"
  /\ \/ /\ Granted /\ Stage(op.root)
        /\ op' = [op EXCEPT !.pc = GuestFirst(op.kind, "commit")]
        /\ UNCHANGED <<live, bridge>>
     \/ TryCloseWriter /\ Retreats("repair")
  /\ UNCHANGED <<state, disk, marker, markerFailed, flights, opening, lease,
                 releases, stuck, guest>>

\* The reopening after a retreat.  Should it fail, publishPlan drops the disk
\* and mutate's own catch keeps the closed handle.
OpReopens ==
  /\ op.pc \in {"replan", "repair"}
  /\ \/ \E ro \in BOOLEAN : /\ Reopened(ro) /\ state' = StateAfter(ro)
                            /\ OpThrows(StateAfter(ro))
     \/ /\ op.pc = "replan" /\ OpThrows(state)
        /\ UNCHANGED <<dvars, state, disk, live>>
     \/ /\ op.pc = "repair" /\ disk' = NoDisk
        /\ state' = "RECOVERY_REQUIRED" /\ OpThrows("RECOVERY_REQUIRED")
        /\ UNCHANGED <<dvars, live>>
  /\ UNCHANGED <<marker, markerFailed, flights, opening, lease, releases, stuck,
                 guest>>

\* The failure of closeWriter or commit, which follow the guest's completion
\* if there is one.
SilentFailure ==                                                 \* mutant
  IF op.kind = "write"
  THEN /\ op' = NoOp /\ bridge' = NoService
       /\ UNCHANGED <<ctl, lease, guest>>
  ELSE /\ Retreats("repair")
       /\ UNCHANGED <<state, disk, marker, markerFailed, flights, lease, guest>>
LateFailure ==
  IF op.kind = "write"
  THEN FailsAfterGuest([bridge EXCEPT !.last = TRUE], guest)
  ELSE /\ Retreats("repair")
       /\ UNCHANGED <<state, disk, marker, markerFailed, flights, lease, guest>>

OpSucceeds == /\ op' = NoOp
              /\ bridge' = IF op.kind = "write" THEN NoService ELSE bridge

OpCommits ==
  /\ op.pc = "commit"
  /\ \/ /\ Usable(disk.session) /\ PublishLands
        /\ state' = "CLEAN" /\ OpSucceeds
        /\ UNCHANGED <<disk, live, marker, markerFailed, flights, lease,
                       guest>>
     \/ LateFailure /\ PublishLands
     \/ LateFailure /\ IF op.kind = "write" THEN UNCHANGED dvars
                                             ELSE TryCloseWriter
  /\ UNCHANGED <<opening, releases, stuck>>

\* closeWriter after an unchanged plan, an export or a collection.
OpCloses ==
  /\ op.pc = "close"
  /\ \/ /\ Granted /\ Release /\ OpSucceeds
        /\ UNCHANGED <<ctl, lease, guest>>
     \/ /\ op.kind = "collect" /\ op' = NoOp
        /\ UNCHANGED <<dvars, ctl, bridge, lease, guest>>
     \/ /\ op.kind # "collect" /\ LateFailure
        /\ IF op.kind = "write" THEN UNCHANGED dvars ELSE TryCloseWriter
  /\ UNCHANGED <<opening, releases, stuck>>

\* exportOverlay reads only; compact keeps what the store needs.
OpCollects ==
  /\ op.pc = "collect"
  /\ \/ /\ Granted /\ readable' \in {readable, Needed} /\ Needed \subseteq readable
        /\ UNCHANGED <<log, owner, issued, grant, pinned>>
        /\ op' = [op EXCEPT !.pc = "close"]
     \/ TryCloseWriter /\ op' = NoOp
  /\ UNCHANGED <<ctl, opening, lease, releases, stuck, bridge, guest>>

-----------------------------------------------------------------------------
\* open, recover, close

HostOpens ==
  /\ "open" \in HostCalls /\ LeaseFree /\ disk = NoDisk /\ ~opening
  /\ opening' = TRUE
  /\ UNCHANGED <<dvars, ctl, op, lease, releases, stuck, bridge, guest>>

OpenSettles ==
  /\ opening /\ opening' = FALSE
  /\ \/ \E ro \in BOOLEAN : Reopened(ro) /\ state' = StateAfter(ro)
     \/ UNCHANGED <<dvars, disk, live, state>>
  /\ UNCHANGED <<marker, markerFailed, flights, op, lease, releases, stuck,
                 bridge, guest>>

HostRecovers ==
  /\ "recover" \in HostCalls /\ LeaseFree /\ ~Busy
  /\ live' = live \ {disk.session} /\ disk' = NoDisk
  /\ op' = [NoOp EXCEPT !.kind = "recover", !.pc = "recover",
                        !.captured = marker]
  /\ UNCHANGED <<dvars, state, marker, markerFailed, flights, opening, lease,
                 releases, stuck, bridge, guest>>

RecoverSettles ==
  /\ op.pc = "recover" /\ op' = NoOp
  /\ \/ /\ Reopened(FALSE) /\ state' = "CLEAN" /\ Cleared(op.captured)
     \/ /\ Reopened(TRUE) /\ state' = "RECOVERY_REQUIRED"
        /\ UNCHANGED <<marker, markerFailed>>
     \/ /\ state' = "RECOVERY_REQUIRED"
        /\ UNCHANGED <<dvars, disk, live, marker, markerFailed>>
  /\ UNCHANGED <<flights, opening, lease, releases, stuck, bridge, guest>>

HostCloses ==
  /\ "close" \in HostCalls /\ LeaseFree /\ ~Busy /\ disk # NoDisk
  /\ live' = live \ {disk.session} /\ disk' = NoDisk
  /\ UNCHANGED <<dvars, state, marker, markerFailed, flights, op, opening,
                 lease, releases, stuck, bridge, guest>>

-----------------------------------------------------------------------------
\* Snapshot review: acquire

Accessible == ~Busy /\ disk # NoDisk /\ ~disk.readOnly /\ state = "CLEAN"
CanAcquire == LeaseFree /\ Accessible
Acquiring(again) ==
  [NoLease EXCEPT !.phase = "ACQUIRING", !.pc = "check", !.resumed = again,
                  !.session = disk.session, !.pin = disk.session]

\* assertSnapshotReviewContinuity
Continuous == /\ lease.phase = "ACQUIRING" /\ disk.session = lease.session
              /\ ~disk.readOnly /\ state = "CLEAN" /\ ~Busy

AcquireBegins ==
  /\ "review" \in HostCalls /\ CanAcquire /\ ~stuck
  /\ lease' = Acquiring(FALSE)
  /\ UNCHANGED <<dvars, ctl, op, opening, releases, stuck, bridge, guest>>

\* Without a pin a failure drops the lease.  If the call had resumed an older
\* acquisition, its catch then restores that record, whose pin is gone.
AcquireFails == lease' = NoLease /\ stuck' = lease.resumed

\* The active closure is exported and confirmed.
AcquireChecks ==
  /\ lease.pc = "check"
  /\ \/ /\ Usable(lease.session) /\ Continuous
        /\ lease' = [lease EXCEPT !.pc = "pin", !.binding = log]
        /\ UNCHANGED stuck
     \/ AcquireFails
  /\ UNCHANGED <<dvars, ctl, op, opening, releases, bridge, guest>>

\* rollbackSnapshotReviewPin captures its fence when it starts.
RollingBack(l) == [l EXCEPT !.pc = IF l.fresh THEN "await" ELSE "reopen",
                            !.fenceEpoch = l.epoch, !.fenceFresh = l.fresh]

AcquirePins ==
  /\ lease.pc = "pin"
  /\ \/ /\ Usable(lease.session) /\ Pin(ReviewPin)
        /\ lease' = IF Continuous THEN [lease EXCEPT !.pc = "recheck"]
                                  ELSE RollingBack(lease)
        /\ UNCHANGED stuck
     \/ AcquireFails /\ UNCHANGED dvars
     \/ AcquireFails /\ lease.session = owner /\ Pin(ReviewPin)
  /\ UNCHANGED <<ctl, op, opening, releases, bridge, guest>>

AcquireRechecks ==
  /\ lease.pc = "recheck"
  /\ \/ /\ Usable(lease.session) /\ Continuous /\ log = lease.binding
        /\ lease' = [lease EXCEPT !.phase = "HELD", !.pc = "none",
                                  !.resumed = FALSE]
     \/ lease' = RollingBack(lease)
  /\ UNCHANGED <<dvars, ctl, op, opening, releases, stuck, bridge, guest>>

RollbackFenceHolds == /\ lease.fenceEpoch = lease.epoch
                      /\ lease.fenceFresh = lease.fresh
\* The same catch replaces authorityRecord.recovery by the older record.
RollbackFails ==
  /\ lease' = [lease EXCEPT !.phase = "RECOVERY_REQUIRED", !.pc = "none",
                            !.resumed = FALSE]
  /\ stuck' = (lease.resumed /\ lease.phase = "ACQUIRING")

RollbackAwaits ==
  /\ lease.pc = "await"
  /\ \/ /\ flights[lease.fenceEpoch] = "ok" /\ RollbackFenceHolds
        /\ lease' = [lease EXCEPT !.pc = "reopen"] /\ UNCHANGED stuck
     \/ /\ \/ flights[lease.fenceEpoch] = "failed"
           \/ flights[lease.fenceEpoch] = "ok" /\ ~RollbackFenceHolds
        /\ RollbackFails
  /\ UNCHANGED <<dvars, ctl, op, opening, releases, bridge, guest>>

RollbackReopens ==
  /\ lease.pc = "reopen"
  /\ \/ /\ RollbackFenceHolds /\ Reopened(FALSE) /\ state' = "CLEAN"
        /\ lease' = [lease EXCEPT !.pc = "unpin", !.session = owner + 1]
        /\ UNCHANGED stuck
     \/ RollbackFails /\ UNCHANGED <<dvars, disk, live, state>>
  /\ UNCHANGED <<marker, markerFailed, flights, op, opening, releases,
                 bridge, guest>>

\* acquire() after a failed rollback resumes it, and only then starts anew.
RollbackUnpins ==
  /\ lease.pc = "unpin"
  /\ \/ /\ Usable(lease.session) /\ Unpin({ReviewPin})
        /\ IF lease.phase = "RECOVERING" /\ Accessible
           THEN lease' = Acquiring(TRUE) /\ UNCHANGED stuck
           ELSE AcquireFails
     \/ RollbackFails /\ UNCHANGED dvars
  /\ UNCHANGED <<ctl, op, opening, releases, bridge, guest>>

AcquireResumes ==
  /\ "review" \in HostCalls /\ lease.phase = "RECOVERY_REQUIRED" /\ ~stuck
  /\ lease' = RollingBack([lease EXCEPT !.phase = "RECOVERING",
                                        !.resumed = TRUE])
  /\ UNCHANGED <<dvars, ctl, op, opening, releases, stuck, bridge, guest>>

-----------------------------------------------------------------------------
\* Snapshot review: release.  Each attempt carries the fence it captured; an
\* attempt that was superseded may go on, or hang, next to a newer one.

ReleaseBegins ==
  /\ lease.phase \in {"HELD", "RELEASE_REQUIRED"}
  /\ lease.attempt < MaxAttempts
  /\ lease' = [lease EXCEPT !.phase = "RELEASING", !.attempt = @ + 1]
  /\ releases' = releases \cup
       {[attempt |-> lease.attempt + 1, epoch |-> lease.epoch,
         fresh |-> lease.fresh, session |-> lease.session,
         pc |-> IF lease.fresh THEN "await"
                ELSE IF lease.phase = "RELEASE_REQUIRED" THEN "reopen"
                ELSE "unpin"]}
  /\ UNCHANGED <<dvars, ctl, op, opening, stuck, bridge, guest>>

NoFence(t) == TRUE                                               \* mutant
\* assertSnapshotReviewReleaseFence
FenceHolds(t) == /\ t.attempt = lease.attempt /\ t.epoch = lease.epoch
                 /\ t.fresh = lease.fresh

NeverReleasable(t) ==                                            \* mutant
  releases' = releases \ {t} /\ UNCHANGED lease
ReleaseThrows(t) ==
  /\ releases' = releases \ {t}
  /\ lease' = IF lease.attempt = t.attempt
              THEN [lease EXCEPT !.phase = "RELEASE_REQUIRED"] ELSE lease

ReleaseMoves(t, u) == releases' = (releases \ {t}) \cup {u}

ReleaseAwaits(t) ==
  /\ t \in releases /\ t.pc = "await" /\ flights[t.epoch] # "pending"
  /\ IF flights[t.epoch] = "ok" /\ FenceHolds(t)
     THEN ReleaseMoves(t, [t EXCEPT !.pc = "reopen"]) /\ UNCHANGED lease
     ELSE ReleaseThrows(t)
  /\ UNCHANGED <<dvars, ctl, op, opening, stuck, bridge, guest>>

\* An overtaken handle is closed again, but its session has taken over.
ReleaseReopens(t) ==
  /\ t \in releases /\ t.pc = "reopen"
  /\ \/ /\ FenceHolds(t) /\ Reopened(FALSE)
        /\ state' = IF t.fresh THEN state ELSE "CLEAN"
        /\ lease' = [lease EXCEPT !.session = owner + 1]
        /\ ReleaseMoves(t, [t EXCEPT !.pc = "unpin", !.session = owner + 1])
     \/ /\ owner + 1 \in Sessions /\ TakeOver(owner + 1)
        /\ ReleaseThrows(t) /\ UNCHANGED <<state, disk, live>>
     \/ ReleaseThrows(t) /\ UNCHANGED <<dvars, state, disk, live>>
  /\ UNCHANGED <<marker, markerFailed, flights, op, opening, stuck, bridge,
                 guest>>

\* The lease ends; of its superseded attempts nothing can follow that a rival
\* could not do as well.
ReleaseUnpins(t) ==
  /\ t \in releases /\ t.pc = "unpin"
  /\ \/ /\ Usable(t.session) /\ Unpin({ReviewPin})
        /\ IF ~FenceHolds(t)
           THEN ReleaseThrows(t) /\ UNCHANGED <<state, marker, markerFailed>>
           ELSE /\ lease' = NoLease /\ releases' = {}
                /\ IF t.fresh /\ state = "IN_DOUBT"
                   THEN Cleared(t.epoch) /\ state' = "CLEAN"
                   ELSE UNCHANGED <<state, marker, markerFailed>>
     \/ /\ t.session = owner /\ Unpin({ReviewPin})
        /\ ReleaseThrows(t) /\ UNCHANGED <<state, marker, markerFailed>>
     \/ /\ ReleaseThrows(t) /\ UNCHANGED <<dvars, state, marker, markerFailed>>
  /\ UNCHANGED <<disk, live, flights, op, opening, stuck, bridge, guest>>

-----------------------------------------------------------------------------

Environment ==
  \/ RivalTakesOver
  \/ \E q \in Requests : GuestIssues(q)
  \/ \E k \in HostCalls : HostBegins(k)
  \/ HostOpens \/ HostRecovers \/ HostCloses
  \/ AcquireBegins \/ AcquireResumes \/ ReleaseBegins

Replacement == \E f \in 1..MaxFlights : WorkerReplaced(f) \/ ReplacementFails(f)
BridgeStep == \/ BridgeTakes \/ BridgeReads \/ BridgeWrites \/ BridgeAnswers
              \/ BridgeCompletesWrite
OpStep == \/ OpGrants \/ OpPlans \/ OpStages \/ OpCommits \/ OpCloses
          \/ OpCollects \/ OpReopens \/ RecoverSettles
AcquireStep == \/ AcquireChecks \/ AcquirePins \/ AcquireRechecks
               \/ RollbackAwaits \/ RollbackReopens \/ RollbackUnpins
ReleaseStep(t) == ReleaseAwaits(t) \/ ReleaseReopens(t) \/ ReleaseUnpins(t)

CNext ==
  \/ BridgeResumes
  \/ /\ ~ContinuationDue
     /\ \/ Environment \/ Replacement \/ BridgeStep \/ OpStep \/ OpenSettles
        \/ AcquireStep \/ \E t \in releases : ReleaseStep(t)

CSpec == CInit /\ [][CNext]_cvars

\* Every promise settles: IndexedDB requests fire success or error, the shell
\* times out worker responses, replaceWorker returns; and what has settled
\* gets its turn in the event loop although continuations come first (strong
\* fairness).  Superseded releases are the exception: they may hang.
Turn(A) == ~ContinuationDue /\ A
CFairness ==
  /\ WF_cvars(BridgeResumes)
  /\ SF_cvars(Turn(BridgeStep))
  /\ SF_cvars(Turn(OpStep))
  /\ SF_cvars(Turn(AcquireStep))
  /\ SF_cvars(Turn(Replacement))
  /\ SF_cvars(Turn(\E t \in releases :
                    t.attempt = lease.attempt /\ ReleaseStep(t)))
CFairSpec == CSpec /\ CFairness

-----------------------------------------------------------------------------
\* Properties

CTypeOK ==
  /\ state \in {"CLEAN", "IN_DOUBT", "RECOVERY_REQUIRED"}
  /\ disk \in [session : {0} \cup Sessions, readOnly : BOOLEAN]
  /\ live \subseteq Sessions /\ owner \in Sessions
  /\ marker \in 0..MaxFlights /\ markerFailed \in BOOLEAN
  /\ flights \in [1..MaxFlights -> {"unused", "pending", "ok", "failed"}]
  /\ op.kind \in {"none", "write", "mutate", "collect", "recover"}
  /\ lease.session \in {0} \cup Sessions /\ lease.epoch \in 0..MaxFlights
  /\ lease.fresh <=> lease.epoch # 0
  /\ pinned \subseteq Pins /\ readable \subseteq Roots
  /\ guest.acked \subseteq Roots /\ opening \in BOOLEAN

\* A write that the running guest was told is done is in the published
\* history, or it is still being published, or its loss has been reported to
\* the controller; no failure in between is overlooked.
AckedIsPublished ==
  guest.acked \subseteq RootsIn(log) \/ op.kind = "write" \/ guest.suspect

\* The guest is told that a write is done only when its whole tree is stored.
StagedBeforeGuest ==
  [][guest'.acked \ guest.acked \subseteq readable]_cvars

\* One loss replaces one worker: the second report of a loss never takes
\* down the worker that has just replaced the lost one.
OnlySuspectsReplaced ==
  [][guest.up /\ ~guest'.up => guest'.suspect]_cvars

\* While the holder of a review lease is in the session it was granted in,
\* the reviewed closure is the active one and its root is pinned.
ReviewFrozen ==
  lease.phase = "HELD" /\ owner = lease.pin =>
    log = lease.binding /\ ReviewPin \in pinned

\* After an ambiguous completion a lease keeps the controller in doubt, and
\* without a handle until the replacement for the last loss has succeeded.
LeaseKeepsDoubt ==
  lease.phase \in {"HELD", "RELEASE_REQUIRED", "RELEASING"} /\ lease.fresh =>
    /\ state = "IN_DOUBT"
    /\ disk = NoDisk \/ flights[lease.epoch] = "ok"

\* A report that is not the second one of the same loss.
FirstReport == bridge.pc # "wait" /\ bridge'.pc = "wait"

\* If publication fails after the guest advanced, or the response is lost,
\* the controller enters IN_DOUBT and closes the durable handle.
LossFences == [][FirstReport => state' = "IN_DOUBT" /\ disk' = NoDisk]_cvars

\* If the rollback of an acquisition fails, the next acquire() retries it: the
\* authority still names the record that holds the pin.
RecoveryRetryable == lease.phase = "RECOVERY_REQUIRED" => ~stuck

\* A service whose completion was lost emits no second completion, neither to
\* the lost worker nor to the one that has replaced it.
OneCompletionPerLoss ==
  [][bridge.flight # 0 => bridge'.pc # "apology"]_cvars

\* serviceOnce always ends, as long as the bound on losses is not exhausted.
BridgeReturns ==
  bridge.pc # "idle" ~> bridge.pc = "idle" \/ NextFlight > MaxFlights

\* acquire() and release() always settle.
ReviewSettles ==
  lease.phase \in {"ACQUIRING", "RECOVERING", "RELEASING"} ~>
    lease.phase \in {"NONE", "HELD", "RELEASE_REQUIRED", "RECOVERY_REQUIRED"}
=============================================================================
