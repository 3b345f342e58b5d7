----------------------------- MODULE GuestDisk -----------------------------
(***************************************************************************)
(* A guest disk transfer, end to end: the disk controller of               *)
(* core/usim-port/disk-controller.c, the one-request host protocol of      *)
(* core/cadr_core.c and the block service of host/cadr_m4_block_service.c, *)
(* which keeps the volatile copy of block 1.                               *)
(*                                                                         *)
(* The guest starts a command; the controller follows a list of CCWs and   *)
(* issues one host request per page.  The service captures the request,    *)
(* waits its latency and delivers a completion, which the core queues and  *)
(* applies in a turn of its own.  A core reset, a snapshot, a restore, a   *)
(* new machine, a duplicate delivery or a detached service may come        *)
(* between any two of these steps.                                         *)
(*                                                                         *)
(* Data abstraction.  A page is one value; a disk address is a block       *)
(* number.  The registers are those of the transfer under way: a register  *)
(* write has no effect until START, which the guest action includes.  The  *)
(* sticky error bits, interrupt requests and the memory address register   *)
(* are left out: the guest reads them, no step of the controller does.     *)
(***************************************************************************)
EXTENDS Integers, Sequences

CONSTANTS
  Values,       \* contents of a page
  Pages,        \* guest memory pages that exist
  NoPage,       \* a page address outside guest memory
  None,         \* no request, completion, page or snapshot
  Commands,     \* transfer commands in use
  Lists,        \* CCW lists in guest memory: sequences of [page, more]
  DriveBlocks,  \* blocks of the drive's geometry
  Image,        \* the immutable base image, block by block
  MaxGen,       \* MAX_U64 of the request generation
  MaxId,        \* MAX_U64 of the request ID
  MaxTick,      \* MAX_U64 of the guest tick
  MaxLives      \* bound on machines made by restore or replacement

ASSUME CommandsAssumption == Commands \subseteq {"read", "compare", "write"}
ASSUME ListsAssumption ==
  Lists \subseteq Seq([page : Pages \cup {NoPage}, more : BOOLEAN])
ASSUME BoundAssumption ==
  /\ {DriveBlocks, MaxGen, MaxId, MaxTick, MaxLives} \subseteq Nat
  /\ DriveBlocks >= 2 /\ MaxGen >= 1 /\ MaxId >= 1
ASSUME ImageAssumption ==
  \E n \in 2..DriveBlocks : Image \in [0..n-1 -> Values]
ASSUME NoneAssumption == NoPage \notin Pages /\ None \notin Values

VARIABLES
  core,     \* cadr_machine_state.events and .lifecycle
  disk,     \* cadr_disk_state
  mem,      \* guest memory
  service,  \* cadr_m4_block_service without its overlay
  overlay,  \* the committed copy of block 1
  tick,     \* the guest tick the caller passes to a poll
  latency,  \* cadr_m4_block_service_config.latency_ticks
  saved,    \* the snapshot on file, if any
  sent,     \* the last completion delivered to this machine
  believed, \* what block 1 holds by this machine's own history
  lives     \* machines made so far

machine == <<core, disk, mem>>
vars == <<core, disk, mem, service, overlay, tick, latency, saved, sent,
          believed, lives>>

Blocks == 0..DriveBlocks
Request == [gen : 1..MaxGen, id : 1..MaxId, op : {"read", "write"},
            block : Blocks, data : Values \cup {None}]
CompletionRecord == [ok : BOOLEAN, data : Values \cup {None}, from : Request]

ASSUME RecordAssumption == None \notin Request \cup CompletionRecord

-----------------------------------------------------------------------------
\* Initial records

FreshCore == [life |-> "POWERED", gen |-> 1, next |-> 1, req |-> None,
              last |-> 0, done |-> None]
FreshDisk == [cmd |-> "read", list |-> <<>>, da |-> 0, ccw |-> 1,
              active |-> FALSE, idle |-> TRUE, reset |-> FALSE]
IdleService == [pending |-> FALSE, req |-> None, due |-> 0, ok |-> FALSE,
                data |-> None, staged |-> None, replay |-> FALSE]
NoOverlay == [valid |-> FALSE, data |-> None, version |-> 0, by |-> <<0, 0>>]

Init ==
  /\ core = FreshCore /\ disk = FreshDisk
  /\ mem \in [Pages -> Values]
  /\ service = IdleService /\ overlay = NoOverlay
  /\ tick = 0 /\ latency \in {0, 1}
  /\ saved = None /\ sent = None /\ believed = Image[1] /\ lives = 0

-----------------------------------------------------------------------------
\* The core's side of the host protocol

\* The identity under which the service must answer a request.
Identity(q) == <<q.gen, q.id>>
Older(a, b) == a[1] < b[1] \/ (a[1] = b[1] /\ a[2] < b[2])

IssueAtLimit(c) == c.req = None /\ c.done = None         \* mutant

\* cadr_core_issue_host_request and its M4 form, for a running machine.
CanIssue(c) == c.req = None /\ c.done = None /\ c.next < MaxId

Issue(c, op, block, data) ==
  [c EXCEPT !.req = [gen |-> c.gen, id |-> c.next, op |-> op,
                     block |-> block, data |-> data],
            !.next = @ + 1]

\* A completion of request q is accepted: it is of this generation, newer than
\* the last one retired, names the outstanding request, and none is queued.
Answers(c, q) ==
  /\ q.gen = c.gen /\ q.id > c.last
  /\ c.req # None /\ q.id = c.req.id /\ q.op = c.req.op
  /\ c.done = None

\* A completion: its status and page, and the request it was captured from.
Completion(s) == [ok |-> s.ok, data |-> s.data, from |-> s.req]

Accept(c, d) == [c EXCEPT !.done = d]

\* What applying a completion leaves of the request: nothing.
Retire(c) == [c EXCEPT !.last = c.req.id, !.req = None, !.done = None]

-----------------------------------------------------------------------------
\* The disk controller

\* A CCW can be fetched while the list lies in guest memory.
Ccw(d) == d.list[d.ccw]
CcwReadable(d) == d.ccw <= Len(d.list)

\* The end of a transfer, with or without an error.
Finish(d) == [FreshDisk EXCEPT !.reset = d.reset]

\* cadr_disk_issue_current_ccw: the pair of the controller and the core.
IssueCcw(d, c) ==
  IF /\ CcwReadable(d)
     /\ d.cmd = "write" => Ccw(d).page \in Pages
     /\ CanIssue(c)
  THEN <<d, IF d.cmd = "write"
            THEN Issue(c, "write", d.da, mem[Ccw(d).page])
            ELSE Issue(c, "read", d.da, None)>>
  ELSE <<Finish(d), c>>

\* The end of a page that moved: the transfer ends, runs off the drive, or
\* is to be continued with the next CCW.
PageDone(d) ==
  IF Ccw(d).more /\ d.da + 1 < DriveBlocks
  THEN [d EXCEPT !.ccw = @ + 1, !.da = @ + 1]
  ELSE Finish(d)

\* The two cadr_disk_apply_block_*_completion: the controller after them.
ApplyToDisk(d, a) ==
  CASE ~d.active -> d
    [] d.active /\ (~a.ok \/ Ccw(d).page \notin Pages) -> Finish(d)
    [] OTHER -> PageDone(d)

\* ... and guest memory after them.
ApplyToMemory(d, a) ==
  IF d.active /\ a.ok /\ d.cmd = "read" /\ Ccw(d).page \in Pages
  THEN [mem EXCEPT ![Ccw(d).page] = a.data] ELSE mem

NoContinue(d, c) == <<d, c>>                            \* mutant

\* cadr_disk_continue: the next CCW, in the same turn.
Continue(d, c) == IF d.active THEN IssueCcw(d, c) ELSE <<d, c>>

-----------------------------------------------------------------------------
\* The machine's steps

RunsUnderRequest == core.life = "RUNNING" /\ core.done = None \* mutant

\* cadr_machine_run executes guest slots only with no request outstanding.
CanExecute ==
  core.life = "RUNNING" /\ core.req = None /\ core.done = None

Boot ==
  /\ core.life = "POWERED"
  /\ core' = [core EXCEPT !.life = "RUNNING"]
  /\ UNCHANGED <<disk, mem, service, overlay, tick, latency, saved, sent,
                 believed, lives>>

GuestStore(p, v) ==
  /\ CanExecute
  /\ mem' = [mem EXCEPT ![p] = v]
  /\ UNCHANGED <<core, disk, service, overlay, tick, latency, saved, sent,
                 believed, lives>>

\* Command, command list and address registers, then START of a transfer.
GuestStart(cmd, list, block) ==
  /\ CanExecute /\ ~disk.reset
  /\ LET d == [disk EXCEPT !.cmd = cmd, !.list = list, !.da = block]
         s == IF block >= DriveBlocks THEN <<Finish(d), core>>
              ELSE IssueCcw([d EXCEPT !.active = TRUE, !.ccw = 1,
                                      !.idle = FALSE], core)
     IN disk' = s[1] /\ core' = s[2]
  /\ UNCHANGED <<mem, service, overlay, tick, latency, saved, sent, believed,
                 lives>>

\* START of command 4, 5 or 6, which leaves the transfer alone, and of a
\* command that the controller does not implement, which ends it.
GuestOther ==
  /\ CanExecute /\ ~disk.reset
  /\ disk' \in {[disk EXCEPT !.idle = TRUE], Finish(disk)}
  /\ UNCHANGED <<core, mem, service, overlay, tick, latency, saved, sent,
                 believed, lives>>

\* Command 016, and command 0 that releases the reset condition.
GuestDiskReset ==
  /\ CanExecute
  /\ \/ disk' = [FreshDisk EXCEPT !.reset = TRUE]
     \/ disk.reset /\ disk' = [disk EXCEPT !.reset = FALSE]
  /\ UNCHANGED <<core, mem, service, overlay, tick, latency, saved, sent,
                 believed, lives>>

\* cadr_apply_completion: a turn of no guest slot.
Apply ==
  /\ core.life = "RUNNING" /\ core.done # None
  /\ LET a == core.done
         s == Continue(ApplyToDisk(disk, a), Retire(core))
     IN /\ disk' = s[1] /\ core' = s[2]
        /\ mem' = ApplyToMemory(disk, a)
        /\ believed' = IF core.req.op = "write" /\ a.ok THEN core.req.data
                       ELSE believed
  /\ UNCHANGED <<service, overlay, tick, latency, saved, sent, lives>>

\* A write whose completion the core has accepted is on the media, whether
\* or not the guest hears of it.
Accepted ==
  core.done # None /\ core.req # None /\ core.req.op = "write" /\ core.done.ok

\* cadr_machine_reset: requests are invalidated, the controller is not told.
Reset ==
  /\ core.gen < MaxGen
  /\ core' = [core EXCEPT !.life = "POWERED", !.gen = @ + 1, !.req = None,
                          !.last = 0, !.done = None]
  /\ believed' = IF Accepted THEN core.req.data ELSE believed
  /\ UNCHANGED <<disk, mem, service, overlay, tick, latency, saved, sent, lives>>

-----------------------------------------------------------------------------
\* The block service

Media(b) == IF b = 1 /\ overlay.valid THEN overlay.data ELSE Image[b]

\* write_request_is_valid
Replays(q) == overlay.valid /\ overlay.by = Identity(q)
ReplayUnread(q) ==                                      \* mutant
  /\ q.block = 1
  /\ overlay.valid /\ ~Replays(q) => Older(overlay.by, Identity(q))
AnyIdentity(q) ==                                       \* mutant
  q.block = 1 /\ (Replays(q) => overlay.data = q.data)
WriteValid(q) ==
  /\ q.block = 1
  /\ Replays(q) => overlay.data = q.data
  /\ overlay.valid /\ ~Replays(q) => Older(overlay.by, Identity(q))

RequestValid(q) == IF q.op = "read" THEN q.block \in DOMAIN Image
                   ELSE WriteValid(q)

\* A poll that finds a request: it is validated and copied, a write is
\* staged; a failure, its own or an injected one, drops the stage.
Captured(q, injected) ==
  LET stages == q.op = "write" /\ RequestValid(q) /\ ~Replays(q)
      ok == RequestValid(q) /\ ~injected
      staged == IF stages THEN q.data ELSE service.staged
  IN [pending |-> TRUE, req |-> q, due |-> tick + latency, ok |-> ok,
      data |-> IF q.op = "read" /\ ok THEN Media(q.block) ELSE None,
      staged |-> IF ok \/ tick + latency > MaxTick THEN staged ELSE None,
      replay |-> q.op = "write" /\ RequestValid(q) /\ Replays(q)]

\* What a poll leaves of the service when the core has answered.
Delivered(s) == [IdleService EXCEPT
                   !.staged = IF s.req.op = "write" THEN None ELSE s.staged]
Refused == IdleService

\* The overlay after an accepted delivery.
Published(s) ==
  IF s.req.op = "write" /\ s.ok /\ s.staged # None
  THEN [valid |-> TRUE, data |-> s.staged, version |-> overlay.version + 1,
        by |-> Identity(s.req)]
  ELSE overlay

Deliver(s) ==
  /\ sent' = Completion(s)
  /\ IF Answers(core, s.req)
     THEN /\ core' = Accept(core, Completion(s))
          /\ overlay' = Published(s)
          /\ service' = Delivered(s)
     ELSE /\ service' = Refused
          /\ UNCHANGED <<core, overlay>>

\* cadr_m4_block_service_poll
Poll ==
  /\ \/ service.pending
     \/ core.req # None /\ core.done = None
  /\ \E injected \in BOOLEAN :
       LET s == IF service.pending THEN service
                ELSE Captured(core.req, injected)
       IN CASE s.due > MaxTick ->
                 /\ service' = [IdleService EXCEPT !.staged = s.staged]
                 /\ UNCHANGED <<core, overlay, sent>>
            [] s.due <= MaxTick /\ tick < s.due ->
                 service' = s /\ UNCHANGED <<core, overlay, sent>>
            [] OTHER -> Deliver(s)
  /\ UNCHANGED <<disk, mem, tick, latency, saved, believed, lives>>

\* The guest tick matters to a service with a latency only.
Tick ==
  /\ latency > 0 /\ tick < MaxTick
  /\ tick' = tick + 1
  /\ UNCHANGED <<core, disk, mem, service, overlay, latency, saved, sent,
                 believed, lives>>

\* A completion that was already delivered to this machine comes again.
Redeliver ==
  /\ sent # None
  /\ core' = IF Answers(core, sent.from) THEN Accept(core, sent)
             ELSE core
  /\ UNCHANGED <<disk, mem, service, overlay, tick, latency, saved, sent,
                 believed, lives>>

\* cadr_m4_block_service_discard.  The host discards between turns, with no
\* accepted completion waiting to be applied; the guest's writes are given up.
Discard ==
  /\ core.done = None
  /\ service' = IdleService /\ overlay' = NoOverlay
  /\ believed' = Image[1]
  /\ UNCHANGED <<core, disk, mem, tick, latency, saved, sent, lives>>

-----------------------------------------------------------------------------
\* Snapshots, gated by the service, and machines put in another's place

GateIgnoresPending == service.staged = None /\ ~overlay.valid \* mutant
SnapshotReady == ~service.pending /\ service.staged = None /\ ~overlay.valid

\* One snapshot per behaviour is enough to come back to.
Save ==
  /\ SnapshotReady /\ saved = None /\ lives < MaxLives
  /\ saved' = [core |-> core, disk |-> disk, mem |-> mem,
               believed |-> believed]
  /\ UNCHANGED <<core, disk, mem, service, overlay, tick, latency, sent,
                 believed, lives>>

\* The last life has no use for a snapshot.
NextLife ==
  lives' = lives + 1 /\ saved' = IF lives + 1 < MaxLives THEN saved ELSE None

Restore ==
  /\ SnapshotReady /\ saved # None /\ lives < MaxLives
  /\ core' = saved.core /\ disk' = saved.disk /\ mem' = saved.mem
  /\ believed' = saved.believed
  /\ sent' = None /\ NextLife
  /\ UNCHANGED <<service, overlay, tick, latency>>

\* A new machine takes the place of the old one; the host keeps the service
\* and does so between its turns.
Replace ==
  /\ ~service.pending /\ service.staged = None /\ lives < MaxLives
  /\ core' = FreshCore /\ disk' = FreshDisk /\ UNCHANGED mem
  /\ believed' = Media(1)
  /\ sent' = None /\ NextLife
  /\ UNCHANGED <<service, overlay, tick, latency>>

-----------------------------------------------------------------------------
Guest ==
  \/ \E p \in Pages, v \in Values : GuestStore(p, v)
  \/ \E c \in Commands, l \in Lists, b \in Blocks : GuestStart(c, l, b)
  \/ GuestOther
  \/ GuestDiskReset

Host == Poll \/ Tick \/ Redeliver \/ Discard \/ Save \/ Restore \/ Replace

Next == Guest \/ Boot \/ Apply \/ Reset \/ Host

\* The host polls while a request is outstanding and runs the machine while
\* a completion is queued: the loop of cadr_m4_native.c.
Fairness == WF_vars(Poll) /\ WF_vars(Apply)

Spec == Init /\ [][Next]_vars /\ Fairness

-----------------------------------------------------------------------------
\* Properties

\* Every variable has its type.
GTypeOK ==
  /\ core.life \in {"POWERED", "RUNNING"}
  /\ core.gen \in 1..MaxGen /\ core.next \in 1..MaxId
  /\ core.last \in 0..MaxId
  /\ core.req \in Request \cup {None}
  /\ core.done \in CompletionRecord \cup {None}
  /\ disk.cmd \in Commands \cup {"read"} /\ disk.da \in Blocks /\ disk.ccw \in Nat \ {0}
  /\ disk.list \in Lists \cup {<<>>}
  /\ disk.active \in BOOLEAN /\ disk.idle \in BOOLEAN /\ disk.reset \in BOOLEAN
  /\ mem \in [Pages -> Values]
  /\ service.staged \in Values \cup {None}
  /\ overlay.valid => overlay.data \in Values
  /\ tick \in 0..MaxTick /\ latency \in {0, 1} /\ lives \in 0..MaxLives
  /\ believed \in Values

\* While a host request is outstanding the controller is in the transfer that
\* issued it, with the registers it was issued from: the guest cannot start,
\* reset or redirect the controller under a request (the early returns of
\* cadr_machine_run, and a reset or a restore that replaces both at once).
TransferOwnsRequest ==
  core.req # None =>
    /\ disk.active /\ ~disk.idle /\ ~disk.reset
    /\ core.req.block = disk.da
    /\ (core.req.op = "write") = (disk.cmd = "write")
    /\ core.req.op = "write" => core.req.data = mem[Ccw(disk).page]

\* A queued completion was captured from exactly the outstanding request, not
\* from one with the same ID in an abandoned future, an older generation or
\* an earlier machine (cadr_machine_complete_host_request with the snapshot
\* gate of the service).
CompletionAnswersRequest ==
  core.done # None => core.req # None /\ core.done.from = core.req

\* Block 1 holds what the machine's own history says: the last write it was
\* told had finished, or one accepted and not yet applied; no refused, failed,
\* cancelled or future write, whatever reset, replay or restore intervened.
MediaAsBelieved ==
  Media(1) = IF Accepted THEN core.req.data ELSE believed

\* The overlay changes only with the core's acceptance of the write it
\* publishes, whose payload it takes, and only to a newer identity.
CommitIsAccepted ==
  [][overlay' # overlay /\ overlay'.valid =>
       /\ core'.done # None /\ core'.done # core.done
       /\ core.req.op = "write" /\ core'.done.ok
       /\ overlay'.data = core.req.data /\ overlay'.by = Identity(core.req)
       /\ overlay.valid => Older(overlay.by, overlay'.by)]_vars

\* A transfer with an outstanding request ends, at latency zero: each page is
\* answered and applied and the chain of CCWs is followed to its end, unless
\* the guest's machine is reset or replaced.
TransferEnds ==
  \A g \in 1..MaxGen, n \in 0..MaxLives :
    (latency = 0 /\ core.req # None /\ core.gen = g /\ lives = n)
      ~> (~disk.active \/ core.gen # g \/ lives # n)
=============================================================================
