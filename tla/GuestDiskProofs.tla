-------------------------- MODULE GuestDiskProofs --------------------------
(***************************************************************************)
(* Proofs about GuestDisk for every geometry, guest memory, CCW list, base *)
(* image, latency and bound: what an outstanding request, a queued         *)
(* completion and the overlay have to do with each other, whatever resets, *)
(* restores, replacements, replays and duplicates come between.            *)
(***************************************************************************)
EXTENDS GuestDisk, TLAPS

-----------------------------------------------------------------------------
\* The inductive invariant

CoreRecord ==
  [life : {"POWERED", "RUNNING"}, gen : 1..MaxGen, next : 1..MaxId,
   req : Request \cup {None}, last : 0..MaxId,
   done : CompletionRecord \cup {None}]
DiskRecord ==
  [cmd : Commands \cup {"read"}, list : Lists \cup {<<>>}, da : Blocks,
   ccw : Nat \ {0}, active : BOOLEAN, idle : BOOLEAN, reset : BOOLEAN]
ServiceRecord ==
  [pending : BOOLEAN, req : Request \cup {None}, due : Nat, ok : BOOLEAN,
   data : Values \cup {None}, staged : Values \cup {None}, replay : BOOLEAN]

\* The outstanding request is the newest of its generation and not retired.
NewestRequest(c) ==
  c.req # None =>
    /\ c.req.gen = c.gen /\ c.last < c.req.id /\ c.req.id < c.next
    /\ c.req.op = "write" => c.req.data \in Values

\* A queued completion answers the outstanding request.
DoneAnswers(c) ==
  c.done # None =>
    /\ c.req # None /\ c.done.from = c.req
    /\ c.req.op = "read" /\ c.done.ok => c.done.data \in Values

CoreOK(c) ==
  c \in CoreRecord /\ c.last < c.next /\ NewestRequest(c) /\ DoneAnswers(c)

\* The transfer of controller d owns the request of core c.
Owns(c, d, m) ==
  c.req # None =>
    /\ d.active /\ ~d.idle /\ ~d.reset
    /\ c.req.block = d.da
    /\ (c.req.op = "write") = (d.cmd = "write")
    /\ c.req.op = "write" => c.req.data = m[Ccw(d).page]

MachineOK(c, d, m, v) ==
  /\ CoreOK(c) /\ d \in DiskRecord /\ m \in [Pages -> Values]
  /\ Owns(c, d, m) /\ v \in Values

\* Request q is one this machine has issued; if the outstanding request has
\* its identity, it is that request.
Issued(c, q) ==
  /\ q \in Request /\ q.gen <= c.gen
  /\ q.gen = c.gen =>
       /\ q.id < c.next
       /\ c.req # None /\ c.req.id = q.id => c.req = q

\* What core c will have told the guest of block 1 once it has applied the
\* completion it has queued.
Told(c, v) ==
  IF c.done # None /\ c.req # None /\ c.req.op = "write" /\ c.done.ok
  THEN c.req.data ELSE v

OverlayOK(o) == o.valid \in BOOLEAN /\ (o.valid => o.data \in Values)

\* A service with a captured request: its answer is ready, a write is staged
\* or was already published, and nobody else has answered.
CaptureOK(s, c, o) ==
  /\ s \in ServiceRecord /\ s.req \in Request /\ Issued(c, s.req)
  /\ s.req.op = "read" /\ s.ok => s.data \in Values
  /\ s.staged # None =>
       /\ s.req.op = "write" /\ s.staged = s.req.data
       /\ o.valid => Older(o.by, Identity(s.req))
  /\ s.req.op = "write" /\ s.ok /\ s.staged = None =>
       o.valid /\ o.data = s.req.data
  /\ c.req = s.req => c.done = None

\* Between requests a stage is left only by an answer due after the end of
\* the tick counter, and then every later answer is.
ServiceOK ==
  /\ service \in ServiceRecord
  /\ service.pending => CaptureOK(service, core, overlay) /\ service.due <= MaxTick
  /\ ~service.pending /\ service.staged # None => tick + latency > MaxTick

\* The completion delivered last was accepted, or its request is gone.
SentOK ==
  sent # None => /\ Issued(core, sent.from)
                 /\ core.req = sent.from => core.done # None

SavedOK ==
  saved # None =>
    /\ MachineOK(saved.core, saved.disk, saved.mem, saved.believed)
    /\ Image[1] = Told(saved.core, saved.believed)

CountersOK == tick \in 0..MaxTick /\ latency \in {0, 1} /\ lives \in 0..MaxLives

GInv ==
  /\ MachineOK(core, disk, mem, believed)
  /\ OverlayOK(overlay) /\ ServiceOK /\ SentOK /\ SavedOK /\ CountersOK
  /\ Media(1) = Told(core, believed)

-----------------------------------------------------------------------------
\* Facts about the constants

LEMMA Bounds ==
  /\ DriveBlocks \in Nat /\ DriveBlocks >= 2
  /\ MaxGen \in Nat /\ MaxGen >= 1 /\ MaxId \in Nat /\ MaxId >= 1
  /\ MaxTick \in Nat /\ MaxLives \in Nat
BY BoundAssumption

LEMMA ImageType == Image[1] \in Values /\ \A b \in DOMAIN Image : Image[b] \in Values
<1>1. PICK n \in 2..DriveBlocks : Image \in [0..n-1 -> Values]
  BY ImageAssumption
<1>2. 1 \in 0..n-1
  BY <1>1, Bounds
<1> QED BY <1>1, <1>2

\* What block b holds is a page.
LEMMA MediaType ==
  ASSUME OverlayOK(overlay), NEW b \in DOMAIN Image \cup {1}
  PROVE  Media(b) \in Values
BY ImageType DEF Media, OverlayOK

-----------------------------------------------------------------------------
\* The core

\* cadr_core_issue_host_request: a well-formed core with a request newer than
\* all it has issued before.
LEMMA IssueOK ==
  ASSUME NEW c, CoreOK(c), CanIssue(c), NEW op \in {"read", "write"},
         NEW b \in Blocks, NEW v \in Values \cup {None},
         op = "write" => v \in Values
  PROVE  LET n == Issue(c, op, b, v)
         IN /\ CoreOK(n) /\ n.done = None /\ n.gen = c.gen
            /\ n.req = [gen |-> c.gen, id |-> c.next, op |-> op, block |-> b, data |-> v]
            /\ \A q : Issued(c, q) => Issued(n, q) /\ n.req # q
<1> DEFINE r == [gen |-> c.gen, id |-> c.next, op |-> op, block |-> b, data |-> v]
           n == Issue(c, op, b, v)
<1>1. c \in CoreRecord /\ c.last < c.next /\ c.req = None /\ c.done = None
      /\ c.next < MaxId
  BY DEF CoreOK, CanIssue
<1>2. r \in Request
  BY <1>1 DEF CoreRecord, Request
<1>3. /\ n.req = r /\ n.next = c.next + 1 /\ n.gen = c.gen /\ n.last = c.last
      /\ n.done = None /\ n.life = c.life
  BY <1>1 DEF CoreRecord, Issue
<1>4. n \in CoreRecord
  <2>1. c.next + 1 \in 1..MaxId
    BY <1>1, Bounds DEF CoreRecord
  <2> QED BY <1>1, <1>2, <2>1 DEF CoreRecord, Issue
<1>5. CoreOK(n)
  BY <1>1, <1>3, <1>4, Bounds DEF CoreOK, NewestRequest, DoneAnswers, CoreRecord
<1>6. ASSUME NEW q, Issued(c, q) PROVE Issued(n, q) /\ n.req # q
  BY <1>1, <1>3, <1>6, Bounds DEF Issued, Request, CoreRecord
<1> QED BY <1>3, <1>5, <1>6

\* Applying a completion leaves a core that has no request outstanding.
LEMMA RetireOK ==
  ASSUME NEW c, CoreOK(c), c.req # None
  PROVE  /\ CoreOK(Retire(c)) /\ Retire(c).req = None /\ Retire(c).done = None
         /\ Retire(c).gen = c.gen
         /\ \A q : Issued(c, q) => Issued(Retire(c), q)
<1> DEFINE n == Retire(c)
<1>1. c \in CoreRecord /\ c.last < c.next /\ c.req \in Request
      /\ c.req.id \in 0..MaxId /\ c.req.id < c.next
  BY Bounds DEF CoreOK, CoreRecord, NewestRequest, Request
<1>2. /\ n.req = None /\ n.done = None /\ n.last = c.req.id /\ n.next = c.next
      /\ n.gen = c.gen
  BY <1>1 DEF Retire, CoreRecord
<1>3. n \in CoreRecord
  BY <1>1 DEF Retire, CoreRecord
<1>4. CoreOK(n)
  BY <1>1, <1>2, <1>3 DEF CoreOK, NewestRequest, DoneAnswers
<1>5. ASSUME NEW q, Issued(c, q) PROVE Issued(n, q)
  BY <1>2, <1>5 DEF Issued
<1> QED BY <1>2, <1>4, <1>5

\* A completion is accepted only if it was captured from the outstanding
\* request and none is queued; of the outstanding request it is then refused
\* only if one is queued.
LEMMA AnswersIdentify ==
  ASSUME NEW c, CoreOK(c), NEW q, Issued(c, q)
  PROVE  Answers(c, q) <=> c.req = q /\ c.done = None
<1>1. q \in Request /\ q # None
  BY RecordAssumption DEF Issued
<1>2. ASSUME Answers(c, q) PROVE c.req = q /\ c.done = None
  BY <1>2 DEF Answers, Issued
<1>3. ASSUME c.req = q, c.done = None PROVE Answers(c, q)
  BY <1>1, <1>3, Bounds DEF Answers, CoreOK, NewestRequest, Request, CoreRecord
<1> QED BY <1>2, <1>3

\* A core that has accepted a completion of its request is well-formed.
LEMMA AcceptOK ==
  ASSUME NEW c, CoreOK(c), c.req # None, NEW a \in CompletionRecord, a.from = c.req,
         c.req.op = "read" /\ a.ok => a.data \in Values
  PROVE  /\ CoreOK(Accept(c, a)) /\ Accept(c, a).req = c.req
         /\ Accept(c, a).done = a /\ a # None /\ Accept(c, a).gen = c.gen
         /\ \A q : Issued(c, q) => Issued(Accept(c, a), q)
<1> DEFINE n == Accept(c, a)
<1>1. c \in CoreRecord
  BY DEF CoreOK
<1>2. /\ n.req = c.req /\ n.done = a /\ n.last = c.last /\ n.next = c.next
      /\ n.gen = c.gen /\ n \in CoreRecord
  BY <1>1 DEF Accept, CoreRecord
<1>3. CoreOK(n)
  BY <1>2 DEF CoreOK, NewestRequest, DoneAnswers
<1>4. ASSUME NEW q, Issued(c, q) PROVE Issued(n, q)
  BY <1>2, <1>4 DEF Issued
<1> QED BY <1>2, <1>3, <1>4, RecordAssumption
-----------------------------------------------------------------------------
\* The controller

LEMMA FinishOK ==
  ASSUME NEW d \in DiskRecord
  PROVE  Finish(d) \in DiskRecord /\ ~Finish(d).active
<1>1. 0 \in Blocks /\ 1 \in Nat \ {0} /\ d.reset \in BOOLEAN
  BY Bounds DEF Blocks, DiskRecord
<1>2. FreshDisk \in DiskRecord
  BY <1>1 DEF FreshDisk, DiskRecord
<1>3. FreshDisk.active = FALSE
  BY DEF FreshDisk
<1>4. Finish(d) \in DiskRecord /\ Finish(d).active = FreshDisk.active
  BY <1>1, <1>2 DEF Finish, DiskRecord
<1> QED BY <1>3, <1>4

\* cadr_disk_issue_current_ccw: with no request outstanding, either the
\* transfer ends or it owns a request newer than all others; in a memory m
\* that differs from the present one only if nothing is to be written.
LEMMA IssueCcwOK ==
  ASSUME NEW c, CoreOK(c), c.req = None, c.done = None,
         NEW d \in DiskRecord, d.active, ~d.idle, ~d.reset,
         mem \in [Pages -> Values],
         NEW m, d.cmd = "write" => m = mem
  PROVE  LET s == IssueCcw(d, c)
         IN /\ CoreOK(s[2]) /\ s[1] \in DiskRecord /\ Owns(s[2], s[1], m)
            /\ s[2].done = None
            /\ \A q : Issued(c, q) => Issued(s[2], q) /\ s[2].req # q
<1> DEFINE s == IssueCcw(d, c)
           can == /\ CcwReadable(d)
                  /\ d.cmd = "write" => Ccw(d).page \in Pages
                  /\ CanIssue(c)
<1>0. d.da \in Blocks
  BY DEF DiskRecord
<1>1. CASE ~can
  <2>1. s = <<Finish(d), c>>
    BY <1>1 DEF IssueCcw
  <2>2. s[1] = Finish(d) /\ s[2] = c
    BY <2>1
  <2>3. \A q : Issued(c, q) => c.req # q
    BY RecordAssumption DEF Issued
  <2> QED BY <2>2, <2>3, FinishOK DEF Owns
<1>2. CASE can /\ d.cmd = "write"
  <2> DEFINE v == mem[Ccw(d).page]
  <2>1. s = <<d, Issue(c, "write", d.da, v)>>
    BY <1>2 DEF IssueCcw
  <2>2. s[1] = d /\ s[2] = Issue(c, "write", d.da, v)
    BY <2>1
  <2>3. v \in Values
    BY <1>2
  <2>4. /\ CoreOK(s[2]) /\ s[2].done = None
        /\ s[2].req = [gen |-> c.gen, id |-> c.next, op |-> "write",
                       block |-> d.da, data |-> v]
        /\ \A q : Issued(c, q) => Issued(s[2], q) /\ s[2].req # q
    <3> HIDE DEF v, s
    <3> QED BY <1>0, <1>2, <2>2, <2>3, IssueOK
  <2>5. Owns(s[2], s[1], m)
    BY <1>2, <2>2, <2>4 DEF Owns
  <2> QED BY <2>2, <2>4, <2>5
<1>3. CASE can /\ d.cmd # "write"
  <2>1. s = <<d, Issue(c, "read", d.da, None)>>
    BY <1>3 DEF IssueCcw
  <2>2. s[1] = d /\ s[2] = Issue(c, "read", d.da, None)
    BY <2>1
  <2>4. /\ CoreOK(s[2]) /\ s[2].done = None
        /\ s[2].req = [gen |-> c.gen, id |-> c.next, op |-> "read",
                       block |-> d.da, data |-> None]
        /\ \A q : Issued(c, q) => Issued(s[2], q) /\ s[2].req # q
    <3> HIDE DEF s
    <3> QED BY <1>0, <1>3, <2>2, IssueOK
  <2>5. Owns(s[2], s[1], m)
    BY <1>3, <2>2, <2>4 DEF Owns
  <2> QED BY <2>2, <2>4, <2>5
<1> QED BY <1>1, <1>2, <1>3

\* The controller after a page: it goes on as it was or ends.
LEMMA PageAppliedOK ==
  ASSUME NEW d \in DiskRecord, NEW a
  PROVE  LET n == ApplyToDisk(d, a)
         IN /\ n \in DiskRecord
            /\ n.active => d.active /\ n.idle = d.idle /\ n.reset = d.reset
                           /\ n.cmd = d.cmd
<1> DEFINE n == ApplyToDisk(d, a)
           p == PageDone(d)
<1>1. /\ p \in DiskRecord
      /\ p.active => p.idle = d.idle /\ p.reset = d.reset /\ p.cmd = d.cmd
                     /\ d.active
  <2>1. CASE Ccw(d).more /\ d.da + 1 < DriveBlocks
    <3>1. d.ccw + 1 \in Nat \ {0} /\ d.da + 1 \in Blocks
      BY <2>1, Bounds DEF DiskRecord, Blocks
    <3>2. p = [d EXCEPT !.ccw = d.ccw + 1, !.da = d.da + 1]
      BY <2>1 DEF PageDone
    <3> QED BY <3>1, <3>2 DEF DiskRecord
  <2>2. CASE ~(Ccw(d).more /\ d.da + 1 < DriveBlocks)
    BY <2>2, FinishOK DEF PageDone
  <2> QED BY <2>1, <2>2
<1>2. (n = d /\ ~d.active) \/ n = Finish(d) \/ n = p
  BY DEF ApplyToDisk
<1> QED
  <2> HIDE DEF p
  <2>1. CASE n = d /\ ~d.active
    BY <2>1
  <2>2. CASE n = Finish(d)
    BY <2>2, FinishOK
  <2>3. CASE n = p
    BY <2>3, <1>1
  <2> QED BY <1>2, <2>1, <2>2, <2>3

\* Guest memory after a page; a write leaves it alone.
LEMMA PageStoredOK ==
  ASSUME mem \in [Pages -> Values], NEW d, NEW a,
         d.cmd = "read" /\ a.ok => a.data \in Values
  PROVE  /\ ApplyToMemory(d, a) \in [Pages -> Values]
         /\ d.cmd # "read" => ApplyToMemory(d, a) = mem
BY DEF ApplyToMemory
-----------------------------------------------------------------------------
\* The block service

\* A poll that captures the outstanding request prepares its answer; if that
\* is due in time, no stage of an earlier request is in the way.
LEMMA CapturedOK ==
  ASSUME GInv, ~service.pending, core.req # None, core.done = None,
         NEW injected \in BOOLEAN
  PROVE  LET s == Captured(core.req, injected)
         IN /\ s \in ServiceRecord /\ s.pending /\ s.due = tick + latency
            /\ s.due <= MaxTick => CaptureOK(s, core, overlay)
<1> DEFINE q == core.req
           s == Captured(core.req, injected)
           valid == RequestValid(q)
<1>1. /\ q \in Request /\ CoreOK(core) /\ OverlayOK(overlay)
      /\ q.op = "write" => q.data \in Values
      /\ service \in ServiceRecord /\ tick + latency \in Nat
      /\ service.staged # None => tick + latency > MaxTick
      /\ q.op \in {"read", "write"}
  BY Bounds DEF GInv, MachineOK, CoreOK, CoreRecord, NewestRequest, ServiceOK,
     CountersOK, Request
<1>2. /\ s.pending = TRUE /\ s.req = q /\ s.due = tick + latency
      /\ s.ok = (valid /\ ~injected)
      /\ s.data = IF q.op = "read" /\ (valid /\ ~injected) THEN Media(q.block)
                  ELSE None
      /\ s.staged = IF (valid /\ ~injected) \/ tick + latency > MaxTick
                    THEN IF q.op = "write" /\ valid /\ ~Replays(q) THEN q.data
                         ELSE service.staged
                    ELSE None
  BY DEF Captured
<1>3. valid /\ q.op = "read" => Media(q.block) \in Values
  BY <1>1, MediaType DEF RequestValid
<1>4. s.data \in Values \cup {None} /\ s.staged \in Values \cup {None}
      /\ s.ok \in BOOLEAN
  <2> HIDE DEF s, valid
  <2> QED BY <1>1, <1>2, <1>3 DEF ServiceRecord
<1>5. s \in ServiceRecord
  <2>1. s = [pending |-> TRUE, req |-> s.req, due |-> s.due, ok |-> s.ok,
             data |-> s.data, staged |-> s.staged, replay |-> s.replay]
        /\ s.replay \in BOOLEAN
    BY DEF Captured
  <2> HIDE DEF s, valid, q
  <2> QED BY <1>1, <1>2, <1>4, <2>1 DEF ServiceRecord
<1>6. Issued(core, q)
  BY <1>1, Bounds DEF Issued, CoreOK, NewestRequest, CoreRecord
<1>7. ASSUME s.due <= MaxTick PROVE CaptureOK(s, core, overlay)
  <2>1. ~(tick + latency > MaxTick) /\ service.staged = None
    BY <1>1, <1>2, <1>7, Bounds
  <2>2. q.op = "write" /\ valid =>
          /\ Replays(q) => overlay.valid /\ overlay.data = q.data
          /\ overlay.valid /\ ~Replays(q) => Older(overlay.by, Identity(q))
    BY DEF RequestValid, WriteValid, Replays
  <2>3. q.op = "read" => q.op # "write"
    OBVIOUS
  <2>4. s.staged # None =>
          /\ q.op = "write" /\ s.staged = q.data
          /\ overlay.valid => Older(overlay.by, Identity(q))
    <3> HIDE DEF s, valid, q
    <3> QED BY <1>2, <2>1, <2>2
  <2>5. q.op = "write" /\ s.ok /\ s.staged = None =>
          overlay.valid /\ overlay.data = q.data
    <3> HIDE DEF s, valid, q
    <3> QED BY <1>1, <1>2, <2>1, <2>2, NoneAssumption
  <2>6. q.op = "read" /\ s.ok => s.data \in Values
    <3> HIDE DEF s, valid, q
    <3> QED BY <1>2, <1>3
  <2> HIDE DEF s, valid
  <2> QED BY <1>1, <1>2, <1>5, <1>6, <2>4, <2>5, <2>6 DEF CaptureOK
<1> QED BY <1>2, <1>5, <1>7

\* What a poll may do: run past the end of the tick counter, wait with the
\* request captured, or deliver.
LEMMA PollSteps ==
  ASSUME GInv, Poll
  PROVE  /\ UNCHANGED <<disk, mem, tick, latency, saved, believed, lives>>
         /\ \E s \in ServiceRecord :
              \/ /\ tick + latency > MaxTick
                 /\ service' = [IdleService EXCEPT !.staged = s.staged]
                 /\ UNCHANGED <<core, overlay, sent>>
              \/ /\ s.pending /\ s.due <= MaxTick /\ CaptureOK(s, core, overlay)
                 /\ service' = s
                 /\ UNCHANGED <<core, overlay, sent>>
              \/ CaptureOK(s, core, overlay) /\ Deliver(s)
<1>1. PICK injected \in BOOLEAN :
        LET s == IF service.pending THEN service ELSE Captured(core.req, injected)
        IN CASE s.due > MaxTick ->
                  /\ service' = [IdleService EXCEPT !.staged = s.staged]
                  /\ UNCHANGED <<core, overlay, sent>>
             [] s.due <= MaxTick /\ tick < s.due ->
                  service' = s /\ UNCHANGED <<core, overlay, sent>>
             [] OTHER -> Deliver(s)
  BY DEF Poll
<1> DEFINE s == IF service.pending THEN service ELSE Captured(core.req, injected)
<1>2. /\ s \in ServiceRecord /\ s.pending
      /\ s.due <= MaxTick => CaptureOK(s, core, overlay)
      /\ s.due > MaxTick => tick + latency > MaxTick
  <2>1. CASE service.pending
    <3>1. s = service /\ service.due <= MaxTick /\ service.due \in Nat
      BY <2>1 DEF GInv, ServiceOK, ServiceRecord
    <3> QED BY <2>1, <3>1, Bounds DEF GInv, ServiceOK
  <2>2. CASE ~service.pending
    <3>1. core.req # None /\ core.done = None
      BY <2>2 DEF Poll
    <3> QED BY <2>2, <3>1, CapturedOK
  <2> QED BY <2>1, <2>2
<1>3. s.due \in Nat
  BY <1>2 DEF ServiceRecord
<1>4. \/ /\ s.due > MaxTick
         /\ service' = [IdleService EXCEPT !.staged = s.staged]
         /\ UNCHANGED <<core, overlay, sent>>
      \/ /\ s.due <= MaxTick
         /\ service' = s /\ UNCHANGED <<core, overlay, sent>>
      \/ s.due <= MaxTick /\ Deliver(s)
  <2> HIDE DEF s
  <2> QED BY <1>1, <1>3, Bounds DEF s
<1>5. UNCHANGED <<disk, mem, tick, latency, saved, believed, lives>>
  BY DEF Poll
<1> HIDE DEF s
<1> QED BY <1>2, <1>3, <1>4, <1>5, Bounds
\* A service with nothing captured, and a stage only when every answer from
\* now on is due too late, is well-formed.
LEMMA IdleOK ==
  ASSUME NEW x \in Values \cup {None},
         service' = [IdleService EXCEPT !.staged = x],
         x # None => tick' + latency' > MaxTick
  PROVE  ServiceOK'
<1>1. IdleService \in ServiceRecord
  BY DEF IdleService, ServiceRecord
<1>2. /\ service' \in ServiceRecord /\ service'.staged = x
      /\ service'.pending = IdleService.pending
  BY <1>1 DEF ServiceRecord
<1>3. IdleService.pending = FALSE
  BY DEF IdleService
<1> QED BY <1>2, <1>3 DEF ServiceOK

LEMMA IdleServiceOK == ASSUME service' = IdleService PROVE ServiceOK'
<1>1. IdleService \in ServiceRecord /\ IdleService.pending = FALSE
      /\ IdleService.staged = None
  BY DEF IdleService, ServiceRecord
<1> QED BY <1>1 DEF ServiceOK

\* cadr_m4_block_service_poll delivers: the core accepts the answer of its
\* outstanding request and the overlay takes the write, or nothing changes
\* but the service.
LEMMA DeliverOK ==
  ASSUME GInv, NEW s, CaptureOK(s, core, overlay), Deliver(s),
         UNCHANGED <<disk, mem, tick, latency, saved, believed, lives>>
  PROVE  GInv'
<1>1. /\ s \in ServiceRecord /\ s.req \in Request /\ Issued(core, s.req)
      /\ CoreOK(core)
  BY DEF CaptureOK, GInv, MachineOK
<1>2. SavedOK' /\ CountersOK'
  BY DEF GInv, SavedOK, CountersOK, MachineOK, Owns
<1> DEFINE a == Completion(s)
<1>3. a \in CompletionRecord /\ a.from = s.req /\ a.ok = s.ok /\ a.data = s.data
  BY <1>1 DEF Completion, CompletionRecord, ServiceRecord
<1>4. sent' = a
  BY DEF Deliver
<1>5. CASE core.req = s.req /\ core.done = None
  <2>1. core.req # None
    BY <1>1, <1>5, RecordAssumption
  <2>2. core' = Accept(core, a) /\ overlay' = Published(s) /\ service' = Delivered(s)
    BY <1>1, <1>5, AnswersIdentify DEF Deliver
  <2>3. /\ CoreOK(core') /\ core'.req = core.req /\ core'.done = a /\ a # None
        /\ core'.gen = core.gen
        /\ \A q : Issued(core, q) => Issued(core', q)
    <3>1. core.req.op = "read" /\ a.ok => a.data \in Values
      BY <1>3, <1>5 DEF CaptureOK
    <3> HIDE DEF a
    <3> QED BY <1>1, <1>3, <1>5, <2>1, <2>2, <3>1, AcceptOK
  <2>4. MachineOK(core, disk, mem, believed)' 
    BY <2>3 DEF GInv, MachineOK, Owns
  <2>5. OverlayOK(overlay)' /\ Media(1)' = Told(core, believed)'
    <3>1. overlay' = IF s.req.op = "write" /\ s.ok /\ s.staged # None
                     THEN [valid |-> TRUE, data |-> s.staged,
                           version |-> overlay.version + 1, by |-> Identity(s.req)]
                     ELSE overlay
      BY <2>2 DEF Published
    <3>2. Media(1) = believed
      BY <1>5 DEF GInv, Told
    <3>3. Told(core, believed)' = IF s.req.op = "write" /\ s.ok
                                  THEN s.req.data ELSE believed
      <4> HIDE DEF a
      <4> QED BY <1>3, <1>5, <2>1, <2>3 DEF Told
    <3>4. CASE s.req.op = "write" /\ s.ok /\ s.staged # None
      BY <1>1, <3>1, <3>3, <3>4 DEF CaptureOK, OverlayOK, Media, ServiceRecord
    <3>5. CASE s.req.op = "write" /\ s.ok /\ s.staged = None
      BY <3>1, <3>3, <3>5 DEF CaptureOK, OverlayOK, Media, GInv
    <3>6. CASE ~(s.req.op = "write" /\ s.ok)
      BY <3>1, <3>2, <3>3, <3>6 DEF OverlayOK, Media, GInv
    <3> QED BY <3>4, <3>5, <3>6
  <2>6. ServiceOK'
    <3>1. service' = [IdleService EXCEPT !.staged = None]
      BY <1>1, <2>2 DEF Delivered, CaptureOK
    <3> QED BY <3>1, IdleOK
  <2>7. SentOK'
    BY <1>1, <1>3, <1>4, <2>3 DEF SentOK
  <2> QED BY <1>2, <2>4, <2>5, <2>6, <2>7 DEF GInv
<1>6. CASE ~(core.req = s.req /\ core.done = None)
  <2>1. service' = IdleService /\ UNCHANGED <<core, overlay>>
    BY <1>1, <1>6, AnswersIdentify DEF Deliver, Refused
  <2>2. core.req # s.req
    BY <1>6 DEF CaptureOK
  <2>3. SentOK'
    BY <1>1, <1>3, <1>4, <2>1, <2>2 DEF SentOK
  <2>4. ServiceOK'
    BY <2>1, IdleServiceOK
  <2>5. MachineOK(core, disk, mem, believed)' /\ OverlayOK(overlay)'
        /\ Media(1)' = Told(core, believed)'
    BY <2>1 DEF GInv, MachineOK, Owns, Media
  <2> QED BY <1>2, <2>3, <2>4, <2>5 DEF GInv
<1> QED BY <1>5, <1>6

LEMMA PollOK == ASSUME GInv, Poll PROVE GInv'
<1>1. UNCHANGED <<disk, mem, tick, latency, saved, believed, lives>>
  BY PollSteps
<1>2. PICK s \in ServiceRecord :
        \/ /\ tick + latency > MaxTick
           /\ service' = [IdleService EXCEPT !.staged = s.staged]
           /\ UNCHANGED <<core, overlay, sent>>
        \/ /\ s.pending /\ s.due <= MaxTick /\ CaptureOK(s, core, overlay)
           /\ service' = s
           /\ UNCHANGED <<core, overlay, sent>>
        \/ CaptureOK(s, core, overlay) /\ Deliver(s)
  BY PollSteps
<1>3. ASSUME UNCHANGED <<core, overlay, sent>>, ServiceOK' PROVE GInv'
  BY <1>1, <1>3 DEF GInv, MachineOK, Owns, Media, SentOK, SavedOK, CountersOK
<1>4. CASE /\ tick + latency > MaxTick
           /\ service' = [IdleService EXCEPT !.staged = s.staged]
           /\ UNCHANGED <<core, overlay, sent>>
  <2>1. s.staged \in Values \cup {None}
    BY DEF ServiceRecord
  <2>2. ServiceOK'
    BY <1>1, <1>4, <2>1, IdleOK
  <2> QED BY <1>3, <1>4, <2>2
<1>5. CASE /\ s.pending /\ s.due <= MaxTick /\ CaptureOK(s, core, overlay)
           /\ service' = s
           /\ UNCHANGED <<core, overlay, sent>>
  <2>1. ServiceOK'
    BY <1>1, <1>5 DEF ServiceOK
  <2> QED BY <1>3, <1>5, <2>1
<1>6. CASE CaptureOK(s, core, overlay) /\ Deliver(s)
  BY <1>1, <1>6, DeliverOK
<1> QED BY <1>2, <1>4, <1>5, <1>6

-----------------------------------------------------------------------------
\* The machine's steps

\* A step of the machine alone keeps what the service and the channel hold
\* well-formed, if a request issued before is outstanding after it only
\* unchanged, with the same completion queued.
LEMMA MachineStepOK ==
  ASSUME GInv, MachineOK(core, disk, mem, believed)',
         Told(core, believed)' = Told(core, believed),
         \A q : Issued(core, q) => Issued(core', q),
         \A q : Issued(core, q) /\ core'.req = q =>
                  core.req = q /\ core'.done = core.done,
         UNCHANGED <<service, overlay, tick, latency, saved, sent, lives>>
  PROVE  GInv'
<1>1. ServiceOK'
  <2>1. service.pending => CaptureOK(service, core', overlay)
    BY DEF GInv, ServiceOK, CaptureOK
  <2> QED BY <2>1 DEF GInv, ServiceOK
<1>2. SentOK'
  BY DEF GInv, SentOK
<1>3. OverlayOK(overlay)' /\ SavedOK' /\ CountersOK'
  BY DEF GInv, SavedOK, CountersOK, MachineOK, Owns
<1>4. Media(1)' = Told(core, believed)'
  BY DEF GInv, Media
<1> QED BY <1>1, <1>2, <1>3, <1>4 DEF GInv

\* The guest's steps, taken with no request outstanding, that leave the core
\* alone.
LEMMA GuestStepOK ==
  ASSUME GInv, CanExecute, disk' \in DiskRecord, mem' \in [Pages -> Values],
         UNCHANGED <<core, service, overlay, tick, latency, saved, sent,
                     believed, lives>>
  PROVE  GInv'
<1>1. MachineOK(core, disk, mem, believed)'
  BY DEF GInv, MachineOK, Owns, CanExecute
<1> QED BY <1>1, MachineStepOK DEF Told

LEMMA BootOK == ASSUME GInv, Boot PROVE GInv'
<1>1. core \in CoreRecord
  BY DEF GInv, MachineOK, CoreOK
<1>2. /\ core' \in CoreRecord /\ core'.req = core.req /\ core'.done = core.done
      /\ core'.gen = core.gen /\ core'.next = core.next /\ core'.last = core.last
  BY <1>1 DEF Boot, CoreRecord
<1>3. MachineOK(core, disk, mem, believed)'
  BY <1>2 DEF Boot, GInv, MachineOK, CoreOK, NewestRequest, DoneAnswers, Owns
<1>4. Told(core, believed)' = Told(core, believed)
  BY <1>2 DEF Boot, Told
<1>5. \A q : Issued(core, q) => Issued(core', q)
  BY <1>2 DEF Issued
<1> QED BY <1>2, <1>3, <1>4, <1>5, MachineStepOK DEF Boot

LEMMA GuestStoreOK ==
  ASSUME GInv, NEW p \in Pages, NEW v \in Values, GuestStore(p, v)
  PROVE  GInv'
<1>1. mem' \in [Pages -> Values] /\ disk' \in DiskRecord
  BY DEF GuestStore, GInv, MachineOK
<1> QED BY <1>1, GuestStepOK DEF GuestStore

LEMMA GuestOtherOK == ASSUME GInv, GuestOther PROVE GInv'
<1>1. disk \in DiskRecord /\ mem' \in [Pages -> Values]
  BY DEF GInv, MachineOK, GuestOther
<1>2. [disk EXCEPT !.idle = TRUE] \in DiskRecord
  BY <1>1 DEF DiskRecord
<1>3. disk' \in DiskRecord
  BY <1>1, <1>2, FinishOK DEF GuestOther
<1> QED BY <1>1, <1>3, GuestStepOK DEF GuestOther

LEMMA FreshDiskOK ==
  /\ FreshDisk \in DiskRecord /\ [FreshDisk EXCEPT !.reset = TRUE] \in DiskRecord
<1>1. 0 \in Blocks /\ 1 \in Nat \ {0}
  BY Bounds DEF Blocks
<1>2. FreshDisk \in DiskRecord
  BY <1>1 DEF FreshDisk, DiskRecord
<1> QED BY <1>2 DEF DiskRecord

LEMMA GuestDiskResetOK == ASSUME GInv, GuestDiskReset PROVE GInv'
<1>1. disk \in DiskRecord /\ mem' \in [Pages -> Values]
  BY DEF GInv, MachineOK, GuestDiskReset
<1>2. [disk EXCEPT !.reset = FALSE] \in DiskRecord
  BY <1>1 DEF DiskRecord
<1>3. disk' \in DiskRecord
  BY <1>2, FreshDiskOK DEF GuestDiskReset
<1> QED BY <1>1, <1>3, GuestStepOK DEF GuestDiskReset

\* START of a transfer: the request it issues is owned by it.
LEMMA GuestStartOK ==
  ASSUME GInv, NEW cmd \in Commands, NEW list \in Lists, NEW block \in Blocks,
         GuestStart(cmd, list, block)
  PROVE  GInv'
<1> DEFINE d == [disk EXCEPT !.cmd = cmd, !.list = list, !.da = block]
           e == [d EXCEPT !.active = TRUE, !.ccw = 1, !.idle = FALSE]
           s == IF block >= DriveBlocks THEN <<Finish(d), core>>
                ELSE IssueCcw(e, core)
<1>1. /\ disk \in DiskRecord /\ mem \in [Pages -> Values] /\ believed \in Values
      /\ CoreOK(core) /\ core.req = None /\ core.done = None /\ ~disk.reset
  BY DEF GInv, MachineOK, GuestStart, CanExecute
<1>2. /\ disk' = s[1] /\ core' = s[2]
      /\ UNCHANGED <<mem, service, overlay, tick, latency, saved, sent,
                     believed, lives>>
  BY DEF GuestStart
<1>3. d \in DiskRecord
  BY <1>1 DEF DiskRecord
<1>4. e \in DiskRecord /\ e.active /\ ~e.idle /\ ~e.reset
  <2>1. d.reset = disk.reset
    BY <1>1 DEF DiskRecord
  <2> HIDE DEF d
  <2>2. e \in DiskRecord
    <3>1. 1 \in Nat \ {0} /\ TRUE \in BOOLEAN /\ FALSE \in BOOLEAN
      OBVIOUS
    <3>2. [d EXCEPT !.active = TRUE] \in DiskRecord
      BY <1>3 DEF DiskRecord
    <3>3. [[d EXCEPT !.active = TRUE] EXCEPT !.ccw = 1] \in DiskRecord
      BY <3>1, <3>2 DEF DiskRecord
    <3> QED BY <3>1, <3>3 DEF DiskRecord
  <2>3. e.active = TRUE /\ e.idle = FALSE /\ e.reset = d.reset
    BY <1>3 DEF DiskRecord
  <2> QED BY <1>1, <2>1, <2>2, <2>3
<1>5. /\ CoreOK(core') /\ disk' \in DiskRecord /\ Owns(core', disk', mem)
      /\ core'.done = None
      /\ \A q : Issued(core, q) => Issued(core', q) /\ core'.req # q
  <2>1. CASE block >= DriveBlocks
    <3>1. disk' = Finish(d) /\ core' = core
      BY <1>2, <2>1
    <3>2. \A q : Issued(core, q) => core.req # q
      BY <1>1, RecordAssumption DEF Issued
    <3> HIDE DEF d
    <3> QED BY <1>1, <1>3, <3>1, <3>2, FinishOK DEF Owns
  <2>2. CASE ~(block >= DriveBlocks)
    <3>1. disk' = IssueCcw(e, core)[1] /\ core' = IssueCcw(e, core)[2]
      BY <1>2, <2>2
    <3> HIDE DEF e
    <3> QED BY <1>1, <1>4, <3>1, IssueCcwOK
  <2> QED BY <2>1, <2>2
<1>6. MachineOK(core, disk, mem, believed)'
  BY <1>1, <1>2, <1>5 DEF MachineOK
<1>7. Told(core, believed)' = Told(core, believed)
  BY <1>1, <1>2, <1>5 DEF Told
<1> QED BY <1>2, <1>5, <1>6, <1>7, MachineStepOK

\* cadr_apply_completion: the page moves, the request is retired and the next
\* one, if any, is owned by the transfer that goes on.
LEMMA ApplyOK == ASSUME GInv, Apply PROVE GInv'
<1> DEFINE a == core.done
           d == ApplyToDisk(disk, a)
           s == Continue(d, Retire(core))
           m == ApplyToMemory(disk, a)
<1>1. /\ disk \in DiskRecord /\ mem \in [Pages -> Values] /\ believed \in Values
      /\ CoreOK(core) /\ core.done # None /\ core.req # None
      /\ core.done.from = core.req /\ core.req \in Request
      /\ Owns(core, disk, mem)
      /\ core.req.op = "write" => core.req.data \in Values
      /\ core.req.op = "read" /\ a.ok => a.data \in Values
  BY DEF GInv, MachineOK, Apply, CoreOK, DoneAnswers, NewestRequest, CoreRecord
<1>2. /\ disk' = s[1] /\ core' = s[2] /\ mem' = m
      /\ believed' = IF core.req.op = "write" /\ a.ok THEN core.req.data
                     ELSE believed
      /\ UNCHANGED <<service, overlay, tick, latency, saved, sent, lives>>
  BY DEF Apply
<1>3. /\ CoreOK(Retire(core)) /\ Retire(core).req = None
      /\ Retire(core).done = None
      /\ \A q : Issued(core, q) => Issued(Retire(core), q)
  BY <1>1, RetireOK
<1>4. /\ d \in DiskRecord
      /\ d.active => ~d.idle /\ ~d.reset /\ d.cmd = disk.cmd
  BY <1>1, PageAppliedOK DEF Owns
<1>5. /\ m \in [Pages -> Values]
      /\ disk.cmd # "read" => m = mem
  <2>1. disk.cmd = "read" => core.req.op = "read"
    BY <1>1 DEF Owns, Request
  <2> QED BY <1>1, <2>1, PageStoredOK
<1>6. /\ CoreOK(core') /\ disk' \in DiskRecord /\ Owns(core', disk', mem')
      /\ core'.done = None
      /\ \A q : Issued(core, q) => Issued(core', q) /\ core'.req # q
  <2>1. CASE d.active
    <3>1. disk' = IssueCcw(d, Retire(core))[1] /\ core' = IssueCcw(d, Retire(core))[2]
      BY <1>2, <2>1 DEF Continue
    <3>2. d.cmd = "write" => m = mem
      BY <1>4, <1>5, <2>1
    <3> HIDE DEF d, m
    <3> QED BY <1>1, <1>2, <1>3, <1>4, <2>1, <3>1, <3>2, IssueCcwOK
  <2>2. CASE ~d.active
    <3>1. disk' = d /\ core' = Retire(core)
      BY <1>2, <2>2 DEF Continue
    <3>2. \A q : Issued(core, q) => Retire(core).req # q
      BY <1>3, RecordAssumption DEF Issued
    <3> HIDE DEF d
    <3> QED BY <1>3, <1>4, <3>1, <3>2 DEF Owns
  <2> QED BY <2>1, <2>2
<1>7. MachineOK(core, disk, mem, believed)'
  <2> HIDE DEF m
  <2> QED BY <1>1, <1>2, <1>5, <1>6 DEF MachineOK
<1>8. Told(core, believed)' = Told(core, believed)
  BY <1>1, <1>2, <1>6 DEF Told
<1> HIDE DEF s, m
<1> QED BY <1>2, <1>6, <1>7, <1>8, MachineStepOK

\* cadr_machine_reset: nothing of the old generation is outstanding.
LEMMA ResetOK == ASSUME GInv, Reset PROVE GInv'
<1>1. core \in CoreRecord /\ CoreOK(core) /\ believed \in Values
      /\ core.gen < MaxGen
  BY DEF GInv, MachineOK, CoreOK, Reset
<1>2. /\ core' \in CoreRecord /\ core'.req = None /\ core'.done = None
      /\ core'.gen = core.gen + 1 /\ core'.next = core.next /\ core'.last = 0
  <2>1. core.gen + 1 \in 1..MaxGen /\ 0 \in 0..MaxId
    BY <1>1, Bounds DEF CoreRecord
  <2>2. core' = [core EXCEPT !.life = "POWERED", !.gen = core.gen + 1,
                             !.req = None, !.last = 0, !.done = None]
    BY DEF Reset
  <2>3. core' \in CoreRecord
    BY <1>1, <2>1, <2>2 DEF CoreRecord
  <2> QED BY <1>1, <2>2, <2>3 DEF CoreRecord
<1>3. believed' = Told(core, believed) /\ believed' \in Values
  BY <1>1 DEF Reset, Accepted, Told, CoreOK, NewestRequest
<1>4. MachineOK(core, disk, mem, believed)'
  <2>1. CoreOK(core')
    BY <1>2, Bounds DEF CoreOK, NewestRequest, DoneAnswers, CoreRecord
  <2> QED BY <1>2, <1>3, <2>1 DEF Reset, GInv, MachineOK, Owns
<1>5. Told(core, believed)' = Told(core, believed)
  BY <1>2, <1>3 DEF Told
<1>6. \A q : Issued(core, q) => Issued(core', q) /\ core'.req # q
  <2>1. core.gen \in Nat
    BY <1>1, Bounds DEF CoreRecord
  <2>2. ASSUME NEW q, Issued(core, q) PROVE q \in Request /\ q.gen \in Nat /\ q.gen < core'.gen
    BY <1>2, <2>1, <2>2, Bounds DEF Issued, Request
  <2> QED BY <1>2, <2>2, RecordAssumption, Bounds DEF Issued, Request, CoreRecord
<1> QED BY <1>4, <1>5, <1>6, MachineStepOK DEF Reset
-----------------------------------------------------------------------------
\* The host's other steps

LEMMA TickOK == ASSUME GInv, Tick PROVE GInv'
<1>1. /\ tick' = tick + 1 /\ tick < MaxTick
      /\ UNCHANGED <<core, disk, mem, service, overlay, latency, saved, sent,
                     believed, lives>>
  BY DEF Tick
<1>2. tick \in Nat /\ latency \in Nat
  BY Bounds DEF GInv, CountersOK
<1>3. ServiceOK'
  BY <1>1, <1>2, Bounds DEF GInv, ServiceOK, CaptureOK, Issued
<1>4. CountersOK'
  BY <1>1, <1>2, Bounds DEF GInv, CountersOK
<1> QED BY <1>1, <1>3, <1>4
        DEF GInv, MachineOK, Owns, SentOK, SavedOK, Media

\* A completion that has been delivered once is never accepted again.
LEMMA RedeliverRefused == ASSUME GInv, Redeliver PROVE core' = core
<1>1. CoreOK(core) /\ Issued(core, sent.from)
      /\ (core.req = sent.from => core.done # None)
  BY DEF GInv, MachineOK, SentOK, Redeliver
<1>2. ~Answers(core, sent.from)
  BY <1>1, AnswersIdentify
<1> QED BY <1>2 DEF Redeliver

LEMMA Stutter == ASSUME GInv, UNCHANGED vars PROVE GInv'
BY DEF vars, GInv, MachineOK, Owns, ServiceOK, SentOK, SavedOK, CountersOK, Media

LEMMA RedeliverOK == ASSUME GInv, Redeliver PROVE GInv'
<1>1. UNCHANGED vars
  BY RedeliverRefused DEF Redeliver, vars
<1> QED BY <1>1, Stutter

LEMMA DiscardOK == ASSUME GInv, Discard PROVE GInv'
<1>1. /\ core.done = None /\ service' = IdleService /\ overlay' = NoOverlay
      /\ believed' = Image[1]
      /\ UNCHANGED <<core, disk, mem, tick, latency, saved, sent, lives>>
  BY DEF Discard
<1>2. overlay'.valid = FALSE
  BY <1>1 DEF NoOverlay
<1>3. OverlayOK(overlay)' /\ Media(1)' = Told(core, believed)'
  BY <1>1, <1>2 DEF OverlayOK, Media, Told
<1>4. ServiceOK'
  BY <1>1, IdleServiceOK
<1>5. MachineOK(core, disk, mem, believed)'
  BY <1>1, ImageType DEF GInv, MachineOK, Owns
<1> QED BY <1>1, <1>3, <1>4, <1>5 DEF GInv, SentOK, SavedOK, CountersOK

LEMMA SaveOK == ASSUME GInv, Save PROVE GInv'
<1>1. /\ ~overlay.valid
      /\ saved' = [core |-> core, disk |-> disk, mem |-> mem, believed |-> believed]
      /\ UNCHANGED <<core, disk, mem, service, overlay, tick, latency, sent,
                     believed, lives>>
  BY DEF Save, SnapshotReady
<1>2. /\ saved'.core = core /\ saved'.disk = disk /\ saved'.mem = mem
      /\ saved'.believed = believed
  BY <1>1
<1>3. Image[1] = Told(core, believed)
  BY <1>1 DEF GInv, Media
<1>4. SavedOK'
  BY <1>2, <1>3 DEF GInv, SavedOK
<1> QED BY <1>1, <1>4
        DEF GInv, MachineOK, Owns, ServiceOK, SentOK, CountersOK, Media

\* A machine put in another's place under a service that holds nothing.
LEMMA NewMachineOK ==
  ASSUME GInv, MachineOK(core, disk, mem, believed)',
         ~service.pending, service.staged = None, lives < MaxLives,
         Media(1) = Told(core, believed)',
         sent' = None, NextLife, UNCHANGED <<service, overlay, tick, latency>>
  PROVE  GInv'
<1>1. SavedOK'
  BY DEF NextLife, GInv, SavedOK
<1>2. CountersOK'
  BY Bounds DEF NextLife, GInv, CountersOK
<1>3. ServiceOK' /\ OverlayOK(overlay)' /\ SentOK'
  BY DEF GInv, ServiceOK, SentOK
<1> QED BY <1>1, <1>2, <1>3 DEF GInv, Media

LEMMA RestoreOK == ASSUME GInv, Restore PROVE GInv'
<1>1. /\ ~service.pending /\ service.staged = None /\ ~overlay.valid
      /\ saved # None /\ lives < MaxLives
      /\ core' = saved.core /\ disk' = saved.disk /\ mem' = saved.mem
      /\ believed' = saved.believed
      /\ sent' = None /\ NextLife /\ UNCHANGED <<service, overlay, tick, latency>>
  BY DEF Restore, SnapshotReady
<1>2. MachineOK(core, disk, mem, believed)'
  BY <1>1 DEF GInv, SavedOK
<1>3. Media(1) = Told(core, believed)'
  BY <1>1 DEF GInv, SavedOK, Media
<1> QED BY <1>1, <1>2, <1>3, NewMachineOK

LEMMA FreshCoreOK ==
  CoreOK(FreshCore) /\ FreshCore.req = None /\ FreshCore.done = None
<1>1. FreshCore \in CoreRecord
  BY Bounds DEF FreshCore, CoreRecord
<1>2. FreshCore.req = None /\ FreshCore.done = None
      /\ FreshCore.last = 0 /\ FreshCore.next = 1
  BY DEF FreshCore
<1> QED BY <1>1, <1>2 DEF CoreOK, NewestRequest, DoneAnswers

LEMMA ReplaceOK == ASSUME GInv, Replace PROVE GInv'
<1>1. /\ ~service.pending /\ service.staged = None /\ lives < MaxLives
      /\ core' = FreshCore /\ disk' = FreshDisk /\ mem' = mem
      /\ believed' = Media(1)
      /\ sent' = None /\ NextLife /\ UNCHANGED <<service, overlay, tick, latency>>
  BY DEF Replace
<1>2. Media(1) \in Values
  BY MediaType DEF GInv
<1>3. MachineOK(core, disk, mem, believed)'
  BY <1>1, <1>2, FreshCoreOK, FreshDiskOK DEF GInv, MachineOK, Owns
<1>4. Media(1) = Told(core, believed)'
  BY <1>1, FreshCoreOK DEF Told
<1> QED BY <1>1, <1>3, <1>4, NewMachineOK

-----------------------------------------------------------------------------
\* The invariant is inductive

LEMMA InitOK == ASSUME Init PROVE GInv
<1>1. MachineOK(core, disk, mem, believed)
  BY FreshCoreOK, FreshDiskOK, ImageType DEF Init, MachineOK, Owns
<1>2. overlay.valid = FALSE
  BY DEF Init, NoOverlay
<1>3. OverlayOK(overlay) /\ Media(1) = Told(core, believed)
  BY <1>2, FreshCoreOK DEF Init, OverlayOK, Media, Told
<1>4. ServiceOK
  <2>1. IdleService \in ServiceRecord /\ IdleService.pending = FALSE
        /\ IdleService.staged = None
    BY DEF IdleService, ServiceRecord
  <2> QED BY <2>1 DEF Init, ServiceOK
<1>5. SentOK /\ SavedOK /\ CountersOK
  BY Bounds DEF Init, SentOK, SavedOK, CountersOK
<1> QED BY <1>1, <1>3, <1>4, <1>5 DEF GInv

LEMMA StepOK == ASSUME GInv, [Next]_vars PROVE GInv'
<1>1. CASE Guest
  BY <1>1, GuestStoreOK, GuestStartOK, GuestOtherOK, GuestDiskResetOK DEF Guest
<1>2. CASE Boot \/ Apply \/ Reset
  BY <1>2, BootOK, ApplyOK, ResetOK
<1>3. CASE Host
  BY <1>3, PollOK, TickOK, RedeliverOK, DiscardOK, SaveOK, RestoreOK, ReplaceOK
     DEF Host
<1>4. CASE UNCHANGED vars
  BY <1>4, Stutter
<1> QED BY <1>1, <1>2, <1>3, <1>4 DEF Next

\* Every reachable state satisfies the inductive invariant: core, controller,
\* service, overlay, channel and snapshot agree on what is outstanding.
THEOREM Invariance == Spec => []GInv
<1>1. Init => GInv
  BY InitOK
<1>2. GInv /\ [Next]_vars => GInv'
  BY StepOK
<1> QED BY <1>1, <1>2, PTL DEF Spec

\* Every variable has its type (GTypeOK).
THEOREM TypeCorrect == Spec => []GTypeOK
<1>1. GInv => GTypeOK
  <2> SUFFICES ASSUME GInv PROVE GTypeOK
    OBVIOUS
  <2>1. /\ core \in CoreRecord /\ disk \in DiskRecord /\ mem \in [Pages -> Values]
        /\ believed \in Values
    BY DEF GInv, MachineOK, CoreOK
  <2>2. service.staged \in Values \cup {None}
    BY DEF GInv, ServiceOK, ServiceRecord
  <2>3. overlay.valid => overlay.data \in Values
    BY DEF GInv, OverlayOK
  <2>4. tick \in 0..MaxTick /\ latency \in {0, 1} /\ lives \in 0..MaxLives
    BY DEF GInv, CountersOK
  <2> QED BY <2>1, <2>2, <2>3, <2>4 DEF GTypeOK, CoreRecord, DiskRecord
<1> QED BY <1>1, Invariance, PTL

\* While a host request is outstanding the controller is in the transfer that
\* issued it, with the registers it was issued from (TransferOwnsRequest).
THEOREM RequestIsOwned == Spec => []TransferOwnsRequest
<1>1. GInv => TransferOwnsRequest
  BY DEF GInv, MachineOK, Owns, TransferOwnsRequest
<1> QED BY <1>1, Invariance, PTL

\* A queued completion was captured from exactly the outstanding request
\* (CompletionAnswersRequest), in whatever order late, duplicate and stale
\* completions, resets and restores come.
THEOREM CompletionIsAnswer == Spec => []CompletionAnswersRequest
<1>1. GInv => CompletionAnswersRequest
  BY DEF GInv, MachineOK, CoreOK, DoneAnswers, CompletionAnswersRequest
<1> QED BY <1>1, Invariance, PTL

\* Block 1 holds what the machine's own history says (MediaAsBelieved): no
\* refused, failed, cancelled or abandoned write reaches the overlay.
THEOREM MediaIsBelieved == Spec => []MediaAsBelieved
<1>1. GInv => MediaAsBelieved
  BY DEF GInv, Told, MediaAsBelieved, Accepted
<1> QED BY <1>1, Invariance, PTL

-----------------------------------------------------------------------------
\* What a step may not do

\* A delivery that changes the overlay is accepted by the core, and publishes
\* the payload of the outstanding write under a newer identity.
LEMMA DeliverCommits ==
  ASSUME GInv, NEW s, CaptureOK(s, core, overlay), Deliver(s), overlay' # overlay
  PROVE  /\ core'.done # None /\ core'.done # core.done
         /\ core.req.op = "write" /\ core'.done.ok
         /\ overlay'.data = core.req.data /\ overlay'.by = Identity(core.req)
         /\ overlay.valid => Older(overlay.by, overlay'.by)
<1> DEFINE a == Completion(s)
<1>1. CoreOK(core) /\ s \in ServiceRecord /\ s.req \in Request /\ Issued(core, s.req)
  BY DEF GInv, MachineOK, CaptureOK
<1>2. core.req = s.req /\ core.done = None
  BY <1>1, AnswersIdentify DEF Deliver
<1>3. core' = Accept(core, a) /\ overlay' = Published(s)
  BY <1>1, <1>2, AnswersIdentify DEF Deliver
<1>4. a \in CompletionRecord /\ a.ok = s.ok
  BY <1>1 DEF Completion, CompletionRecord, ServiceRecord
<1>5. core'.done = a
  BY <1>1, <1>3 DEF Accept, CoreOK, CoreRecord
<1>6. s.req.op = "write" /\ s.ok /\ s.staged # None
      /\ overlay'.data = s.staged /\ overlay'.by = Identity(s.req)
  BY <1>3 DEF Published
<1> QED
  <2> HIDE DEF a
  <2> QED BY <1>2, <1>4, <1>5, <1>6, RecordAssumption DEF CaptureOK

\* The overlay changes only with the core's acceptance of the write it
\* publishes, whose payload it takes, and only to a newer identity
\* (CommitIsAccepted).
THEOREM CommitsAreAccepted == Spec => CommitIsAccepted
<1> DEFINE Commit == overlay' # overlay /\ overlay'.valid =>
             /\ core'.done # None /\ core'.done # core.done
             /\ core.req.op = "write" /\ core'.done.ok
             /\ overlay'.data = core.req.data /\ overlay'.by = Identity(core.req)
             /\ overlay.valid => Older(overlay.by, overlay'.by)
<1>1. ASSUME GInv, [Next]_vars PROVE [Commit]_vars
  <2>1. CASE Poll
    <3> SUFFICES ASSUME overlay' # overlay PROVE Commit
      OBVIOUS
    <3>1. PICK s : CaptureOK(s, core, overlay) /\ Deliver(s)
      BY <1>1, <2>1, PollSteps
    <3> QED BY <1>1, <3>1, DeliverCommits
  <2>2. CASE Discard
    BY <2>2 DEF Discard, NoOverlay
  <2>3. CASE Boot \/ Guest
    BY <2>3 DEF Boot, Guest, GuestStore, GuestStart, GuestOther, GuestDiskReset
  <2>4. CASE Apply \/ Reset \/ Tick \/ Redeliver
    BY <2>4 DEF Apply, Reset, Tick, Redeliver
  <2>5. CASE Save \/ Restore \/ Replace
    BY <2>5 DEF Save, Restore, Replace
  <2>6. CASE UNCHANGED vars
    BY <2>6 DEF vars
  <2> QED BY <1>1, <2>1, <2>2, <2>3, <2>4, <2>5, <2>6 DEF Next, Host
<1>2. GInv /\ [Next]_vars => [Commit]_vars
  BY <1>1
<1> QED BY <1>2, Invariance, PTL DEF Spec, CommitIsAccepted

\* A completion that was delivered to a machine once, accepted or not, is
\* refused when it comes again.
THEOREM DuplicateRefused == Spec => [][Redeliver => UNCHANGED core]_vars
<1>1. GInv /\ [Next]_vars => [Redeliver => UNCHANGED core]_vars
  BY RedeliverRefused
<1> QED BY <1>1, Invariance, PTL DEF Spec
=============================================================================
