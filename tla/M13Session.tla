----------------------------- MODULE M13Session -----------------------------
(***************************************************************************)
(* A selected session: the shell of browser/cadr-m13-shell.mjs over the    *)
(* guest worker, with the disk bridge of browser/cadr-m10-controller.mjs   *)
(* that serves the guest's requests through it, and one of its two kinds   *)
(* of client: the production application of                                *)
(* browser/cadr-m13-production-app.mjs, or a caller of submit() that       *)
(* drives the public operations freely.                                    *)
(*                                                                         *)
(* Promise continuations that no message or timer separates are one step.  *)
(* The storage under the bridge is reduced to its outcome (M10Controller   *)
(* has its state).  The session starts after the bootstrap, paused.        *)
(***************************************************************************)
EXTENDS GuestWorker

CONSTANTS
  MaxQueue,    \* bound on the operations in the application's FIFO
  Sessions     \* who drives the shell, the operations a caller submits (a
               \* bound), and whether faults occur

PublicOps == {"run", "start", "pause", "show", "hide", "stop", "reset", "boot", "input"}

ASSUME QueueAssumption == MaxQueue \in Nat \ {0} 
                          /\ Sessions \subseteq [client : {"app", "driver"},
                                ops : SUBSET PublicOps, faults : BOOLEAN]

VARIABLES
  shell,       \* CadrM13Shell
  bridge,      \* the busy flag and position of the bridge's serviceOnce
  app,         \* CadrM13ProductionApp: state and why it ended, #tail
  env,         \* the session's member of Sessions
  crossed      \* history: a fence overtook a resume's restore, or a reset
               \* overtook the service of a disk request

svars == <<shell, bridge, app, env, crossed>>
vars == <<wvars, svars>>

Idle == [phase |-> "idle", gen |-> 0, write |-> FALSE]

Init ==
  /\ WorkerInit
  /\ env \in Sessions
  /\ shell = [terminal |-> FALSE, failed |-> FALSE, ingress |-> env.client = "driver",
              neutral |-> env.client = "app", next |-> 0, pending |-> {}]
  /\ bridge = Idle
  /\ app = [phase |-> "PAUSED", reason |-> "none", input |-> FALSE, tail |-> <<>>]
  /\ crossed = FALSE

-----------------------------------------------------------------------------
\* The shell

Live == ~shell.terminal

\* Bound: the clients leave the last place under way to a bridge that serves.
Room == InFlight + (IF bridge.phase = "serve" THEN 1 ELSE 0) < MaxFlight

\* postLower: a private id, its pending entry, and the message.
Post(sh, for, op, gen) ==
  /\ shell' = [sh EXCEPT !.next = Succ(@),
                 !.pending = @ \cup {[id |-> sh.next, for |-> for, fresh |-> TRUE]}]
  /\ inbox' = Append(inbox, Request(sh.next, op, gen))

\* releaseInput: a new ingress generation; entries of the old one are stale.
Released ==
  [shell EXCEPT !.ingress = FALSE, !.neutral = FALSE,
                !.pending = {[p EXCEPT !.fresh = FALSE] : p \in @}]

Restorable ==
  /\ ~shell.failed /\ ~shell.ingress /\ shell.neutral
  /\ \A p \in shell.pending : p.for # "restore"

\* mutant: the requests under way are left pending when the session ends
LeftPending == shell.pending
Rejected == {}

\* workerLost and the owner's termination of the worker; the application
\* fails or stops with it, and keeps the reason.
Close(phase, reason) ==
  /\ shell' = [shell EXCEPT !.terminal = TRUE, !.failed = TRUE, !.ingress = FALSE,
                            !.neutral = FALSE, !.pending = Rejected]
  /\ bridge' = Idle
  /\ app' = IF env.client = "app"
              THEN [phase |-> phase, reason |-> reason, input |-> FALSE, tail |-> <<>>]
              ELSE app
  /\ Terminated
  /\ UNCHANGED <<env, crossed>>
Lose == Close("FAILED", "failure")

-----------------------------------------------------------------------------
\* A caller of submit(), releaseInput() and restoreInputIngress()

\* Bound: MaxReset resets, one under way at a time.
MayReset ==
  worker.gen < MaxReset /\ \A i \in DOMAIN inbox : inbox[i].op # "reset"

Submit ==
  /\ env.client = "driver" /\ Live /\ Room
  /\ \E op \in env.ops :
       /\ op = "input" => shell.ingress
       /\ op = "reset" => MayReset
       /\ Post(shell, "public", op, 0)
  /\ UNCHANGED <<outbox, worker, barred, bridge, app, env, crossed>>

Release ==
  /\ env.client = "driver" /\ Live /\ Room
  /\ Post(Released, "neutral", "neutralize", 0)
  /\ UNCHANGED <<outbox, worker, barred, bridge, app, env, crossed>>

Restore ==
  /\ env.client = "driver" /\ Live /\ Room /\ Restorable
  /\ Post(shell, "restore", "display", 0)
  /\ UNCHANGED <<outbox, worker, barred, bridge, app, env, crossed>>

-----------------------------------------------------------------------------
\* The production application

Running == env.client = "app" /\ app.phase \in {"PAUSED", "RUNNING"}
Op(name) == [op |-> name, fresh |-> TRUE, pc |-> "queued"]
HasResume == \E i \in DOMAIN app.tail : app.tail[i].op = "resume"
Restoring ==
  app.tail # <<>> /\ Head(app.tail).pc = "restore" /\ Head(app.tail).fresh

\* pause, layoutChanged, releaseInput: the fence, then the queued operation.
Pause ==
  /\ Running /\ Room /\ Len(app.tail) < MaxQueue
  /\ app' = [app EXCEPT !.input = FALSE,
       !.tail = Append([i \in DOMAIN @ |-> [@[i] EXCEPT !.fresh = FALSE]], Op("pause"))]
  /\ crossed' = (crossed \/ Restoring)
  /\ Post(Released, "neutral", "neutralize", 0)
  /\ UNCHANGED <<outbox, worker, barred, bridge, env>>

\* One resume is in flight at a time; a call that finds one joins it.
Resume ==
  /\ Running /\ app.phase = "PAUSED" /\ ~HasResume /\ Len(app.tail) < MaxQueue
  /\ app' = [app EXCEPT !.tail = Append(@, Op("resume"))]
  /\ UNCHANGED <<wvars, shell, bridge, env, crossed>>

\* resume() outside PAUSED is a failure, also while a pause has not settled.
ResumeOutsidePaused ==
  /\ Running /\ app.phase # "PAUSED" /\ ~HasResume
  /\ Close("FAILED", "resume-outside-paused")

SubmitInput ==
  /\ Running /\ app.input /\ Len(app.tail) < MaxQueue
  /\ app' = [app EXCEPT !.tail = Append(@, Op("input"))]
  /\ UNCHANGED <<wvars, shell, bridge, env, crossed>>

Stop == Running /\ Close("STOPPED", "stop")

At(pc) == app' = [app EXCEPT !.tail = <<[Head(@) EXCEPT !.pc = pc]>> \o Tail(@)]
Dropped == [app EXCEPT !.tail = Tail(@)]

\* mutant: an operation starts although its generation was fenced
NeverSkipped(head) == FALSE
Skipped(head) == ~head.fresh

\* The operation at the head of #tail starts; a stale one is skipped.
Begin ==
  /\ Running /\ app.tail # <<>> /\ Head(app.tail).pc = "queued"
  /\ LET head == Head(app.tail)
         refused == \/ head.op = "resume" /\ ~Restorable
                    \/ head.op = "input" /\ ~shell.ingress
     IN \/ Skipped(head) /\ app' = Dropped /\ UNCHANGED <<wvars, shell, bridge, env, crossed>>
        \/ ~Skipped(head) /\ refused /\ Lose
        \/ /\ ~Skipped(head) /\ ~refused /\ InFlight < MaxFlight
           /\ IF head.op = "resume"
              THEN Post(shell, "restore", "display", 0) /\ At("restore")
              ELSE Post(shell, "public", head.op, 0) /\ At("lower")
           /\ UNCHANGED <<outbox, worker, barred, bridge, env, crossed>>

-----------------------------------------------------------------------------
\* Replies

\* The entry a reply settles, and the shell without it.
Settles(p, kind) ==
  /\ Live /\ outbox # <<>>
  /\ p.id = Head(outbox).id /\ p.for = kind /\ Head(outbox).status # "ERROR"
Without(p) == [shell EXCEPT !.pending = @ \ {p}]
Taken == outbox' = Tail(outbox) /\ UNCHANGED <<worker, barred, env, crossed>>

\* No live request has this id, or the reply is not of the private grammar.
ReceiveUnknown ==
  /\ Live /\ outbox # <<>>
  /\ \/ Head(outbox).status = "ERROR"
     \/ \A p \in shell.pending : p.id # Head(outbox).id
  /\ Lose

\* mutant: any answer to the neutralization confirms it
ConfirmedByAny(sh, status) == [sh EXCEPT !.neutral = TRUE]
Confirmed(sh, status) ==
  IF status = "OK" THEN [sh EXCEPT !.neutral = TRUE] ELSE [sh EXCEPT !.failed = TRUE]

ReceiveNeutral ==
  \E p \in shell.pending :
    /\ Settles(p, "neutral")
    /\ shell' = IF p.fresh THEN Confirmed(Without(p), Head(outbox).status) ELSE Without(p)
    /\ UNCHANGED <<inbox, bridge, app>> /\ Taken

\* restoreInputIngress settles; the application then starts the machine, or
\* fails when it settled false.
ReceiveRestore ==
  \E p \in shell.pending :
    /\ Settles(p, "restore")
    /\ LET restored == p.fresh /\ Head(outbox).status = "OK"
           sh == IF restored THEN [Without(p) EXCEPT !.ingress = TRUE] ELSE Without(p)
       IN \/ /\ env.client = "driver"
             /\ shell' = sh
             /\ UNCHANGED <<inbox, bridge, app>> /\ Taken
          \/ /\ env.client = "app" /\ restored
             /\ Post(sh, "public", "start", 0) /\ At("lower")
             /\ UNCHANGED bridge /\ Taken
          \/ env.client = "app" /\ ~restored /\ Lose

\* The application after the OK answer to the operation at the head.
\* mutant: the reply is not checked against the generation of its operation
Answered(head) ==
  CASE head.op = "resume" -> [Dropped EXCEPT !.phase = "RUNNING", !.input = TRUE]
    [] head.op = "pause" /\ shell.neutral -> [Dropped EXCEPT !.phase = "PAUSED"]
    [] OTHER -> Dropped
Finished(head) == IF head.fresh THEN Answered(head) ELSE Dropped

\* A public answer; a run that waits for the host is served by the bridge
\* before its caller is answered, unless the bridge is busy.
ReceivePublic ==
  \E p \in shell.pending :
    /\ Settles(p, "public")
    /\ LET status == Head(outbox).status
       IN \/ /\ env.client = "driver" /\ status = "WAITING" /\ bridge = Idle
             /\ Post(Without(p), "bridge", "next", 0)
             /\ bridge' = [Idle EXCEPT !.phase = "next"]
             /\ UNCHANGED app /\ Taken
          \/ /\ env.client = "driver" /\ (status # "WAITING" \/ bridge # Idle)
             /\ shell' = Without(p)
             /\ UNCHANGED <<inbox, bridge, app>> /\ Taken
          \/ /\ env.client = "app" /\ (~Head(app.tail).fresh \/ status = "OK")
             /\ shell' = Without(p) /\ app' = Finished(Head(app.tail))
             /\ UNCHANGED <<inbox, bridge>> /\ Taken
          \/ env.client = "app" /\ Head(app.tail).fresh /\ status # "OK" /\ Lose

-----------------------------------------------------------------------------
\* The disk bridge

\* The reply to host-next-request: a request to serve, or none, which is a
\* protocol violation after a run that waits.
ReceiveNext ==
  \E p \in shell.pending :
    /\ Settles(p, "bridge") /\ bridge.phase = "next"
    /\ \/ /\ Head(outbox).status = "OK"
          /\ \E write \in BOOLEAN :
               bridge' = [phase |-> "serve", gen |-> Head(outbox).gen, write |-> write]
          /\ shell' = Without(p)
          /\ UNCHANGED <<inbox, app>> /\ Taken
       \/ Head(outbox).status # "OK" /\ Lose

\* The storage answered: the read blocks or the staged write are completed.
Serve ==
  /\ Live /\ bridge.phase = "serve" /\ InFlight < MaxFlight
  /\ \/ /\ Post(shell, "bridge", "complete", bridge.gen)
        /\ bridge' = [bridge EXCEPT !.phase = "complete"]
     \/ /\ env.faults
        /\ Post(shell, "bridge", "fail", bridge.gen)
        /\ bridge' = [bridge EXCEPT !.phase = "failing"]
  /\ UNCHANGED <<outbox, worker, barred, app, env, crossed>>

\* A refused completion leaves a write in doubt, which ends the session; of a
\* read, a failure is completed in its place.
ReceiveComplete ==
  \E p \in shell.pending :
    /\ Settles(p, "bridge") /\ bridge.phase \in {"complete", "failing"}
    /\ LET refused == bridge.phase = "complete" /\ Head(outbox).status # "OK"
       IN \/ /\ ~refused
             /\ shell' = Without(p) /\ bridge' = Idle
             /\ UNCHANGED <<inbox, app>> /\ Taken
          \/ /\ refused /\ ~bridge.write
             /\ Post(Without(p), "bridge", "fail", bridge.gen)
             /\ bridge' = [bridge EXCEPT !.phase = "failing"]
             /\ UNCHANGED app /\ Taken
          \/ refused /\ bridge.write /\ Lose

-----------------------------------------------------------------------------
\* Faults

\* A pending entry's timer: a neutralization that was not confirmed marks the
\* shell failed, an unanswered host-next-request frees the bridge, anything
\* else ends the session.  Its reply may still come.
TimeOut ==
  /\ env.faults /\ Live
  /\ \E p \in shell.pending :
       \/ /\ p.for = "neutral"
          /\ shell' = [Without(p) EXCEPT !.failed = @ \/ p.fresh]
          /\ UNCHANGED <<wvars, bridge, app, env, crossed>>
       \/ /\ p.for = "restore" /\ env.client = "driver"
          /\ shell' = Without(p)
          /\ UNCHANGED <<wvars, bridge, app, env, crossed>>
       \/ /\ p.for = "bridge" /\ bridge.phase = "next"
          /\ shell' = Without(p) /\ bridge' = Idle
          /\ UNCHANGED <<wvars, app, env, crossed>>
       \/ /\ \/ p.for = "public"
             \/ p.for = "restore" /\ env.client = "app"
             \/ p.for = "bridge" /\ bridge.phase # "next"
          /\ Lose

\* The worker's error or messageerror event.
WorkerDies == env.faults /\ Live /\ Lose

-----------------------------------------------------------------------------
\* The worker's steps; a reset under a disk service is noted.
WorkerHandles ==
  /\ Handle(env.faults)
  /\ crossed' = (crossed \/ (worker'.gen # worker.gen /\ bridge # Idle))
  /\ UNCHANGED <<shell, bridge, app, env>>
WorkerBegins == BeginRun /\ UNCHANGED svars
WorkerCaptures == Capture /\ UNCHANGED svars
WorkerFinishes == (FinishRun \/ ApplyDeferred) /\ UNCHANGED svars

Receive ==
  \/ ReceiveUnknown \/ ReceiveNeutral \/ ReceiveRestore
  \/ ReceivePublic \/ ReceiveNext \/ ReceiveComplete

Next ==
  \/ Submit \/ Release \/ Restore
  \/ Pause \/ Resume \/ ResumeOutsidePaused \/ SubmitInput \/ Stop \/ Begin
  \/ ReceiveUnknown \/ ReceiveNeutral \/ ReceiveRestore
  \/ ReceivePublic \/ ReceiveNext \/ ReceiveComplete
  \/ Serve \/ TimeOut \/ WorkerDies
  \/ WorkerHandles \/ WorkerBegins \/ WorkerCaptures \/ WorkerFinishes

\* The worker's queue and its yield, the page's message events, the storage
\* and the FIFO of the application all go on; nothing obliges a client.
Fairness ==
  /\ WF_vars(WorkerHandles) /\ WF_vars(WorkerBegins) /\ WF_vars(WorkerFinishes)
  /\ WF_vars(Receive) /\ WF_vars(Serve) /\ WF_vars(Begin)

Spec == Init /\ [][Next]_vars /\ Fairness

-----------------------------------------------------------------------------
\* Properties

\* The types of the session's state; what is under way fits its bound.
Ids == 0 .. MaxFlight - 1
Entries == [id : Ids, for : {"public", "neutral", "restore", "bridge"}, fresh : BOOLEAN]
Operations == [op : {"pause", "resume", "input"}, fresh : BOOLEAN,
               pc : {"queued", "restore", "lower"}]
Reasons == {"none", "stop", "failure", "resume-outside-paused"}
STypeOK ==
  /\ shell \in [terminal : BOOLEAN, failed : BOOLEAN, ingress : BOOLEAN,
               neutral : BOOLEAN, next : Ids, pending : SUBSET Entries]
  /\ bridge \in [phase : {"idle", "next", "serve", "complete", "failing"},
                gen : 0 .. MaxReset, write : BOOLEAN]
  /\ app.phase \in {"PAUSED", "RUNNING", "STOPPED", "FAILED"} /\ app.input \in BOOLEAN
  /\ app.reason \in Reasons
  /\ Len(app.tail) <= MaxQueue /\ ToSet(app.tail) \subseteq Operations
  /\ worker.life \in Moving \cup Ended \cup {"PAUSED"}
  /\ worker.host \in {"none", "asked", "failed"} /\ worker.gen \in 0 .. MaxReset
  /\ {worker.hidden, worker.core, worker.held, barred, crossed} \subseteq BOOLEAN
  /\ InFlight <= MaxFlight

\* The worker answers requests in the order of their ids, each one once, also
\* when a control overtakes the queue by being captured under a slice.
AnswersInOrder ==
  LET Id(q) == q.id
      ids(s) == [i \in DOMAIN s |-> Id(s[i])]
      running == IF worker.run = None THEN <<>> ELSE <<worker.run.id>>
      all == ids(outbox) \o running \o ids(worker.deferred) \o ids(inbox)
  IN /\ \A i \in 1 .. Len(all) - 1 : all[i + 1] = Succ(all[i])
     /\ all # <<>> /\ Live => Succ(Last(all)) = shell.next

\* After the page could read that a pause, a hide or a stop was accepted, the
\* guest executes no slice before the next accepted start; a disk completion
\* that arrives for a paused guest does not restart it.
PauseHolds == [][worker.run = None /\ worker'.run # None => ~barred]_vars

\* A release the shell has confirmed is true: the guest holds no input, and
\* none is on its way, until ingress is restored.
NeutralWhenConfirmed ==
  Live /\ ~shell.ingress /\ shell.neutral =>
    /\ ~worker.held
    /\ \A i \in DOMAIN inbox : inbox[i].op # "input"

\* What the application shows is so: with input enabled the shell admits it
\* and the worker runs; paused with nothing queued, the worker is paused and
\* holds no input.
AppKnowsWorker ==
  Running =>
    /\ app.input => shell.ingress /\ worker.life = "RUNNING"
    /\ app.phase = "PAUSED" /\ app.tail = <<>> =>
         worker.life = "PAUSED" /\ ~worker.held

\* Of a session whose worker is well, two uses are fatal: a resume() while the
\* application is not paused, and a fence that overtakes a resume's restore.  In
\* any other order, pausing, resuming and typing never make it fail: no reply
\* is unexpected, and nothing that was queued is refused when its turn comes.
QuietFailsOnlyByResume ==
  env.client = "app" /\ ~env.faults /\ ~crossed /\ app.phase = "FAILED" =>
    app.reason = "resume-outside-paused"

\* Every request the shell has posted is settled, also when the slice it was
\* captured under faulted, or the session ends.  Ids are handed out in turn and
\* any number of requests may come before, so those with id 0 stand for all.
PendingId(i) == \E p \in shell.pending : p.id = i
RequestsSettle == PendingId(0) ~> ~PendingId(0)

\* A guest that waits for its disk does not wait forever: the answer to the run
\* has the bridge complete the request, unless a reset overtook a service.
WaitingSettles ==
  (worker.life = "WAITING" /\ ~env.faults)
    ~> (worker.life # "WAITING" \/ crossed)

=============================================================================
