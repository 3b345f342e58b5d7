----------------------------- MODULE GuestWorker -----------------------------
(***************************************************************************)
(* The scheduler of the guest worker, wasm/cadr-worker.js: requests with   *)
(* consecutive ids are handled one at a time; a slice of guest execution   *)
(* yields once, and a pause, stop or visibility change that arrives during *)
(* that yield is captured, deferred, and applied when the slice has been   *)
(* answered, before the next request is handled.                           *)
(*                                                                         *)
(* The worker is taken after its bootstrap, paused with the core running   *)
(* and its visibility known.  The core is reduced to what the scheduler    *)
(* tells apart: whether it runs, whether it waits for the host, and the    *)
(* generation of its host requests.  Ids are counted modulo MaxFlight,     *)
(* which keeps those under way apart.                                      *)
(***************************************************************************)
EXTENDS Integers, Sequences, SequencesExt

CONSTANTS
  MaxFlight,   \* bound on requests posted and not yet answered to the page
  MaxReset,    \* bound on resets
  None         \* no slice active

Slices(ids) == [id : ids, status : {"OK", "WAITING", "FAILED"}]

ASSUME FlightAssumption == MaxFlight \in Nat \ {0} /\ MaxReset \in Nat
ASSUME NoneAssumption == None \notin Slices(0 .. MaxFlight - 1)

VARIABLES
  inbox,       \* requests posted and not yet taken: the channel and receive_tail
  outbox,      \* replies posted and not yet received by the page
  worker,      \* the worker's scheduler, input and core state
  barred       \* history: a pause, hide or stop was confirmed, and no start since

wvars == <<inbox, outbox, worker, barred>>

Controls == {"pause", "stop", "show", "hide"}
InputOps == {"input", "neutralize"}
Completions == {"complete", "fail"}
Ended == {"STOPPED", "FAILED"}
Moving == {"RUNNING", "WAITING"}

\* mutant: the id of a session is never brought back to the first
Unwrapped(id) == id + 1
Succ(id) == (id + 1) % MaxFlight

\* A request: gen is the generation a completion answers.
Request(id, op, gen) == [id |-> id, op |-> op, gen |-> gen]
\* request.generation travels in the answer to host-next-request.
Reply(q, status) == [id |-> q.id, status |-> status, gen |-> worker.gen]

\* host is "asked" from the request of a host operation to its completion,
\* "failed" when that completion reported a failure the guest has not met yet.
Booted == [life |-> "PAUSED", hidden |-> FALSE, core |-> TRUE, host |-> "none",
           gen |-> 0, held |-> FALSE, run |-> None, deferred |-> <<>>, expected |-> 0]

WorkerInit == inbox = <<>> /\ outbox = <<>> /\ worker = Booted /\ barred = FALSE

\* worker.terminate(): nothing it held or was sent remains.
Terminated ==
  /\ inbox' = <<>> /\ outbox' = <<>> /\ barred' = FALSE
  /\ worker' = [Booted EXCEPT !.life = "STOPPED", !.core = FALSE]

InFlight == Len(inbox) + Len(outbox) + Len(worker.deferred)
            + (IF worker.run = None THEN 0 ELSE 1)

-----------------------------------------------------------------------------
\* Requests

Paused(w) == [w EXCEPT !.life = IF @ \in Moving THEN "PAUSED" ELSE @]

\* mutant: a completion restarts a guest that was paused while it waited
WokenAlways(w) == [w EXCEPT !.life = "RUNNING"]
\* mutant: a completion leaves the guest waiting
WokenNever(w) == w
Woken(w) == [w EXCEPT !.life = IF @ = "WAITING" THEN "RUNNING" ELSE @]

\* Input is handled before the gate of an ended worker.
Accepts(w, q) ==
  IF q.op \in InputOps THEN w.core
  ELSE /\ w.life \notin Ended
       /\ CASE q.op = "start"          -> w.life = "PAUSED" /\ ~w.hidden /\ w.core
            [] q.op = "reset"          -> w.life = "PAUSED"
            [] q.op = "boot"           -> ~w.core
            [] q.op = "next"           -> w.host = "asked"
            [] q.op \in Completions    -> w.host = "asked" /\ q.gen = w.gen
            [] OTHER                   -> TRUE

Effect(w, q) ==
  CASE q.op = "input"          -> [w EXCEPT !.held = TRUE]
    [] q.op = "neutralize"     -> [w EXCEPT !.held = FALSE]
    [] q.op = "start"          -> [w EXCEPT !.life = "RUNNING"]
    [] q.op = "pause"          -> Paused(w)
    [] q.op = "show"           -> [w EXCEPT !.hidden = FALSE]
    [] q.op = "hide"           -> Paused([w EXCEPT !.hidden = TRUE])
    [] q.op = "stop"           -> [w EXCEPT !.life = "STOPPED"]
    [] q.op = "reset"          -> [w EXCEPT !.core = FALSE, !.host = "none", !.gen = @ + 1]
    [] q.op = "boot"           -> [w EXCEPT !.core = TRUE, !.life = "PAUSED"]
    [] q.op = "complete"       -> Woken([w EXCEPT !.host = "none"])
    [] q.op = "fail"           -> Woken([w EXCEPT !.host = "failed"])
    [] OTHER                   -> w

\* An answer as [w |-> the worker after it, status |-> what it says].
Answer(w, q) ==
  IF Accepts(w, q) THEN [w |-> Effect(w, q), status |-> "OK"]
                   ELSE [w |-> w, status |-> "NOTREADY"]

\* What the fault model adds: input meets a full queue, or a frame is invalid.
MayRefuse(q) == q.op \in InputOps \cup {"display"}

Barred(before, q, status) ==
  IF status # "OK" THEN before
  ELSE (before \/ q.op \in {"pause", "hide", "stop"}) /\ q.op # "start"

\* What may answer the first request; an id out of order is an error.
Answers(q, faulty) ==
  LET known == [worker EXCEPT !.expected = Succ(@)]
  IN IF q.id # worker.expected THEN {[w |-> worker, status |-> "ERROR"]}
     ELSE {Answer(known, q)} \cup
          (IF faulty /\ MayRefuse(q) THEN {[w |-> known, status |-> "REFUSED"]} ELSE {})

\* receive_tail: the next request is taken when the one before is done with.
Free == worker.run = None /\ worker.deferred = <<>> /\ inbox # <<>>

\* receive, handle: the first request.
Handle(faulty) ==
  /\ Free
  /\ LET q == Head(inbox)
     IN /\ q.op = "run" => q.id # worker.expected
        /\ \E a \in Answers(q, faulty) :
             /\ worker' = a.w
             /\ outbox' = Append(outbox, Reply(q, a.status))
             /\ barred' = Barred(barred, q, a.status)
  /\ inbox' = Tail(inbox)

-----------------------------------------------------------------------------
\* Slices

Runnable(w) == w.life = "RUNNING" /\ ~w.hidden

\* How a slice can end: the guest runs out of slots, asks the host, or faults.
SliceEnds(w) ==
  CASE w.host = "asked"  -> {"WAITING"}
    [] w.host = "failed" -> {"FAILED"}
    [] OTHER             -> {"OK", "WAITING", "FAILED"}

\* scheduler-run-v7-slice up to its yield.
BeginRun ==
  /\ Free
  /\ LET q == Head(inbox)
         known == [worker EXCEPT !.expected = Succ(worker.expected)]
     IN /\ q.op = "run" /\ q.id = worker.expected
        /\ \/ /\ ~Runnable(worker)
              /\ worker' = known
              /\ outbox' = Append(outbox, Reply(q, "NOTREADY"))
           \/ /\ Runnable(worker)
              /\ \E status \in SliceEnds(worker) :
                   worker' = [known EXCEPT
                     !.run = [id |-> q.id, status |-> status],
                     !.life = IF status = "WAITING" THEN "WAITING" ELSE @,
                     !.host = IF status = "WAITING" THEN "asked" ELSE @]
              /\ UNCHANGED outbox
  /\ inbox' = Tail(inbox)
  /\ UNCHANGED barred

\* mutant: a control is captured whatever its id
AnyOrder(q) == q.op \in Controls
Captured(q) == q.op \in Controls /\ q.id = worker.expected

\* queueLiveControl: a control delivered during the yield, and next in order.
Capture ==
  /\ worker.run # None
  /\ \E i \in DOMAIN inbox :
       /\ Captured(inbox[i])
       /\ inbox' = RemoveAt(inbox, i)
       /\ worker' = [worker EXCEPT !.deferred = Append(@, inbox[i]),
                                   !.expected = Succ(@)]
  /\ UNCHANGED <<outbox, barred>>

\* The slice is answered after the yield; from then on nothing is captured.
FinishRun ==
  /\ worker.run # None
  /\ worker' = [worker EXCEPT !.run = None,
                  !.life = IF worker.run.status = "FAILED" THEN "FAILED" ELSE @]
  /\ outbox' = Append(outbox, Reply(worker.run, worker.run.status))
  /\ UNCHANGED <<inbox, barred>>

\* applyDeferredControls: the next of the deferred controls.
ApplyDeferred ==
  /\ worker.run = None /\ worker.deferred # <<>>
  /\ LET q == Head(worker.deferred)
         a == Answer([worker EXCEPT !.deferred = Tail(@)], q)
     IN /\ worker' = a.w
        /\ outbox' = Append(outbox, Reply(q, a.status))
        /\ barred' = Barred(barred, q, a.status)
  /\ UNCHANGED inbox

=============================================================================
