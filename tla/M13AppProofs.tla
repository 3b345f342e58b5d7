---------------------------- MODULE M13AppProofs ----------------------------
(***************************************************************************)
(* Proofs about the production application of M13Session: what it shows of *)
(* its machine is so, and it does not fail by itself.  They rest on the    *)
(* invariant of M13SessionProofs and add, for the sessions of an           *)
(* application, what its FIFO, the line and the worker say of each other.  *)
(* As there, the parts take the state they speak of as arguments.          *)
(***************************************************************************)
EXTENDS M13SessionProofs

-----------------------------------------------------------------------------
\* The invariant of the application

\* The fence that keeps ingress closed, and the start that follows a restore.
FreshPause(t) == \E i \in 1..Len(t) : t[i].op = "pause" /\ t[i].fresh
Starting(t) == HeadAt(t, "lower") /\ Head(t).op = "resume" /\ Head(t).fresh

\* The FIFO: what was fenced has its fence behind it, a resume that was not is
\* the last, and ingress is open for the input the application admits.
Queue(t, phase, input, ingress) ==
  /\ \A i \in 1..Len(t) :
       /\ t[i].op = "resume" /\ t[i].fresh => i = Len(t) /\ phase = "PAUSED"
       /\ t[i].op = "input" /\ t[i].fresh => input
       /\ ~t[i].fresh =>
            \E j \in 1..Len(t) : i < j /\ t[j].op = "pause" /\ t[j].fresh
  /\ input => phase = "RUNNING" /\ ingress /\ \A i \in 1..Len(t) : t[i].op = "input"
  /\ Starting(t) => ingress
  /\ FreshPause(t) => ~ingress /\ ~input
  /\ ingress => input \/ Starting(t)

\* The worker of an application executes no slice and meets five requests.
Plain(w, in) ==
  /\ w.run = None /\ w.deferred = <<>> /\ w.core /\ ~w.hidden
  /\ w.life \in {"PAUSED", "RUNNING"}
  /\ \A i \in 1..Len(in) :
       in[i].op \in {"neutralize", "display", "start", "pause", "input"}

\* The request by which the operation h goes on.
Carries(op, h) ==
  CASE op = "display" -> h.op = "resume" /\ h.pc = "restore"
    [] op = "start"   -> h.op = "resume" /\ h.pc = "lower"
    [] OTHER          -> h.op = op /\ h.pc = "lower"

\* Of the requests under way one is not a release: the first operation's.
Posted(P, t, in) ==
  /\ \A i \in 1..Len(in) : in[i].op # "neutralize" =>
       /\ t # <<>> /\ Carries(in[i].op, Head(t))
       /\ \A p \in P : p.for # "neutral" => p.id = in[i].id
       /\ \A j \in 1..Len(in) : in[j].op # "neutralize" => j = i
  /\ \A i \in 1..Len(in) : in[i].op = "neutralize" =>
       \A p \in P : p.id = in[i].id => p.for = "neutral"

\* The OK answer to the first operation finds the worker as it left it.
Done(P, t, out, w) ==
  \A p \in P : p.for = "public" =>
    \A i \in 1..Len(out) : out[i].id = p.id /\ out[i].status = "OK" =>
      /\ Head(t).op = "resume" => w.life = "RUNNING"
      /\ Head(t).op = "pause" => w.life = "PAUSED"

Shows(t, phase, input, w, in) ==
  /\ input => w.life = "RUNNING"
  /\ w.life = "RUNNING" /\ phase = "PAUSED" => FreshPause(t) \/ Starting(t)
  /\ w.held \/ ~NoInput(in) => phase = "RUNNING"

Machine(sh, ap, out, w, in) ==
  /\ Plain(w, in)
  /\ Posted(sh.pending, ap.tail, in)
  /\ Done(sh.pending, ap.tail, out, w)
  /\ Queue(ap.tail, ap.phase, ap.input, sh.ingress)
  /\ Shows(ap.tail, ap.phase, ap.input, w, in)

AppInv ==
  env.client = "app" /\ ~shell.terminal => Machine(shell, app, outbox, worker, inbox)

-----------------------------------------------------------------------------
\* The line

LEMMA SeqEnds ==
  ASSUME NEW S, NEW s \in Seq(S), s # <<>>
  PROVE  /\ Len(s) \in Nat \ {0} /\ 1 \in 1..Len(s) /\ Head(s) = s[1] /\ s[1] \in S
         /\ Tail(s) \in Seq(S) /\ Len(Tail(s)) = Len(s) - 1 /\ Len(Tail(s)) \in Nat
         /\ \A i \in 1..Len(Tail(s)) : i + 1 \in 1..Len(s) /\ Tail(s)[i] = s[i + 1]
<1>1. Len(s) \in Nat \ {0}
  BY EmptySeq
<1>2. /\ Tail(s) \in Seq(S) /\ Len(Tail(s)) = Len(s) - 1
      /\ \A i \in 1..Len(Tail(s)) : Tail(s)[i] = s[i + 1]
  BY HeadTailProperties
<1>3. 1 \in 1..Len(s) /\ Head(s) = s[1] /\ s[1] \in S
  BY <1>1
<1> QED BY <1>1, <1>2, <1>3

\* Every id is on the line once, and waited for by one entry.
Apart(P, out, in) ==
  /\ \A i, j \in 1..Len(in) : in[i].id = in[j].id => i = j
  /\ \A i \in 1..Len(in), j \in 1..Len(out) : in[i].id # out[j].id
  /\ \A i, j \in 1..Len(out) : out[i].id = out[j].id => i = j
  /\ \A p, q \in P : p.id = q.id => p = q

LEMMA PageApart ==
  ASSUME NEW sh, NEW out, NEW w, NEW in, Page(sh, out, w, in), ~sh.terminal
  PROVE  Apart(sh.pending, out, in)
<1>1. Lines(out, w, in)
  BY DEF Page
<1>2. PICK a \in Ids : /\ InTurn(a, out, w, in, sh.next)
                       /\ Awaited(a, sh, Flight(out, w, in))
  BY DEF Page, Order
<1> DEFINE o == Len(out)
           r == RunLen(w)
           d == Len(w.deferred)
           n == Len(in)
<1>3. Sizes(o, r, d, n)
  BY <1>1, LineSizes
<1>4. Places(a, out, w, in, sh.next, o, r, d, n)
  BY <1>2, InPlaces
<1> HIDE DEF o, r, d, n
<1>5. /\ \A i \in 1..o : i - 1 \in 0..MaxFlight - 1
      /\ \A i \in 1..n : o + r + d + i - 1 \in 0..MaxFlight - 1
      /\ \A i \in 1..n, j \in 1..o : o + r + d + i - 1 # j - 1
      /\ \A i, j \in 1..n : i # j => o + r + d + i - 1 # o + r + d + j - 1
      /\ \A i, j \in 1..o : i # j => i - 1 # j - 1
  BY <1>3, Bounds DEF Sizes
<1>6. /\ \A i \in 1..o : out[i].id = Wrap(a, i - 1)
      /\ \A i \in 1..n : in[i].id = Wrap(a, o + r + d + i - 1)
  BY <1>4 DEF Places
<1>7. \A i, j \in 1..n : in[i].id = in[j].id => i = j
  <2> SUFFICES ASSUME NEW i \in 1..n, NEW j \in 1..n, i # j
               PROVE  in[i].id # in[j].id
    OBVIOUS
  <2> QED BY <1>5, <1>6, WrapApart
<1>8. \A i \in 1..n, j \in 1..o : in[i].id # out[j].id
  BY <1>5, <1>6, WrapApart
<1>9. \A i, j \in 1..o : out[i].id = out[j].id => i = j
  <2> SUFFICES ASSUME NEW i \in 1..o, NEW j \in 1..o, i # j
               PROVE  out[i].id # out[j].id
    OBVIOUS
  <2> QED BY <1>5, <1>6, WrapApart
<1> QED BY <1>2, <1>7, <1>8, <1>9 DEF Apart, Awaited, o, n

-----------------------------------------------------------------------------
\* The worker's steps

\* What the answer st to a request of an application does to its worker.
Handled(w, v, op, st) ==
  /\ v.run = None /\ v.deferred = <<>> /\ v.core /\ ~v.hidden
  /\ v.life \in {"PAUSED", "RUNNING"}
  /\ op \notin {"start", "pause"} => v.life = w.life
  /\ op = "start" => v.life = "RUNNING" \/ (v.life = w.life /\ st # "OK")
  /\ op = "pause" => v.life = "PAUSED" \/ (v.life = w.life /\ st # "OK")
  /\ v.held => w.held \/ op = "input"
  /\ st = "OK" \/ st = "REFUSED" \/ (op = "start" /\ w.life # "PAUSED")

LEMMA PlainAnswer ==
  ASSUME NEW w \in Workers, NEW q,
         w.run = None, w.deferred = <<>>, w.core, ~w.hidden,
         w.life \in {"PAUSED", "RUNNING"},
         q.op \in {"neutralize", "display", "start", "pause", "input"},
         NEW v, NEW st, v = Answer(w, q).w, st = Answer(w, q).status
  PROVE  Handled(w, v, q.op, st)
<1>1. w.held \in BOOLEAN
  BY WorkerFields
<1>2. CASE q.op = "start" /\ w.life # "PAUSED"
  <2>1. ~Accepts(w, q)
    BY <1>2 DEF Accepts, InputOps, Ended, Completions
  <2>2. v = w /\ st = "NOTREADY"
    BY <2>1 DEF Answer
  <2> QED BY <1>2, <2>2 DEF Handled
<1>3. CASE ~(q.op = "start" /\ w.life # "PAUSED")
  <2>1. Accepts(w, q)
    BY <1>3 DEF Accepts, InputOps, Ended, Completions
  <2>2. v = Effect(w, q) /\ st = "OK"
    BY <2>1 DEF Answer
  <2>3. CASE q.op = "neutralize"
    <3>1. v = [w EXCEPT !.held = FALSE]
      BY <2>2, <2>3 DEF Effect
    <3> QED BY <2>2, <2>3, <3>1 DEF Handled, Workers
  <2>4. CASE q.op = "display"
    <3>1. v = w
      BY <2>2, <2>4 DEF Effect, Completions
    <3> QED BY <2>2, <2>4, <3>1 DEF Handled
  <2>5. CASE q.op = "start"
    <3>1. v = [w EXCEPT !.life = "RUNNING"]
      BY <2>2, <2>5 DEF Effect
    <3> QED BY <2>2, <2>5, <3>1 DEF Handled, Workers
  <2>6. CASE q.op = "pause"
    <3>1. v = [w EXCEPT !.life = IF @ \in Moving THEN "PAUSED" ELSE @]
      BY <2>2, <2>6 DEF Effect, Paused
    <3>2. v = [w EXCEPT !.life = "PAUSED"]
      BY <3>1 DEF Moving, Workers
    <3> QED BY <2>2, <2>6, <3>2 DEF Handled, Workers
  <2>7. CASE q.op = "input"
    <3>1. v = [w EXCEPT !.held = TRUE]
      BY <2>2, <2>7 DEF Effect
    <3> QED BY <2>2, <2>7, <3>1 DEF Handled, Workers
  <2> QED BY <2>3, <2>4, <2>5, <2>6, <2>7
<1> QED BY <1>2, <1>3

\* The first request is answered: the parts of the invariant one by one.
LEMMA HandlePosted ==
  ASSUME NEW P, NEW t, NEW in \in Seq(Messages), in # <<>>, Posted(P, t, in)
  PROVE  Posted(P, t, Tail(in))
<1>1. /\ \A i \in 1..Len(Tail(in)) : i + 1 \in 1..Len(in) /\ Tail(in)[i] = in[i + 1]
      /\ Len(Tail(in)) \in Nat
  BY SeqEnds
<1> DEFINE s == Tail(in)
<1> HIDE DEF s
<1>2. ASSUME NEW i \in 1..Len(s), s[i].op # "neutralize"
      PROVE  /\ t # <<>> /\ Carries(s[i].op, Head(t))
             /\ \A p \in P : p.for # "neutral" => p.id = s[i].id
             /\ \A j \in 1..Len(s) : s[j].op # "neutralize" => j = i
  <2>1. i + 1 \in 1..Len(in) /\ s[i] = in[i + 1] /\ in[i + 1].op # "neutralize"
    BY <1>1, <1>2 DEF s
  <2>2. /\ t # <<>> /\ Carries(s[i].op, Head(t))
        /\ \A p \in P : p.for # "neutral" => p.id = s[i].id
        /\ \A j \in 1..Len(in) : in[j].op # "neutralize" => j = i + 1
    BY <2>1 DEF Posted
  <2>3. ASSUME NEW j \in 1..Len(s), s[j].op # "neutralize" PROVE j = i
    <3>1. j + 1 = i + 1
      BY <1>1, <2>2, <2>3 DEF s
    <3> QED BY <3>1
  <2> QED BY <2>2, <2>3
<1>3. ASSUME NEW i \in 1..Len(s), s[i].op = "neutralize", NEW p \in P, p.id = s[i].id
      PROVE  p.for = "neutral"
  BY <1>1, <1>3 DEF Posted, s
<1> QED BY <1>2, <1>3 DEF Posted, s

LEMMA HandleDone ==
  ASSUME NEW P, NEW t, Alone(P, t), NEW in \in Seq(Messages), in # <<>>,
         NEW out \in Seq(Responses), NEW w, NEW v, NEW st,
         NEW x \in Responses, x.id = Head(in).id, x.status = st,
         Plain(w, in), Posted(P, t, in), Done(P, t, out, w), Apart(P, out, in),
         Handled(w, v, Head(in).op, st)
  PROVE  Done(P, t, Append(out, x), v)
<1> DEFINE q == Head(in)
           o == Append(out, x)
<1>1. 1 \in 1..Len(in) /\ q = in[1]
  BY SeqEnds
<1>2. /\ Len(o) = Len(out) + 1 /\ Len(out) \in Nat
      /\ \A i \in 1..Len(out) : o[i] = out[i]
      /\ o[Len(out) + 1] = x
  BY AppendProperties
<1>3. q.op \in {"neutralize", "display", "start", "pause", "input"}
  BY <1>1 DEF Plain
<1> HIDE DEF q, o
<1> SUFFICES ASSUME NEW p \in P, p.for = "public", NEW i \in 1..Len(o),
                    o[i].id = p.id, o[i].status = "OK"
             PROVE  /\ Head(t).op = "resume" => v.life = "RUNNING"
                    /\ Head(t).op = "pause" => v.life = "PAUSED"
  BY DEF Done, o
<1>4. CASE i \in 1..Len(out)
  <2>1. out[i].id = p.id /\ out[i].status = "OK"
    BY <1>2, <1>4
  <2>2. /\ Head(t).op = "resume" => w.life = "RUNNING"
        /\ Head(t).op = "pause" => w.life = "PAUSED"
    BY <1>4, <2>1 DEF Done
  <2>3. in[1].id # p.id
    BY <1>1, <1>4, <2>1 DEF Apart
  <2>4. q.op = "neutralize"
    BY <1>1, <2>3 DEF Posted
  <2> QED BY <2>2, <2>4 DEF Handled, q
<1>5. CASE i = Len(out) + 1
  <2>1. p.id = in[1].id /\ st = "OK"
    BY <1>1, <1>2, <1>5 DEF q
  <2>2. q.op # "neutralize"
    BY <1>1, <2>1 DEF Posted
  <2>3. Carries(q.op, Head(t)) /\ Head(t).pc = "lower"
    BY <1>1, <2>2 DEF Posted, Alone, HeadAt
  <2>4. q.op = "start" \/ Head(t).op = q.op
    BY <2>3, <1>3 DEF Carries
  <2>5. q.op = "start" => Head(t).op = "resume" /\ v.life = "RUNNING"
    BY <2>1, <2>3 DEF Carries, Handled, q
  <2>6. q.op = "pause" => v.life = "PAUSED"
    BY <2>1 DEF Handled, q
  <2> QED BY <2>4, <2>5, <2>6, <1>3
<1> QED BY <1>2, <1>4, <1>5

\* A head that was fenced has its fence behind it.
LEMMA StaleHead ==
  ASSUME NEW t \in Seq(Operations), t # <<>>, NEW ph, NEW input, NEW ing,
         Queue(t, ph, input, ing), ~Head(t).fresh
  PROVE  FreshPause(t) /\ FreshPause(Tail(t))
<1>1. 1 \in 1..Len(t) /\ Head(t) = t[1]
  BY SeqEnds
<1>2. PICK j \in 1..Len(t) : 1 < j /\ t[j].op = "pause" /\ t[j].fresh
  BY <1>1 DEF Queue
<1>3. j - 1 \in 1..Len(Tail(t)) /\ Tail(t)[j - 1] = t[j]
  <2>1. /\ Len(t) \in Nat \ {0} /\ Len(Tail(t)) = Len(t) - 1
        /\ \A i \in 1..Len(Tail(t)) : Tail(t)[i] = t[i + 1]
    BY SeqEnds
  <2>2. j - 1 \in 1..Len(Tail(t)) /\ (j - 1) + 1 = j
    BY <1>2, <2>1
  <2> QED BY <2>1, <2>2
<1> QED BY <1>2, <1>3 DEF FreshPause

LEMMA HandleShows ==
  ASSUME NEW P, NEW t \in Seq(Operations), NEW in \in Seq(Messages), in # <<>>,
         NEW w \in Workers, NEW v \in Workers, NEW st,
         NEW ph, NEW input, NEW ing,
         Plain(w, in), Posted(P, t, in), Queue(t, ph, input, ing),
         Shows(t, ph, input, w, in), Handled(w, v, Head(in).op, st)
  PROVE  Shows(t, ph, input, v, Tail(in))
<1> DEFINE q == Head(in)
<1>1. 1 \in 1..Len(in) /\ q = in[1]
  BY SeqEnds
<1>2. ~NoInput(Tail(in)) \/ q.op = "input" => ~NoInput(in)
  <2>1. \A i \in 1..Len(Tail(in)) : i + 1 \in 1..Len(in) /\ Tail(in)[i] = in[i + 1]
    BY SeqEnds
  <2> QED BY <1>1, <2>1 DEF NoInput
<1>3. q.op # "neutralize" => t # <<>> /\ Carries(q.op, Head(t))
  BY <1>1 DEF Posted
<1> HIDE DEF q
<1>4. input => v.life = "RUNNING"
  <2> SUFFICES ASSUME input PROVE v.life = "RUNNING"
    OBVIOUS
  <2>1. w.life = "RUNNING"
    BY DEF Shows
  <2>2. q.op # "pause"
    <3> SUFFICES ASSUME q.op = "pause" PROVE FALSE
      OBVIOUS
    <3>1. t # <<>> /\ Head(t).op = "pause"
      BY <1>3 DEF Carries
    <3>2. t[1].op = "input" /\ Head(t) = t[1]
      BY <3>1, SeqEnds DEF Queue
    <3> QED BY <3>1, <3>2
  <2> QED BY <2>1, <2>2 DEF Handled, q
<1>5. ASSUME v.life = "RUNNING", ph = "PAUSED" PROVE FreshPause(t) \/ Starting(t)
  <2>1. CASE w.life = "RUNNING"
    BY <2>1, <1>5 DEF Shows
  <2>2. CASE q.op = "start"
    <3>1. t # <<>> /\ Head(t).op = "resume" /\ Head(t).pc = "lower"
      BY <2>2, <1>3 DEF Carries
    <3>2. CASE Head(t).fresh
      BY <3>1, <3>2 DEF Starting, HeadAt
    <3>3. CASE ~Head(t).fresh
      BY <3>1, <3>3, StaleHead
    <3> QED BY <3>2, <3>3
  <2> QED BY <2>1, <2>2, <1>5 DEF Handled, q
<1>6. v.held \/ ~NoInput(Tail(in)) => ph = "RUNNING"
  BY <1>2 DEF Handled, Shows, q
<1> QED BY <1>4, <1>5, <1>6 DEF Shows

LEMMA HandlePlain ==
  ASSUME NEW in \in Seq(Messages), in # <<>>, NEW w, NEW v, NEW st,
         Plain(w, in), Handled(w, v, Head(in).op, st)
  PROVE  Plain(v, Tail(in))
<1>1. \A i \in 1..Len(Tail(in)) : i + 1 \in 1..Len(in) /\ Tail(in)[i] = in[i + 1]
  BY SeqEnds
<1> QED BY <1>1 DEF Plain, Handled

\* An application's session before a step, and after it.
Before ==
  /\ SInv /\ SInv' /\ env.client = "app" /\ ~shell.terminal
  /\ Machine(shell, app, outbox, worker, inbox)
After == Machine(shell', app', outbox', worker', inbox')

LEMMA AppFacts ==
  ASSUME Before
  PROVE  /\ ShellType(shell) /\ shell.pending \subseteq Entries /\ shell.terminal = FALSE
         /\ shell.ingress \in BOOLEAN /\ shell.neutral \in BOOLEAN
         /\ app.tail \in Seq(Operations) /\ Len(app.tail) \in Nat /\ app.input \in BOOLEAN
         /\ AppType(app) /\ Alone(shell.pending, app.tail) /\ bridge = Idle
         /\ app.phase \in {"PAUSED", "RUNNING"}
         /\ worker \in Workers /\ inbox \in Seq(Messages) /\ outbox \in Seq(Responses)
         /\ Page(shell, outbox, worker, inbox) /\ Apart(shell.pending, outbox, inbox)
         /\ Plain(worker, inbox) /\ Posted(shell.pending, app.tail, inbox)
         /\ Done(shell.pending, app.tail, outbox, worker)
         /\ Queue(app.tail, app.phase, app.input, shell.ingress)
         /\ Shows(app.tail, app.phase, app.input, worker, inbox)
         /\ Releases(shell, outbox, worker, inbox)
<1>1. /\ SInv /\ env.client = "app" /\ ~shell.terminal
      /\ Machine(shell, app, outbox, worker, inbox)
  BY DEF Before
<1>2. /\ ShellType(shell) /\ Page(shell, outbox, worker, inbox)
      /\ worker \in Workers /\ inbox \in Seq(Messages) /\ outbox \in Seq(Responses)
  BY <1>1, PageTypes
<1>3. Apart(shell.pending, outbox, inbox)
  BY <1>1, <1>2, PageApart
<1>4. /\ shell.pending \subseteq Entries /\ shell.ingress \in BOOLEAN
      /\ shell.neutral \in BOOLEAN /\ shell.terminal \in BOOLEAN
  BY <1>2, ShellFields
<1>5. AppType(app) /\ Shape(env, shell, bridge, app)
  BY <1>1, Parts
<1>6. /\ Alone(shell.pending, app.tail) /\ bridge = Idle
      /\ app.phase \notin {"STOPPED", "FAILED"}
  BY <1>1, <1>5 DEF Shape
<1>7. /\ app.tail \in Seq(Operations) /\ Len(app.tail) \in Nat /\ app.input \in BOOLEAN
      /\ app.phase \in {"PAUSED", "RUNNING", "STOPPED", "FAILED"}
  BY <1>5, TailType
<1>8. Releases(shell, outbox, worker, inbox)
  BY <1>2 DEF Page
<1> QED BY <1>1, <1>2, <1>3, <1>4, <1>5, <1>6, <1>7, <1>8 DEF Machine

\* The same ids are apart after a step.
LEMMA NextFacts ==
  ASSUME Before, ~shell'.terminal
  PROVE  /\ Apart(shell'.pending, outbox', inbox') /\ worker' \in Workers
         /\ inbox' \in Seq(Messages) /\ outbox' \in Seq(Responses)
         /\ app'.tail \in Seq(Operations) /\ shell'.pending \subseteq Entries
<1>1. Page(shell', outbox', worker', inbox') /\ AppType(app')
  BY DEF Before, SInv
<1>2. Apart(shell'.pending, outbox', inbox')
  BY <1>1, PageApart
<1>3. Lines(outbox', worker', inbox') /\ ShellType(shell')
  BY <1>1 DEF Page
<1> QED BY <1>1, <1>2, <1>3, LineTypes, TailType, ShellFields

\* What the worker answered its first request with.
LEMMA HandledFirst ==
  ASSUME Before, Handle(env.faults)
  PROVE  /\ inbox # <<>> /\ inbox' = Tail(inbox)
         /\ \E st \in {"OK", "NOTREADY", "REFUSED"} :
              /\ Handled(worker, worker', Head(inbox).op, st)
              /\ outbox' = Append(outbox, Reply(Head(inbox), st))
              /\ Reply(Head(inbox), st) \in Responses
              /\ Reply(Head(inbox), st).id = Head(inbox).id
              /\ Reply(Head(inbox), st).status = st
              /\ st = "REFUSED" => env.faults
<1> DEFINE q == Head(inbox)
<1>1. worker.run = None /\ worker.deferred = <<>> /\ inbox # <<>> /\ inbox' = Tail(inbox)
  BY DEF Handle, Free
<1>2. /\ q \in Messages /\ q.id = worker.expected /\ q = inbox[1] /\ 1 \in 1..Len(inbox)
  BY <1>1, FirstRequest DEF Before
<1>3. PICK x \in Answers(q, env.faults) :
        /\ worker' = x.w
        /\ outbox' = Append(outbox, Reply(q, x.status))
  BY DEF Handle
<1>4. worker \in Workers /\ Plain(worker, inbox)
  BY AppFacts
<1>5. /\ Known \in Workers /\ Known.expected = Succ(worker.expected)
      /\ Known.run = worker.run /\ Known.deferred = worker.deferred
      /\ Known.held = worker.held /\ Known.life = worker.life
  BY <1>4, KnownWorker
<1>6. Known.core = worker.core /\ Known.hidden = worker.hidden
  BY <1>4 DEF Known, Workers
<1>7. q.op \in {"neutralize", "display", "start", "pause", "input"}
  BY <1>2, <1>4 DEF Plain
<1>8. worker.core /\ ~worker.hidden /\ worker.life \in {"PAUSED", "RUNNING"}
  BY <1>4 DEF Plain
<1> HIDE DEF q
<1>9. \/ x.w = Answer(Known, q).w /\ x.status = Answer(Known, q).status
      \/ x.w = Known /\ x.status = "REFUSED" /\ env.faults
         /\ q.op \in {"input", "neutralize", "display"}
  BY <1>2, <1>3 DEF Answers, Known, MayRefuse, InputOps
<1>10. Handled(worker, worker', q.op, x.status) /\ x.status \in {"OK", "NOTREADY", "REFUSED"}
       /\ (x.status = "REFUSED" => env.faults)
  <2>1. CASE x.w = Answer(Known, q).w /\ x.status = Answer(Known, q).status
    <3>1. Handled(Known, x.w, q.op, x.status)
      BY <2>1, <1>1, <1>5, <1>6, <1>7, <1>8, PlainAnswer
    <3>2. x.status \in {"OK", "NOTREADY"}
      BY <2>1 DEF Answer
    <3> QED BY <3>1, <3>2, <1>3, <1>5 DEF Handled
  <2>2. CASE /\ x.w = Known /\ x.status = "REFUSED" /\ env.faults
             /\ q.op \in {"input", "neutralize", "display"}
    BY <2>2, <1>1, <1>3, <1>5, <1>6, <1>8 DEF Handled
  <2> QED BY <2>1, <2>2, <1>9
<1>11. /\ Reply(q, x.status) \in Responses /\ Reply(q, x.status).id = q.id
       /\ Reply(q, x.status).status = x.status
  <2>1. q.id \in Ids /\ x.status \in Statuses
    BY <1>2, <1>10 DEF Messages, Statuses
  <2> QED BY <2>1, <1>4, ReplyType
<1> QED BY <1>1, <1>3, <1>10, <1>11 DEF q

LEMMA HandleApp ==
  ASSUME Before, WorkerHandles
  PROVE  After
<1>1. UNCHANGED <<shell, app>> /\ Handle(env.faults)
  BY DEF WorkerHandles
<1>2. inbox # <<>> /\ inbox' = Tail(inbox)
  BY <1>1, HandledFirst
<1>3. PICK st \in {"OK", "NOTREADY", "REFUSED"} :
         /\ Handled(worker, worker', Head(inbox).op, st)
         /\ outbox' = Append(outbox, Reply(Head(inbox), st))
         /\ Reply(Head(inbox), st) \in Responses
         /\ Reply(Head(inbox), st).id = Head(inbox).id
         /\ Reply(Head(inbox), st).status = st
  BY <1>1, HandledFirst
<1>4. worker' \in Workers
  BY <1>1, AppFacts, NextFacts
<1>5. Plain(worker', inbox')
  BY <1>2, <1>3, AppFacts, HandlePlain
<1>6. Posted(shell.pending, app.tail, inbox')
  BY <1>2, AppFacts, HandlePosted
<1>7. Done(shell.pending, app.tail, outbox', worker')
  BY <1>2, <1>3, AppFacts, HandleDone
<1>8. Shows(app.tail, app.phase, app.input, worker', inbox')
  BY <1>2, <1>3, <1>4, AppFacts, HandleShows
<1> QED BY <1>1, <1>5, <1>6, <1>7, <1>8, AppFacts DEF After, Machine

\* An application's worker never has a slice to begin, fence or finish.
LEMMA NoSlice ==
  ASSUME Before, WorkerBegins \/ WorkerCaptures \/ WorkerFinishes
  PROVE  FALSE
<1>1. worker.run = None /\ worker.deferred = <<>> /\ inbox \in Seq(Messages)
      /\ Plain(worker, inbox)
  BY AppFacts DEF Plain
<1>2. CASE WorkerBegins
  <2>1. inbox # <<>> /\ Head(inbox).op = "run"
    BY <1>2 DEF WorkerBegins, BeginRun, Free
  <2>2. Head(inbox) = inbox[1] /\ 1 \in 1..Len(inbox)
    BY <1>1, <2>1, SeqEnds
  <2> QED BY <1>1, <2>1, <2>2 DEF Plain
<1>3. CASE WorkerCaptures
  BY <1>1, <1>3 DEF WorkerCaptures, Capture
<1>4. CASE WorkerFinishes
  BY <1>1, <1>4 DEF WorkerFinishes, FinishRun, ApplyDeferred
<1> QED BY <1>2, <1>3, <1>4

-----------------------------------------------------------------------------
\* The page's steps

\* Entries go and replies are taken.
LEMMA FewerApp ==
  ASSUME Before, shell'.pending \subseteq shell.pending,
         shell'.ingress = shell.ingress, UNCHANGED <<inbox, worker, app>>,
         outbox' = outbox \/ (outbox # <<>> /\ outbox' = Tail(outbox))
  PROVE  After
<1>1. /\ Plain(worker, inbox) /\ Posted(shell.pending, app.tail, inbox)
      /\ Done(shell.pending, app.tail, outbox, worker)
      /\ Queue(app.tail, app.phase, app.input, shell.ingress)
      /\ Shows(app.tail, app.phase, app.input, worker, inbox)
      /\ outbox \in Seq(Responses)
  BY AppFacts
<1>2. Posted(shell'.pending, app.tail, inbox)
  BY <1>1 DEF Posted
<1>3. \A i \in 1..Len(outbox') : \E j \in 1..Len(outbox) : outbox'[i] = outbox[j]
  <2>1. CASE outbox' = outbox
    BY <2>1
  <2>2. CASE outbox # <<>> /\ outbox' = Tail(outbox)
    BY <2>2, <1>1, SeqEnds
  <2> QED BY <2>1, <2>2
<1>4. Done(shell'.pending, app.tail, outbox', worker)
  <2> SUFFICES ASSUME NEW p \in shell'.pending, p.for = "public",
                      NEW i \in 1..Len(outbox'),
                      outbox'[i].id = p.id, outbox'[i].status = "OK"
               PROVE  /\ Head(app.tail).op = "resume" => worker.life = "RUNNING"
                      /\ Head(app.tail).op = "pause" => worker.life = "PAUSED"
    BY DEF Done
  <2>1. PICK j \in 1..Len(outbox) : outbox'[i] = outbox[j]
    BY <1>3
  <2> QED BY <2>1, <1>1 DEF Done
<1> QED BY <1>1, <1>2, <1>4 DEF After, Machine

\* The reply that settles an entry: what is left waits for releases only, if
\* the entry was not one.
LEMMA SettledApp ==
  ASSUME Before, NEW kind, NEW p \in shell.pending, Settles(p, kind)
  PROVE  /\ outbox # <<>> /\ p.id = outbox[1].id /\ 1 \in 1..Len(outbox)
         /\ p.for = kind /\ Head(outbox) = outbox[1] /\ p \in Entries
         /\ Without(p).pending = shell.pending \ {p} /\ ShellType(Without(p))
         /\ Without(p).ingress = shell.ingress /\ Without(p).neutral = shell.neutral
         /\ Without(p).next = shell.next
         /\ kind # "neutral" =>
              /\ \A i \in 1..Len(inbox) : inbox[i].op = "neutralize"
              /\ \A q \in shell.pending \ {p} : q.for = "neutral"
<1>1. outbox # <<>> /\ p.for = kind /\ p.id = Head(outbox).id
  BY DEF Settles
<1>2. /\ outbox \in Seq(Responses) /\ Apart(shell.pending, outbox, inbox)
      /\ ShellType(shell) /\ shell.pending \subseteq Entries
      /\ Alone(shell.pending, app.tail) /\ Posted(shell.pending, app.tail, inbox)
  BY AppFacts
<1>3. 1 \in 1..Len(outbox) /\ Head(outbox) = outbox[1]
  BY <1>1, <1>2, SeqEnds
<1>4. /\ Without(p).pending = shell.pending \ {p} /\ ShellType(Without(p))
      /\ Without(p).ingress = shell.ingress /\ Without(p).neutral = shell.neutral
      /\ Without(p).next = shell.next
  BY <1>2, WithoutFields
<1>5. ASSUME kind # "neutral"
      PROVE  /\ \A i \in 1..Len(inbox) : inbox[i].op = "neutralize"
             /\ \A q \in shell.pending \ {p} : q.for = "neutral"
  <2>1. \A q \in shell.pending \ {p} : q.for = "neutral"
    BY <1>1, <1>2, <1>5, LeftOver
  <2>2. ASSUME NEW i \in 1..Len(inbox) PROVE inbox[i].op = "neutralize"
    <3>1. inbox[i].id # p.id
      BY <1>1, <1>2, <1>3 DEF Apart
    <3> QED BY <3>1, <1>1, <1>2, <1>5 DEF Posted
  <2> QED BY <2>1, <2>2
<1> QED BY <1>1, <1>2, <1>3, <1>4, <1>5

LEMMA ReceiveNeutralApp ==
  ASSUME Before, ReceiveNeutral
  PROVE  After
<1>1. PICK p \in shell.pending :
        /\ Settles(p, "neutral")
        /\ shell' = IF p.fresh THEN Confirmed(Without(p), Head(outbox).status)
                               ELSE Without(p)
        /\ UNCHANGED <<inbox, bridge, app>> /\ Taken
  BY DEF ReceiveNeutral
<1> DEFINE s == Without(p)
<1>2. /\ outbox # <<>> /\ ShellType(s) /\ s.pending = shell.pending \ {p}
      /\ s.ingress = shell.ingress
  BY <1>1, SettledApp
<1>3. shell' = IF p.fresh THEN Confirmed(s, Head(outbox).status) ELSE s
  BY <1>1
<1> HIDE DEF s
<1>4. shell'.pending = s.pending /\ shell'.ingress = s.ingress
  BY <1>2, <1>3 DEF Confirmed, ShellType
<1> QED BY <1>1, <1>2, <1>4, FewerApp DEF Taken

LEMMA TimeOutApp ==
  ASSUME Before, TimeOut, ~shell'.terminal
  PROVE  After
<1>1. ~Lose
  <2> SUFFICES ASSUME Lose PROVE shell'.terminal
    OBVIOUS
  <2>1. ShellType(shell) /\ shell' = [shell EXCEPT !.terminal = TRUE, !.failed = TRUE,
               !.ingress = FALSE, !.neutral = FALSE, !.pending = Rejected]
    BY AppFacts DEF Lose, Close
  <2> QED BY <2>1 DEF ShellType
<1>2. env.client = "app"
  BY DEF Before
<1>3. PICK p \in shell.pending :
        \/ /\ p.for = "neutral"
           /\ shell' = [Without(p) EXCEPT !.failed = @ \/ p.fresh]
           /\ UNCHANGED <<wvars, bridge, app, env, crossed>>
        \/ p.for = "bridge"
  BY <1>1, <1>2 DEF TimeOut
<1>4. ShellType(shell) /\ Alone(shell.pending, app.tail)
  BY AppFacts
<1>5. p.for # "bridge"
  BY <1>4 DEF Alone
<1> DEFINE s == Without(p)
<1>6. ShellType(s) /\ s.pending = shell.pending \ {p} /\ s.ingress = shell.ingress
  BY <1>4, WithoutFields
<1>7. /\ shell' = [s EXCEPT !.failed = @ \/ p.fresh]
      /\ UNCHANGED <<wvars, bridge, app, env, crossed>>
  BY <1>3, <1>5
<1> HIDE DEF s
<1>8. shell'.pending = s.pending /\ shell'.ingress = s.ingress
  BY <1>6, <1>7 DEF ShellType
<1> QED BY <1>6, <1>7, <1>8, FewerApp DEF wvars

-----------------------------------------------------------------------------
\* Posting

LEMMA AppendEnds ==
  ASSUME NEW S, NEW s \in Seq(S), NEW x \in S
  PROVE  /\ Append(s, x) \in Seq(S) /\ Len(Append(s, x)) = Len(s) + 1
         /\ Len(s) \in Nat /\ Append(s, x) # <<>>
         /\ \A i \in 1..Len(s) : Append(s, x)[i] = s[i]
         /\ Append(s, x)[Len(s) + 1] = x
         /\ s = <<>> => Head(Append(s, x)) = x
         /\ s # <<>> => Head(Append(s, x)) = Head(s)
         /\ \A i \in 1..Len(Append(s, x)) : i \in 1..Len(s) \/ i = Len(s) + 1
         /\ \A i \in 1..Len(s) + 1 : i \in 1..Len(Append(s, x))
<1> DEFINE u == Append(s, x)
<1>1. /\ u \in Seq(S) /\ Len(u) = Len(s) + 1 /\ Len(s) \in Nat
      /\ \A i \in 1..Len(s) : u[i] = s[i]
      /\ u[Len(s) + 1] = x
  BY AppendProperties
<1>2. u # <<>> /\ Head(u) = u[1]
  <2>1. u \in Seq(S) /\ Len(u) # 0
    BY <1>1
  <2> HIDE DEF u
  <2> QED BY <2>1, EmptySeq, SeqEnds
<1>3. s # <<>> => 1 \in 1..Len(s) /\ Head(s) = s[1]
  BY SeqEnds
<1>4. s = <<>> => Len(s) = 0
  OBVIOUS
<1> HIDE DEF u
<1>5. s = <<>> => Head(u) = x
  BY <1>1, <1>2, <1>4
<1>6. s # <<>> => Head(u) = Head(s)
  BY <1>1, <1>2, <1>3
<1>7. /\ \A i \in 1..Len(u) : i \in 1..Len(s) \/ i = Len(s) + 1
      /\ \A i \in 1..Len(s) + 1 : i \in 1..Len(u)
  BY <1>1
<1> QED BY <1>1, <1>2, <1>5, <1>6, <1>7 DEF u

SameHead(t, u) ==
  t # <<>> => u # <<>> /\ Head(u).op = Head(t).op /\ Head(u).pc = Head(t).pc

LEMMA HeadKept ==
  ASSUME NEW P, NEW t, NEW u, NEW in, NEW out, NEW w, Alone(P, t), SameHead(t, u),
         Posted(P, t, in), Done(P, t, out, w)
  PROVE  Posted(P, u, in) /\ Done(P, u, out, w)
<1>1. Posted(P, u, in)
  BY DEF Posted, Carries, SameHead
<1>2. \A p \in P : p.for = "public" => t # <<>>
  BY DEF Alone, HeadAt
<1> QED BY <1>1, <1>2 DEF Done, SameHead

\* A release is posted.
LEMMA PostRelease ==
  ASSUME NEW P, NEW t, NEW in \in Seq(Messages), NEW out, NEW w,
         Plain(w, in), Posted(P, t, in), Done(P, t, out, w),
         NEW q \in Messages, q.op = "neutralize",
         NEW Q, \A r \in Q : r.for = "neutral" \/ \E p \in P : p.id = r.id /\ p.for = r.for,
         NEW e \in Q, e.id = q.id, e.for = "neutral", Apart(Q, out, Append(in, q))
  PROVE  /\ Plain(w, Append(in, q))
         /\ Posted(Q, t, Append(in, q)) /\ Done(Q, t, out, w)
         /\ NoInput(Append(in, q)) <=> NoInput(in)
<1> DEFINE s == Append(in, q)
<1>1. /\ \A i \in 1..Len(in) : s[i] = in[i] /\ i \in 1..Len(s)
      /\ s[Len(in) + 1] = q
      /\ \A i \in 1..Len(s) : i \in 1..Len(in) \/ i = Len(in) + 1
  BY AppendEnds
<1> HIDE DEF s
<1>2. Plain(w, s)
  BY <1>1 DEF Plain
<1>3. NoInput(s) <=> NoInput(in)
  BY <1>1 DEF NoInput
<1>4. Done(Q, t, out, w)
  <2> SUFFICES ASSUME NEW r \in Q, r.for = "public", NEW i \in 1..Len(out),
                      out[i].id = r.id, out[i].status = "OK"
               PROVE  /\ Head(t).op = "resume" => w.life = "RUNNING"
                      /\ Head(t).op = "pause" => w.life = "PAUSED"
    BY DEF Done
  <2>1. PICK p \in P : p.id = r.id /\ p.for = r.for
    OBVIOUS
  <2> QED BY <2>1 DEF Done
<1>5. ASSUME NEW i \in 1..Len(s), s[i].op # "neutralize"
      PROVE  /\ t # <<>> /\ Carries(s[i].op, Head(t))
             /\ \A r \in Q : r.for # "neutral" => r.id = s[i].id
             /\ \A j \in 1..Len(s) : s[j].op # "neutralize" => j = i
  <2>1. i \in 1..Len(in) /\ s[i] = in[i] /\ in[i].op # "neutralize"
    BY <1>1, <1>5
  <2>2. /\ t # <<>> /\ Carries(s[i].op, Head(t))
        /\ \A p \in P : p.for # "neutral" => p.id = s[i].id
        /\ \A j \in 1..Len(in) : in[j].op # "neutralize" => j = i
    BY <2>1 DEF Posted
  <2>3. ASSUME NEW r \in Q, r.for # "neutral" PROVE r.id = s[i].id
    <3>1. PICK p \in P : p.id = r.id /\ p.for = r.for
      BY <2>3
    <3> QED BY <3>1, <2>2, <2>3
  <2>4. ASSUME NEW j \in 1..Len(s), s[j].op # "neutralize" PROVE j = i
    <3>1. j \in 1..Len(in) /\ in[j].op # "neutralize"
      BY <1>1, <2>4
    <3> QED BY <3>1, <2>2
  <2> QED BY <2>2, <2>3, <2>4
<1>6. ASSUME NEW i \in 1..Len(s), s[i].op = "neutralize", NEW r \in Q, r.id = s[i].id
      PROVE  r.for = "neutral"
  <2>1. CASE i \in 1..Len(in)
    <3>1. in[i].op = "neutralize" /\ r.id = in[i].id
      BY <1>1, <1>6, <2>1
    <3>2. \A p \in P : p.id = r.id => p.for = "neutral"
      BY <2>1, <3>1 DEF Posted
    <3> QED BY <3>2
  <2>2. CASE i = Len(in) + 1
    <3>1. r = e
      BY <1>1, <1>6, <2>2 DEF Apart
    <3> QED BY <3>1
  <2> QED BY <2>1, <2>2, <1>1
<1>7. Posted(Q, t, s)
  BY <1>5, <1>6 DEF Posted
<1> QED BY <1>2, <1>3, <1>4, <1>7 DEF s

LEMMA MoreNoInput ==
  ASSUME NEW in \in Seq(Messages), NEW q \in Messages, q.op # "input",
         \A i \in 1..Len(in) : in[i].op = "neutralize"
  PROVE  NoInput(Append(in, q))
<1> DEFINE s == Append(in, q)
<1>1. /\ \A i \in 1..Len(in) : s[i] = in[i]
      /\ s[Len(in) + 1] = q
      /\ \A i \in 1..Len(s) : i \in 1..Len(in) \/ i = Len(in) + 1
  BY AppendEnds
<1> HIDE DEF s
<1> QED BY <1>1 DEF NoInput, s

\* The first operation posts its request when only releases are under way.
LEMMA PostCarried ==
  ASSUME NEW t, NEW in \in Seq(Messages), NEW out, NEW w, Plain(w, in),
         \A i \in 1..Len(in) : in[i].op = "neutralize",
         NEW q \in Messages, q.op \in {"display", "start", "pause", "input"},
         t # <<>>, Carries(q.op, Head(t)),
         NEW Q, NEW e \in Q, e.id = q.id,
         \A r \in Q : r # e => r.for = "neutral", Apart(Q, out, Append(in, q))
  PROVE  Plain(w, Append(in, q)) /\ Posted(Q, t, Append(in, q)) /\ Done(Q, t, out, w)
<1> DEFINE s == Append(in, q)
<1>1. /\ \A i \in 1..Len(in) : s[i] = in[i] /\ i \in 1..Len(s)
      /\ s[Len(in) + 1] = q /\ Len(in) + 1 \in 1..Len(s)
      /\ \A i \in 1..Len(s) : i \in 1..Len(in) \/ i = Len(in) + 1
      /\ \A i \in 1..Len(in) : i # Len(in) + 1
  <2>1. Len(in) \in Nat
    OBVIOUS
  <2> QED BY <2>1, AppendEnds
<1> HIDE DEF s
<1>2. Plain(w, s)
  BY <1>1 DEF Plain
<1>3. Done(Q, t, out, w)
  <2> SUFFICES ASSUME NEW r \in Q, r.for = "public", NEW i \in 1..Len(out),
                      out[i].id = r.id
               PROVE  FALSE
    BY DEF Done
  <2>1. r = e
    OBVIOUS
  <2>2. s[Len(in) + 1].id = out[i].id
    BY <1>1, <2>1
  <2> QED BY <2>2, <1>1 DEF Apart, s
<1>4. ASSUME NEW i \in 1..Len(s), s[i].op # "neutralize"
      PROVE  /\ t # <<>> /\ Carries(s[i].op, Head(t))
             /\ \A r \in Q : r.for # "neutral" => r.id = s[i].id
             /\ \A j \in 1..Len(s) : s[j].op # "neutralize" => j = i
  <2>1. i = Len(in) + 1 /\ s[i] = q
    BY <1>1, <1>4
  <2> QED BY <2>1, <1>1
<1>5. ASSUME NEW i \in 1..Len(s), s[i].op = "neutralize", NEW r \in Q, r.id = s[i].id
      PROVE  r.for = "neutral"
  <2>1. i \in 1..Len(in)
    BY <1>1, <1>5
  <2>2. r # e
    <3> SUFFICES ASSUME r = e PROVE FALSE
      OBVIOUS
    <3>1. s[i].id = s[Len(in) + 1].id
      BY <1>1, <1>5
    <3> QED BY <3>1, <2>1, <1>1 DEF Apart, s
  <2> QED BY <2>2
<1>6. Posted(Q, t, s)
  BY <1>4, <1>5 DEF Posted
<1> QED BY <1>2, <1>3, <1>6 DEF s

\* What Post() does, for a shell it is given.
LEMMA Posting ==
  ASSUME NEW sh, ShellType(sh), NEW for \in Callers, NEW op \in Kinds,
         NEW g \in 0..MaxReset, Post(sh, for, op, g)
  PROVE  /\ shell'.pending = sh.pending \cup {Sent(sh, for)}
         /\ shell'.terminal = sh.terminal /\ shell'.failed = sh.failed
         /\ shell'.ingress = sh.ingress /\ shell'.neutral = sh.neutral
         /\ shell'.next = Succ(sh.next)
         /\ inbox' = Append(inbox, Request(sh.next, op, g))
<1>1. shell' = Sends(sh, for) /\ inbox' = Append(inbox, Request(sh.next, op, g))
  BY DEF Post, Sends, Sent
<1>2. /\ Sends(sh, for).next = Succ(sh.next)
      /\ Sends(sh, for).pending = sh.pending \cup {Sent(sh, for)}
      /\ Sends(sh, for).terminal = sh.terminal
      /\ Sends(sh, for).failed = sh.failed
      /\ Sends(sh, for).ingress = sh.ingress
      /\ Sends(sh, for).neutral = sh.neutral
  BY SendsFields
<1> QED BY <1>1, <1>2

LEMMA PostedEntry ==
  ASSUME NEW sh, ShellType(sh), NEW for \in Callers, NEW e, e = Sent(sh, for)
  PROVE  e.id = sh.next /\ e.for = for /\ e.fresh = TRUE /\ e \in Entries
<1>1. sh.next \in Ids
  BY ShellFields
<1> QED BY <1>1 DEF Sent, Callers, Entries

LEMMA PostedRequest ==
  ASSUME NEW sh, ShellType(sh), NEW op \in Kinds, NEW g \in 0..MaxReset,
         NEW q, q = Request(sh.next, op, g)
  PROVE  q \in Messages /\ q.id = sh.next /\ q.op = op
BY ShellFields, MessageFields

-----------------------------------------------------------------------------
\* Queueing

LEMMA QueueFence ==
  ASSUME NEW t \in Seq(Operations), NEW ph, NEW input, NEW ing,
         NEW u, u = Append(StaleTail(t), Op("pause"))
  PROVE  Queue(u, ph, FALSE, FALSE) /\ FreshPause(u) /\ SameHead(t, u)
<1> DEFINE s == StaleTail(t)
           x == Op("pause")
<1>1. Len(t) \in Nat /\ DOMAIN t = 1..Len(t) /\ \A i \in 1..Len(t) : t[i] \in Operations
  OBVIOUS
<1>2. ASSUME NEW o \in Operations
      PROVE  /\ [o EXCEPT !.fresh = FALSE] \in Operations
             /\ [o EXCEPT !.fresh = FALSE].pc = o.pc
             /\ [o EXCEPT !.fresh = FALSE].op = o.op
             /\ [o EXCEPT !.fresh = FALSE].fresh = FALSE
  BY DEF Operations
<1>3. s = [i \in 1..Len(t) |-> [t[i] EXCEPT !.fresh = FALSE]]
  BY <1>1 DEF StaleTail
<1>4. \A i \in 1..Len(t) : /\ s[i] \in Operations /\ s[i].pc = t[i].pc
                           /\ s[i].op = t[i].op /\ s[i].fresh = FALSE
  <2> SUFFICES ASSUME NEW i \in 1..Len(t)
               PROVE  /\ s[i] \in Operations /\ s[i].pc = t[i].pc
                      /\ s[i].op = t[i].op /\ s[i].fresh = FALSE
    OBVIOUS
  <2>1. t[i] \in Operations /\ s[i] = [t[i] EXCEPT !.fresh = FALSE]
    BY <1>1, <1>3
  <2> HIDE DEF s
  <2> QED BY <2>1, <1>2
<1>5. s \in Seq(Operations) /\ Len(s) = Len(t)
  BY <1>1, <1>3, <1>4
<1>6. x \in Operations /\ x.op = "pause" /\ x.fresh = TRUE /\ x.pc = "queued"
  BY DEF Op, Operations
<1> HIDE DEF s, x
<1>7. /\ u \in Seq(Operations) /\ Len(u) = Len(t) + 1 /\ u # <<>>
      /\ \A i \in 1..Len(t) : u[i] = s[i]
      /\ u[Len(t) + 1] = x
      /\ s = <<>> => Head(u) = x
      /\ s # <<>> => Head(u) = Head(s)
      /\ \A i \in 1..Len(u) : i \in 1..Len(t) \/ i = Len(t) + 1
      /\ Len(t) + 1 \in 1..Len(u)
  <2>1. u = Append(s, x)
    BY DEF s, x
  <2>2. Len(t) + 1 \in 1..Len(t) + 1
    BY <1>1
  <2>3. /\ u \in Seq(Operations) /\ Len(u) = Len(s) + 1 /\ u # <<>>
        /\ \A i \in 1..Len(s) : u[i] = s[i]
        /\ u[Len(s) + 1] = x
        /\ s = <<>> => Head(u) = x
        /\ s # <<>> => Head(u) = Head(s)
        /\ \A i \in 1..Len(u) : i \in 1..Len(s) \/ i = Len(s) + 1
    <3>1. s \in Seq(Operations) /\ x \in Operations
      BY <1>5, <1>6
    <3> DEFINE v == Append(s, x)
    <3>2. /\ v \in Seq(Operations) /\ Len(v) = Len(s) + 1 /\ v # <<>>
          /\ \A i \in 1..Len(s) : v[i] = s[i]
          /\ v[Len(s) + 1] = x
          /\ s = <<>> => Head(v) = x
          /\ s # <<>> => Head(v) = Head(s)
          /\ \A i \in 1..Len(v) : i \in 1..Len(s) \/ i = Len(s) + 1
      BY <3>1, AppendEnds
    <3>3. u = v
      BY <2>1
    <3> HIDE DEF v
    <3> QED BY <3>2, <3>3
  <2> QED BY <2>2, <2>3, <1>5
<1>8. t # <<>> => /\ s # <<>> /\ Head(s).op = Head(t).op /\ Head(s).pc = Head(t).pc
                  /\ Head(s).fresh = FALSE
  <2> SUFFICES ASSUME t # <<>>
               PROVE  /\ s # <<>> /\ Head(s).op = Head(t).op /\ Head(s).pc = Head(t).pc
                      /\ Head(s).fresh = FALSE
    OBVIOUS
  <2>1. 1 \in 1..Len(t) /\ Head(t) = t[1] /\ Len(t) \in Nat \ {0}
    BY SeqEnds
  <2>2. s # <<>>
    BY <2>1, <1>5, EmptySeq
  <2>3. Head(s) = s[1]
    BY <2>2, <1>5, SeqEnds
  <2> QED BY <2>1, <2>2, <2>3, <1>4
<1>9. s # <<>> => t # <<>>
  BY <1>5, EmptySeq
<1>10. SameHead(t, u)
  BY <1>7, <1>8 DEF SameHead
<1>11. FreshPause(u)
  BY <1>6, <1>7 DEF FreshPause
<1>12. ~Starting(u)
  BY <1>6, <1>7, <1>8, <1>9 DEF Starting, HeadAt
<1>13. ASSUME NEW i \in 1..Len(u)
       PROVE  /\ u[i].op = "resume" => ~u[i].fresh
              /\ u[i].op = "input" => ~u[i].fresh
              /\ ~u[i].fresh =>
                   \E j \in 1..Len(u) : i < j /\ u[j].op = "pause" /\ u[j].fresh
  <2>1. CASE i \in 1..Len(t)
    <3>1. i < Len(t) + 1
      BY <1>1, <2>1
    <3>2. \E j \in 1..Len(u) : i < j /\ u[j].op = "pause" /\ u[j].fresh
      BY <3>1, <1>6, <1>7
    <3>3. u[i].fresh = FALSE
      BY <2>1, <1>4, <1>7
    <3> QED BY <3>2, <3>3
  <2>2. CASE i = Len(t) + 1
    BY <2>2, <1>6, <1>7
  <2> QED BY <2>1, <2>2, <1>7
<1>14. Queue(u, ph, FALSE, FALSE)
  BY <1>12, <1>13 DEF Queue
<1> QED BY <1>10, <1>11, <1>14

\* A resume joins a FIFO that has none, or an input one whose input is enabled.
Extended(t, u) ==
  /\ SameHead(t, u)
  /\ FreshPause(t) => FreshPause(u)
  /\ Starting(t) => Starting(u)

Joins(name, t, ph, input) ==
  \/ /\ name = "resume" /\ ph = "PAUSED"
     /\ \A i \in 1..Len(t) : t[i].op # "resume"
  \/ name = "input" /\ input

LEMMA QueueJoin ==
  ASSUME NEW t \in Seq(Operations), NEW ph, NEW input, NEW ing,
         Queue(t, ph, input, ing), NEW name \in {"resume", "input"},
         Joins(name, t, ph, input),
         NEW u, u = Append(t, Op(name))
  PROVE  Queue(u, ph, input, ing) /\ Extended(t, u)
<1> DEFINE x == Op(name)
           n == Len(t)
<1>0. \/ /\ name = "resume" /\ ph = "PAUSED"
         /\ \A i \in 1..Len(t) : t[i].op # "resume"
      \/ name = "input" /\ input
  BY DEF Joins
<1>1. x \in Operations /\ x.op = name /\ x.fresh = TRUE /\ x.pc = "queued"
  BY DEF Op, Operations
<1> HIDE DEF x
<1>2. /\ u \in Seq(Operations) /\ Len(u) = n + 1 /\ u # <<>> /\ n \in Nat
      /\ \A i \in 1..n : u[i] = t[i] /\ i \in 1..Len(u)
      /\ u[n + 1] = x
      /\ t = <<>> => Head(u) = x
      /\ t # <<>> => Head(u) = Head(t)
      /\ \A i \in 1..Len(u) : i \in 1..n \/ i = n + 1
  <2>1. u = Append(t, x)
    BY DEF x
  <2>2. /\ \A i \in 1..Len(t) + 1 : i \in 1..Len(u)
        /\ Len(t) \in Nat
    BY <2>1, <1>1, AppendEnds
  <2>3. \A i \in 1..Len(t) : i \in 1..Len(t) + 1
    BY <2>2
  <2> QED BY <2>1, <2>2, <2>3, <1>1, AppendEnds
<1>3. SameHead(t, u)
  BY <1>2 DEF SameHead
<1>4. FreshPause(u) <=> FreshPause(t)
  BY <1>1, <1>2 DEF FreshPause
<1>5. Starting(u) <=> Starting(t)
  BY <1>1, <1>2 DEF Starting, HeadAt
<1>6. \A i \in 1..n : t[i].op = "resume" /\ t[i].fresh => name = "resume" /\ FALSE
  <2> SUFFICES ASSUME NEW i \in 1..n, t[i].op = "resume", t[i].fresh PROVE FALSE
    OBVIOUS
  <2>1. CASE name = "resume"
    BY <2>1, <1>0 DEF Queue
  <2>2. CASE name = "input"
    BY <2>2, <1>0 DEF Queue
  <2> QED BY <2>1, <2>2
<1>7. ASSUME NEW i \in 1..Len(u)
      PROVE  /\ u[i].op = "resume" /\ u[i].fresh => i = Len(u) /\ ph = "PAUSED"
             /\ u[i].op = "input" /\ u[i].fresh => input
             /\ ~u[i].fresh =>
                  \E j \in 1..Len(u) : i < j /\ u[j].op = "pause" /\ u[j].fresh
  <2>1. CASE i \in 1..n
    <3>1. u[i] = t[i]
      BY <2>1, <1>2
    <3>2. ~t[i].fresh => \E j \in 1..n : i < j /\ t[j].op = "pause" /\ t[j].fresh
      BY <2>1 DEF Queue
    <3>3. ~u[i].fresh =>
            \E j \in 1..Len(u) : i < j /\ u[j].op = "pause" /\ u[j].fresh
      BY <3>1, <3>2, <1>2
    <3> QED BY <2>1, <3>1, <3>3, <1>6 DEF Queue
  <2>2. CASE i = n + 1
    BY <2>2, <1>0, <1>1, <1>2
  <2> QED BY <2>1, <2>2, <1>2
<1>8. input => \A i \in 1..Len(u) : u[i].op = "input"
  <2> SUFFICES ASSUME input, NEW i \in 1..Len(u) PROVE u[i].op = "input"
    OBVIOUS
  <2>1. ph = "RUNNING" /\ \A k \in 1..n : t[k].op = "input"
    BY DEF Queue
  <2>2. name = "input"
    BY <2>1, <1>0
  <2> QED BY <2>1, <2>2, <1>1, <1>2
<1>9. Queue(u, ph, input, ing)
  BY <1>4, <1>5, <1>7, <1>8 DEF Queue
<1> QED BY <1>3, <1>4, <1>5, <1>9 DEF Extended

LEMMA PauseApp ==
  ASSUME Before, Pause
  PROVE  After
<1> DEFINE u == Append(StaleTail(app.tail), Op("pause"))
           q == Request(Released.next, "neutralize", 0)
           e == Sent(Released, "neutral")
<1>1. /\ app' = [app EXCEPT !.input = FALSE, !.tail = u]
      /\ Post(Released, "neutral", "neutralize", 0)
      /\ UNCHANGED <<outbox, worker>>
  BY AppFacts DEF Pause, StaleTail, AppType
<1>2. Queue(u, app.phase, FALSE, FALSE) /\ FreshPause(u) /\ SameHead(app.tail, u)
  <2>1. app.tail \in Seq(Operations)
    BY AppFacts
  <2> QED BY <2>1, QueueFence
<1>3. app'.tail = u /\ app'.phase = app.phase /\ app'.input = FALSE
  <2> HIDE DEF u
  <2> QED BY <1>1, AppFacts DEF AppType
<1> HIDE DEF u
<1>4. /\ Page(shell, outbox, worker, inbox) /\ ~shell.terminal /\ inbox \in Seq(Messages)
      /\ Plain(worker, inbox) /\ Posted(shell.pending, app.tail, inbox)
      /\ Done(shell.pending, app.tail, outbox, worker)
      /\ Shows(app.tail, app.phase, app.input, worker, inbox)
      /\ Alone(shell.pending, app.tail)
  BY AppFacts
<1>5. /\ ShellType(Released) /\ Released.terminal = shell.terminal
      /\ Released.pending = StaleEntries(shell.pending) /\ Released.ingress = FALSE
  BY <1>4, ReleasedPage DEF Page, StaleEntries
<1>6. "neutral" \in Callers /\ "neutralize" \in Kinds /\ 0 \in 0..MaxReset
  BY Bounds DEF Callers, Kinds
<1>7. /\ shell'.pending = Released.pending \cup {e} /\ shell'.terminal = Released.terminal
      /\ shell'.ingress = Released.ingress /\ inbox' = Append(inbox, q)
  BY <1>1, <1>5, <1>6, Posting
<1>a. e.id = Released.next /\ e.for = "neutral"
  <2>1. e = Sent(Released, "neutral")
    OBVIOUS
  <2> HIDE DEF e
  <2> QED BY <2>1 DEF Sent
<1>b. q \in Messages /\ q.id = Released.next /\ q.op = "neutralize"
  BY <1>5, <1>6, PostedRequest
<1> HIDE DEF e, q
<1>8. Apart(shell'.pending, outbox, Append(inbox, q))
  BY <1>1, <1>4, <1>5, <1>7, NextFacts
<1>9. \A r \in shell'.pending :
         r.for = "neutral" \/ \E p \in shell.pending : p.id = r.id /\ p.for = r.for
  <2> SUFFICES ASSUME NEW r \in StaleEntries(shell.pending)
               PROVE  \E p \in shell.pending : p.id = r.id /\ p.for = r.for
    BY <1>5, <1>7, <1>a
  <2>1. PICK p \in shell.pending : r = [p EXCEPT !.fresh = FALSE]
    BY DEF StaleEntries
  <2>2. p \in Entries
    BY AppFacts
  <2>3. r.id = p.id /\ r.for = p.for
    BY <2>1, <2>2 DEF Entries
  <2> QED BY <2>3
<1>10. Posted(shell.pending, u, inbox) /\ Done(shell.pending, u, outbox, worker)
  BY <1>2, <1>4, HeadKept
<1>11. /\ Plain(worker, inbox') /\ Posted(shell'.pending, u, inbox')
       /\ Done(shell'.pending, u, outbox, worker)
       /\ NoInput(inbox') <=> NoInput(inbox)
  <2>1. e \in shell'.pending
    BY <1>7
  <2> QED BY <2>1, <1>4, <1>7, <1>a, <1>b, <1>8, <1>9, <1>10, PostRelease
<1>12. Shows(u, app.phase, FALSE, worker, inbox')
  BY <1>2, <1>4, <1>11 DEF Shows
<1> QED BY <1>1, <1>2, <1>3, <1>5, <1>7, <1>11, <1>12 DEF After, Machine

\* resume and submitInput.
LEMMA JoinApp ==
  ASSUME Before, NEW name \in {"resume", "input"},
         \/ name = "resume" /\ app.phase = "PAUSED" /\ ~HasResume
         \/ name = "input" /\ app.input,
         app' = [app EXCEPT !.tail = Append(@, Op(name))],
         UNCHANGED <<wvars, shell>>
  PROVE  After
<1> DEFINE u == Append(app.tail, Op(name))
<1>1. /\ app.tail \in Seq(Operations) /\ Alone(shell.pending, app.tail)
      /\ Plain(worker, inbox) /\ Posted(shell.pending, app.tail, inbox)
      /\ Done(shell.pending, app.tail, outbox, worker)
      /\ Queue(app.tail, app.phase, app.input, shell.ingress)
      /\ Shows(app.tail, app.phase, app.input, worker, inbox)
  BY AppFacts
<1>2. name = "resume" => \A i \in 1..Len(app.tail) : app.tail[i].op # "resume"
  BY <1>1 DEF HasResume, Queue
<1>3. app' = [app EXCEPT !.tail = u] /\ u = Append(app.tail, Op(name))
  OBVIOUS
<1> HIDE DEF u
<1>4. app'.tail = u /\ app'.phase = app.phase /\ app'.input = app.input
  BY <1>3, AppFacts DEF AppType
<1>5. Queue(u, app.phase, app.input, shell.ingress) /\ Extended(app.tail, u)
  <2>1. Joins(name, app.tail, app.phase, app.input)
    BY <1>2 DEF Joins
  <2>2. app.tail \in Seq(Operations) /\ Queue(app.tail, app.phase, app.input, shell.ingress)
    BY <1>1
  <2> QED BY <2>1, <2>2, <1>3, QueueJoin
<1>6. Posted(shell.pending, u, inbox) /\ Done(shell.pending, u, outbox, worker)
  BY <1>1, <1>5, HeadKept DEF Extended
<1>7. Shows(u, app.phase, app.input, worker, inbox)
  BY <1>1, <1>5 DEF Shows, Extended
<1> QED BY <1>1, <1>4, <1>5, <1>6, <1>7 DEF After, Machine, wvars

-----------------------------------------------------------------------------
\* The first operation

LEMMA QueueDrop ==
  ASSUME NEW t \in Seq(Operations), t # <<>>, ~Starting(t),
         \A i \in 2..Len(t) : t[i].pc = "queued",
         NEW ph \in {"PAUSED", "RUNNING"}, NEW input, NEW ing, Queue(t, ph, input, ing),
         NEW ph2 \in {"PAUSED", "RUNNING"}, ph2 = ph \/ (ph2 = "PAUSED" /\ ~input)
  PROVE  Queue(Tail(t), ph2, input, ing)
<1> DEFINE u == Tail(t)
<1>1. /\ u \in Seq(Operations) /\ Len(u) = Len(t) - 1 /\ Len(t) \in Nat \ {0}
      /\ \A i \in 1..Len(u) : i + 1 \in 1..Len(t) /\ u[i] = t[i + 1]
  BY SeqEnds
<1>2. ~Starting(u)
  <2> SUFFICES ASSUME u # <<>> PROVE Head(u).pc = "queued"
    BY DEF Starting, HeadAt
  <2>1. 1 \in 1..Len(u) /\ Head(u) = u[1]
    BY <1>1, SeqEnds
  <2>2. 1 + 1 \in 2..Len(t) /\ u[1] = t[1 + 1]
    BY <1>1, <2>1
  <2> HIDE DEF u
  <2> QED BY <2>1, <2>2
<1> HIDE DEF u
<1>3. FreshPause(u) => FreshPause(t)
  BY <1>1 DEF FreshPause
<1>4. ASSUME NEW i \in 1..Len(u)
      PROVE  /\ u[i].op = "resume" /\ u[i].fresh => i = Len(u) /\ ph2 = "PAUSED"
             /\ u[i].op = "input" /\ u[i].fresh => input
             /\ ~u[i].fresh =>
                  \E j \in 1..Len(u) : i < j /\ u[j].op = "pause" /\ u[j].fresh
  <2>1. i + 1 \in 1..Len(t) /\ u[i] = t[i + 1]
    BY <1>1
  <2>2. ASSUME u[i].op = "resume", u[i].fresh PROVE i = Len(u) /\ ph2 = "PAUSED"
    <3>1. i + 1 = Len(t) /\ ph = "PAUSED"
      BY <2>1, <2>2 DEF Queue
    <3> QED BY <3>1, <1>1
  <2>3. u[i].op = "input" /\ u[i].fresh => input
    BY <2>1 DEF Queue
  <2>4. ASSUME ~u[i].fresh
        PROVE  \E j \in 1..Len(u) : i < j /\ u[j].op = "pause" /\ u[j].fresh
    <3>1. PICK k \in 1..Len(t) : i + 1 < k /\ t[k].op = "pause" /\ t[k].fresh
      BY <2>1, <2>4 DEF Queue
    <3>2. k - 1 \in 1..Len(u) /\ i < k - 1 /\ (k - 1) + 1 = k
      BY <3>1, <1>1
    <3>3. u[k - 1] = t[k]
      BY <3>2, <1>1
    <3> QED BY <3>1, <3>2, <3>3
  <2> QED BY <2>2, <2>3, <2>4
<1>5. ASSUME input
      PROVE  ph2 = "RUNNING" /\ ing /\ \A i \in 1..Len(u) : u[i].op = "input"
  BY <1>1, <1>5 DEF Queue
<1>6. ing => input
  BY DEF Queue
<1>7. FreshPause(t) => ~ing /\ ~input
  BY DEF Queue
<1>8. Queue(u, ph2, input, ing)
  BY <1>2, <1>3, <1>4, <1>5, <1>6, <1>7 DEF Queue
<1> QED BY <1>8 DEF u

\* A resume that has restored ingress is alone.
LEMMA FreshResume ==
  ASSUME NEW t \in Seq(Operations), t # <<>>, NEW ph \in {"PAUSED", "RUNNING"},
         NEW input, NEW ing,
         Queue(t, ph, input, ing), Head(t).op = "resume", Head(t).fresh
  PROVE  /\ Len(t) = 1 /\ Tail(t) = <<>> /\ ph = "PAUSED"
         /\ ~FreshPause(t) /\ ~input
<1>1. 1 \in 1..Len(t) /\ Head(t) = t[1] /\ Tail(t) \in Seq(Operations)
      /\ Len(Tail(t)) = Len(t) - 1
  BY SeqEnds
<1>2. Len(t) = 1 /\ ph = "PAUSED"
  <2>1. t[1].op = "resume" /\ t[1].fresh => 1 = Len(t) /\ ph = "PAUSED"
    BY <1>1 DEF Queue
  <2> QED BY <2>1, <1>1
<1>3. Tail(t) = <<>>
  BY <1>1, <1>2, EmptySeq
<1>4. ~FreshPause(t)
  BY <1>1, <1>2 DEF FreshPause
<1>5. ~input
  BY <1>1 DEF Queue
<1> QED BY <1>2, <1>3, <1>4, <1>5

LEMMA QueueStarted == Queue(<<>>, "RUNNING", TRUE, TRUE)
BY DEF Queue, Starting, HeadAt, FreshPause

\* The first operation moves on: all but its pc is as it was.
Moved(t, u, pc) ==
  /\ u \in Seq(Operations) /\ u # <<>> /\ Len(u) = Len(t)
  /\ Head(u).pc = pc /\ Head(u).op = Head(t).op /\ (Head(u).fresh <=> Head(t).fresh)
  /\ \A i \in 1..Len(t) : u[i].op = t[i].op /\ (u[i].fresh <=> t[i].fresh)

LEMMA MoveHead ==
  ASSUME NEW t \in Seq(Operations), t # <<>>, NEW pc \in {"restore", "lower"},
         NEW u, u = <<[Head(t) EXCEPT !.pc = pc]>> \o Tail(t)
  PROVE  Moved(t, u, pc)
<1> DEFINE h == [Head(t) EXCEPT !.pc = pc]
<1>1. /\ Tail(t) \in Seq(Operations) /\ Head(t) \in Operations /\ Head(t) = t[1]
      /\ Len(Tail(t)) = Len(t) - 1 /\ Len(t) \in Nat \ {0}
      /\ \A i \in 1..Len(Tail(t)) : Tail(t)[i] = t[i + 1]
  BY SeqEnds
<1>2. h \in Operations /\ h.pc = pc /\ h.op = Head(t).op /\ (h.fresh <=> Head(t).fresh)
  BY <1>1 DEF Operations
<1> HIDE DEF h
<1>3. <<h>> \in Seq(Operations) /\ Len(<<h>>) = 1 /\ <<h>>[1] = h
  BY <1>2
<1>4. /\ u \in Seq(Operations) /\ Len(u) = 1 + Len(Tail(t))
      /\ \A i \in 1..Len(u) :
           u[i] = IF i <= 1 THEN <<h>>[i] ELSE Tail(t)[i - 1]
  <2>1. u = <<h>> \o Tail(t)
    BY DEF h
  <2> DEFINE r == Tail(t)
             one == <<h>>
  <2>2. r \in Seq(Operations) /\ one \in Seq(Operations) /\ Len(one) = 1
    BY <1>1, <1>3
  <2>3. u = one \o r
    BY <2>1
  <2> HIDE DEF r, one
  <2>4. /\ u \in Seq(Operations) /\ Len(u) = Len(one) + Len(r)
        /\ \A i \in 1..Len(u) :
             u[i] = IF i <= Len(one) THEN one[i] ELSE r[i - Len(one)]
    <3> DEFINE v == one \o r
    <3>1. /\ v \in Seq(Operations) /\ Len(v) = Len(one) + Len(r)
          /\ \A i \in 1..Len(one) + Len(r) :
               v[i] = IF i <= Len(one) THEN one[i] ELSE r[i - Len(one)]
      BY <2>2, ConcatProperties
    <3>2. u = v
      BY <2>3
    <3> HIDE DEF v
    <3> QED BY <3>1, <3>2
  <2>5. /\ u \in Seq(Operations) /\ Len(u) = 1 + Len(r)
        /\ \A i \in 1..Len(u) : u[i] = IF i <= 1 THEN one[i] ELSE r[i - 1]
    BY <2>2, <2>4
  <2> QED BY <2>5 DEF r, one
<1>5. Len(u) = Len(t) /\ u # <<>> /\ u \in Seq(Operations)
  BY <1>1, <1>4
<1>6. Head(u) = h /\ u[1] = h
  <2>1. Head(u) = u[1] /\ 1 \in 1..Len(u)
    BY <1>5, SeqEnds
  <2> QED BY <2>1, <1>3, <1>4
<1>7. ASSUME NEW i \in 1..Len(t)
      PROVE  u[i].op = t[i].op /\ (u[i].fresh <=> t[i].fresh)
  <2>1. CASE i = 1
    BY <2>1, <1>1, <1>2, <1>6
  <2>2. CASE i # 1
    <3>1. /\ i \in 1..Len(u) /\ ~(i <= 1) /\ i - 1 \in 1..Len(Tail(t))
          /\ (i - 1) + 1 = i
      BY <2>2, <1>1, <1>5
    <3>2. u[i] = t[i]
      BY <3>1, <1>1, <1>4
    <3> QED BY <3>2
  <2> QED BY <2>1, <2>2
<1> QED BY <1>2, <1>5, <1>6, <1>7 DEF Moved

LEMMA QueueMove ==
  ASSUME NEW t \in Seq(Operations), NEW u, NEW pc, Moved(t, u, pc),
         NEW ph, NEW input, NEW ing, Queue(t, ph, input, ing),
         NEW ing2, Starting(u) => ing2, ing2 => input \/ Starting(u),
         FreshPause(t) => ~ing2, input => ing2
  PROVE  Queue(u, ph, input, ing2) /\ (FreshPause(t) <=> FreshPause(u))
<1>1. /\ Len(u) = Len(t)
      /\ \A i \in 1..Len(t) : u[i].op = t[i].op /\ (u[i].fresh <=> t[i].fresh)
  BY DEF Moved
<1>2. FreshPause(t) <=> FreshPause(u)
  BY <1>1 DEF FreshPause
<1>3. ASSUME NEW i \in 1..Len(u)
      PROVE  /\ u[i].op = "resume" /\ u[i].fresh => i = Len(u) /\ ph = "PAUSED"
             /\ u[i].op = "input" /\ u[i].fresh => input
             /\ ~u[i].fresh =>
                  \E j \in 1..Len(u) : i < j /\ u[j].op = "pause" /\ u[j].fresh
  <2>1. i \in 1..Len(t) /\ u[i].op = t[i].op /\ (u[i].fresh <=> t[i].fresh)
    BY <1>1
  <2>2. ASSUME ~u[i].fresh
        PROVE  \E j \in 1..Len(u) : i < j /\ u[j].op = "pause" /\ u[j].fresh
    <3>1. PICK j \in 1..Len(t) : i < j /\ t[j].op = "pause" /\ t[j].fresh
      BY <2>1, <2>2 DEF Queue
    <3> QED BY <3>1, <1>1
  <2> QED BY <2>1, <2>2, <1>1 DEF Queue
<1>4. input => ph = "RUNNING" /\ \A i \in 1..Len(u) : u[i].op = "input"
  BY <1>1 DEF Queue
<1>5. FreshPause(u) => ~ing2 /\ ~input
  BY <1>2 DEF Queue
<1>6. Queue(u, ph, input, ing2)
  BY <1>3, <1>4, <1>5 DEF Queue
<1> QED BY <1>2, <1>6

LEMMA Closes ==
  ASSUME ShellType(shell), NEW ph, NEW reason, Close(ph, reason)
  PROVE  shell'.terminal
<1>1. shell' = [shell EXCEPT !.terminal = TRUE, !.failed = TRUE, !.ingress = FALSE,
                             !.neutral = FALSE, !.pending = Rejected]
  BY DEF Close
<1> QED BY <1>1 DEF ShellType

\* With nothing but releases under way any first operation will do.
LEMMA AtRest ==
  ASSUME NEW P, \A p \in P : p.for = "neutral",
         NEW in, \A i \in 1..Len(in) : in[i].op = "neutralize",
         NEW u, NEW out, NEW w
  PROVE  Posted(P, u, in) /\ Done(P, u, out, w)
BY DEF Posted, Done

LEMMA OnlyReleases ==
  ASSUME Before, Head(app.tail).pc = "queued"
  PROVE  /\ \A p \in shell.pending : p.for = "neutral"
         /\ \A i \in 1..Len(inbox) : inbox[i].op = "neutralize"
<1>1. /\ shell.pending \subseteq Entries /\ Alone(shell.pending, app.tail)
      /\ Posted(shell.pending, app.tail, inbox)
  BY AppFacts
<1>2. \A p \in shell.pending : p.for = "neutral"
  BY <1>1, Begun
<1>3. \A i \in 1..Len(inbox) : inbox[i].op = "neutralize"
  BY <1>1 DEF Posted, Carries
<1> QED BY <1>2, <1>3

\* The first operation is done with, the rest of the FIFO is left.
LEMMA DropApp ==
  ASSUME Before, app.tail # <<>>, ~Starting(app.tail),
         \A p \in shell'.pending : p.for = "neutral",
         \A i \in 1..Len(inbox) : inbox[i].op = "neutralize",
         shell'.ingress = shell.ingress, UNCHANGED <<worker, inbox>>,
         app'.tail = Tail(app.tail), app'.input = app.input,
         app'.phase = app.phase \/ (app'.phase = "PAUSED" /\ ~app.input),
         Shows(Tail(app.tail), app'.phase, app.input, worker, inbox)
  PROVE  After
<1>1. /\ app.tail \in Seq(Operations) /\ app.phase \in {"PAUSED", "RUNNING"}
      /\ Queue(app.tail, app.phase, app.input, shell.ingress)
      /\ \A i \in 2..Len(app.tail) : app.tail[i].pc = "queued"
      /\ Plain(worker, inbox)
  BY AppFacts DEF Alone
<1>2. Queue(Tail(app.tail), app'.phase, app.input, shell.ingress)
  <2>1. app'.phase \in {"PAUSED", "RUNNING"}
    BY <1>1
  <2> QED BY <1>1, <2>1, QueueDrop
<1>3. /\ Posted(shell'.pending, app'.tail, inbox)
      /\ Done(shell'.pending, app'.tail, outbox', worker)
  BY AtRest
<1> QED BY <1>1, <1>2, <1>3 DEF After, Machine

\* It posts its request, of a shell sh that waits for releases only.
LEMMA MoveApp ==
  ASSUME Before, ~shell'.terminal, app.tail # <<>>,
         \A i \in 1..Len(inbox) : inbox[i].op = "neutralize",
         NEW sh, ShellType(sh), \A p \in sh.pending : p.for = "neutral",
         NEW for \in {"public", "restore"},
         NEW op \in {"display", "start", "pause", "input"}, Post(sh, for, op, 0),
         NEW pc \in {"restore", "lower"}, At(pc), UNCHANGED worker,
         Carries(op, [Head(app.tail) EXCEPT !.pc = pc]),
         NEW u, u = <<[Head(app.tail) EXCEPT !.pc = pc]>> \o Tail(app.tail),
         Queue(u, app.phase, app.input, sh.ingress),
         Shows(u, app.phase, app.input, worker, inbox),
         op = "input" => app.phase = "RUNNING"
  PROVE  After
<1> DEFINE q == Request(sh.next, op, 0)
           e == Sent(sh, for)
<1>1. /\ app.tail \in Seq(Operations) /\ Plain(worker, inbox)
      /\ inbox \in Seq(Messages) /\ AppType(app)
  BY AppFacts
<1>2. Moved(app.tail, u, pc)
  BY <1>1, MoveHead
<1>3. app'.tail = u /\ app'.phase = app.phase /\ app'.input = app.input
  <2>1. app' = [app EXCEPT !.tail = u]
    BY DEF At
  <2> QED BY <2>1, <1>1 DEF AppType
<1>4. for \in Callers /\ op \in Kinds /\ 0 \in 0..MaxReset
  BY Bounds DEF Callers, Kinds, PublicOps
<1>5. /\ shell'.pending = sh.pending \cup {e} /\ shell'.ingress = sh.ingress
      /\ inbox' = Append(inbox, q)
  BY <1>4, Posting
<1>6. e.id = sh.next
  <2>1. e = Sent(sh, for)
    OBVIOUS
  <2> HIDE DEF e
  <2> QED BY <2>1 DEF Sent
<1>7. q \in Messages /\ q.id = sh.next /\ q.op = op
  BY <1>4, PostedRequest
<1> HIDE DEF e, q
<1>8. Apart(shell'.pending, outbox', Append(inbox, q))
  BY <1>5, NextFacts
<1>9. Carries(q.op, Head(u))
  <2>1. [Head(app.tail) EXCEPT !.pc = pc].op = Head(u).op
        /\ [Head(app.tail) EXCEPT !.pc = pc].pc = Head(u).pc
    <3>1. Head(app.tail) \in Operations
      BY <1>1, SeqEnds
    <3> QED BY <3>1, <1>2 DEF Moved, Operations
  <2> QED BY <2>1, <1>7 DEF Carries
<1>10. /\ Plain(worker, inbox') /\ Posted(shell'.pending, u, inbox')
       /\ Done(shell'.pending, u, outbox', worker)
       /\ op # "input" => NoInput(inbox')
  <2>1. e \in shell'.pending /\ u # <<>>
    BY <1>2, <1>5 DEF Moved
  <2>2. \A r \in shell'.pending : r # e => r.for = "neutral"
    BY <1>5
  <2> DEFINE Q == shell'.pending
             out == outbox'
  <2>3. Apart(Q, out, Append(inbox, q)) /\ e \in Q /\ \A r \in Q : r # e => r.for = "neutral"
    BY <2>1, <2>2, <1>8
  <2> HIDE DEF Q, out
  <2>4. /\ Plain(worker, Append(inbox, q))
        /\ Posted(Q, u, Append(inbox, q)) /\ Done(Q, u, out, worker)
    <3>1. /\ u # <<>> /\ q \in Messages /\ q.op \in {"display", "start", "pause", "input"}
          /\ e.id = q.id /\ inbox \in Seq(Messages) /\ Plain(worker, inbox)
      BY <2>1, <1>1, <1>6, <1>7
    <3> QED BY <3>1, <2>3, <1>9, PostCarried
  <2>5. op # "input" => NoInput(Append(inbox, q))
    BY <1>1, <1>7, MoreNoInput
  <2> QED BY <2>4, <2>5, <1>5 DEF Q, out
<1>11. Shows(u, app.phase, app.input, worker, inbox')
  BY <1>10 DEF Shows
<1> QED BY <1>3, <1>5, <1>10, <1>11 DEF After, Machine

LEMMA BeginApp ==
  ASSUME Before, Begin, ~shell'.terminal
  PROVE  After
<1> DEFINE t == app.tail
           head == Head(t)
<1>1. t # <<>> /\ head.pc = "queued"
  BY DEF Begin
<1>2. /\ t \in Seq(Operations) /\ app.phase \in {"PAUSED", "RUNNING"}
      /\ Queue(t, app.phase, app.input, shell.ingress)
      /\ Shows(t, app.phase, app.input, worker, inbox)
      /\ AppType(app) /\ ShellType(shell) /\ SInv
  BY AppFacts DEF Before
<1>3. /\ \A p \in shell.pending : p.for = "neutral"
      /\ \A i \in 1..Len(inbox) : inbox[i].op = "neutralize"
  BY <1>1, OnlyReleases
<1>4. ~Lose
  BY <1>2, Closes DEF Lose
<1>5. head \in Operations /\ head = t[1] /\ 1 \in 1..Len(t)
  BY <1>1, <1>2, SeqEnds
<1>6. ~Starting(t)
  BY <1>1 DEF Starting, HeadAt
<1>7. \/ ~head.fresh /\ app' = Dropped /\ UNCHANGED <<wvars, shell>>
      \/ /\ head.fresh /\ UNCHANGED worker
         /\ \/ /\ head.op = "resume"
               /\ Post(shell, "restore", "display", 0) /\ At("restore")
            \/ /\ head.op # "resume"
               /\ Post(shell, "public", head.op, 0) /\ At("lower")
  <2> HIDE DEF head
  <2> QED BY <1>4 DEF Begin, Skipped, head
<1>8. CASE ~head.fresh /\ app' = Dropped /\ UNCHANGED <<wvars, shell>>
  <2>1. app'.tail = Tail(t) /\ app'.phase = app.phase /\ app'.input = app.input
    BY <1>2, <1>8 DEF Dropped, AppType
  <2>2. FreshPause(Tail(t))
    BY <1>1, <1>2, <1>8, StaleHead
  <2>3. Shows(Tail(t), app'.phase, app.input, worker, inbox)
    BY <2>1, <2>2, <1>2 DEF Shows
  <2>4. UNCHANGED <<worker, inbox>> /\ shell' = shell
    BY <1>8 DEF wvars
  <2> QED BY <2>1, <2>3, <2>4, <1>1, <1>3, <1>6, DropApp
<1>9. ASSUME head.fresh, UNCHANGED worker,
             NEW for \in {"public", "restore"},
             NEW op \in {"display", "pause", "input"}, NEW pc \in {"restore", "lower"},
             Post(shell, for, op, 0), At(pc),
             \/ op = "display" /\ pc = "restore" /\ head.op = "resume"
             \/ op # "display" /\ pc = "lower" /\ head.op = op
      PROVE  After
  <2> DEFINE h == [Head(t) EXCEPT !.pc = pc]
             u == <<h>> \o Tail(t)
  <2>1. h.op = head.op /\ h.pc = pc
    BY <1>5 DEF Operations
  <2>2. Carries(op, h)
    <3> HIDE DEF h
    <3> QED BY <2>1, <1>9 DEF Carries
  <2> HIDE DEF u
  <2>3. Moved(t, u, pc)
    <3>1. u = <<[Head(t) EXCEPT !.pc = pc]>> \o Tail(t)
      BY DEF u
    <3> QED BY <3>1, <1>1, <1>2, MoveHead
  <2>4. ~Starting(u)
    BY <2>3, <1>9 DEF Starting, HeadAt, Moved
  <2>5. /\ FreshPause(t) => ~shell.ingress
        /\ app.input => shell.ingress
        /\ shell.ingress => app.input
        /\ head.op = "input" => app.input
        /\ app.input => app.phase = "RUNNING"
    BY <1>2, <1>5, <1>6, <1>9 DEF Queue
  <2>6. Queue(u, app.phase, app.input, shell.ingress) /\ (FreshPause(t) <=> FreshPause(u))
    <3>1. FreshPause(t) <=> FreshPause(u)
      BY <2>3 DEF Moved, FreshPause
    <3>2. Queue(u, app.phase, app.input, shell.ingress)
      BY <2>3, <2>4, <2>5, <1>2, QueueMove
    <3> QED BY <3>1, <3>2
  <2>7. Shows(u, app.phase, app.input, worker, inbox)
    BY <2>6, <1>2, <1>6 DEF Shows
  <2>8. op = "input" => app.phase = "RUNNING"
    BY <2>5, <1>9
  <2>9. u = <<[Head(app.tail) EXCEPT !.pc = pc]>> \o Tail(app.tail)
        /\ Carries(op, [Head(app.tail) EXCEPT !.pc = pc])
    BY <2>2 DEF u
  <2> QED BY <2>6, <2>7, <2>8, <2>9, <1>1, <1>2, <1>3, <1>9, MoveApp
<1> HIDE DEF head
<1>10. CASE head.fresh /\ UNCHANGED worker /\ head.op = "resume"
            /\ Post(shell, "restore", "display", 0) /\ At("restore")
  BY <1>9, <1>10
<1>11. CASE head.fresh /\ UNCHANGED worker /\ head.op # "resume"
            /\ Post(shell, "public", head.op, 0) /\ At("lower")
  <2>1. head.op \in {"pause", "input"}
    BY <1>5, <1>11 DEF Operations
  <2> QED BY <2>1, <1>9, <1>11
<1> QED BY <1>7, <1>8, <1>10, <1>11

\* restoreInputIngress has settled, and the machine is started.
LEMMA ReceiveRestoreApp ==
  ASSUME Before, ReceiveRestore, ~shell'.terminal
  PROVE  After
<1> DEFINE t == app.tail
           h == [Head(t) EXCEPT !.pc = "lower"]
           u == <<h>> \o Tail(t)
<1>1. /\ t \in Seq(Operations) /\ app.phase \in {"PAUSED", "RUNNING"}
      /\ Queue(t, app.phase, app.input, shell.ingress)
      /\ Shows(t, app.phase, app.input, worker, inbox)
      /\ Alone(shell.pending, t) /\ ShellType(shell) /\ env.client = "app"
  BY AppFacts DEF Before
<1>2. ~Lose
  BY <1>1, Closes DEF Lose
<1>3. PICK p \in shell.pending :
        /\ Settles(p, "restore") /\ p.fresh
        /\ Post([Without(p) EXCEPT !.ingress = TRUE], "public", "start", 0)
        /\ At("lower") /\ UNCHANGED worker
  BY <1>1, <1>2 DEF ReceiveRestore, Taken
<1> DEFINE v == Without(p)
           sh == [v EXCEPT !.ingress = TRUE]
<1>4. /\ \A i \in 1..Len(inbox) : inbox[i].op = "neutralize"
      /\ \A q \in shell.pending \ {p} : q.for = "neutral"
      /\ v.pending = shell.pending \ {p} /\ ShellType(v) /\ p.for = "restore"
  BY <1>3, SettledApp
<1>5. Post(sh, "public", "start", 0)
  BY <1>3
<1> HIDE DEF v
<1>6. ShellType(sh) /\ sh.pending = shell.pending \ {p} /\ sh.ingress = TRUE
  BY <1>4 DEF ShellType
<1> HIDE DEF sh
<1>7. t # <<>> /\ Head(t).pc = "restore" /\ Head(t).op = "resume" /\ Head(t).fresh
  BY <1>1, <1>3, <1>4 DEF Alone, HeadAt
<1>8. app.phase = "PAUSED" /\ ~FreshPause(t) /\ ~app.input
  BY <1>1, <1>7, FreshResume
<1>9. Head(t) \in Operations
  BY <1>1, <1>7, SeqEnds
<1>10. h.op = "resume" /\ h.pc = "lower"
  BY <1>7, <1>9 DEF Operations
<1>11. u = <<[Head(app.tail) EXCEPT !.pc = "lower"]>> \o Tail(app.tail)
       /\ h = [Head(app.tail) EXCEPT !.pc = "lower"]
  OBVIOUS
<1> HIDE DEF u, h
<1>12. Carries("start", [Head(app.tail) EXCEPT !.pc = "lower"])
  BY <1>10, <1>11 DEF Carries
<1>13. Moved(t, u, "lower")
  BY <1>1, <1>7, <1>11, MoveHead
<1>14. Starting(u)
  BY <1>7, <1>13 DEF Moved, Starting, HeadAt
<1>15. Queue(u, app.phase, app.input, sh.ingress)
  BY <1>1, <1>6, <1>8, <1>13, <1>14, QueueMove
<1>16. Shows(u, app.phase, app.input, worker, inbox)
  BY <1>1, <1>8, <1>14 DEF Shows
<1> QED BY <1>3, <1>4, <1>5, <1>6, <1>7, <1>11, <1>12, <1>15, <1>16, MoveApp

\* What Finished() makes of the application.
LEMMA FinishedApp ==
  ASSUME AppType(app), NEW head, app' = Finished(head)
  PROVE  /\ app'.tail = Tail(app.tail)
         /\ head.fresh /\ head.op = "resume" =>
              app'.phase = "RUNNING" /\ app'.input = TRUE
         /\ head.fresh /\ head.op = "pause" /\ shell.neutral =>
              app'.phase = "PAUSED" /\ app'.input = app.input
         /\ ~head.fresh \/ (head.op = "pause" /\ ~shell.neutral) \/ head.op = "input" =>
              app'.phase = app.phase /\ app'.input = app.input
<1> DEFINE d == Dropped
<1>1. /\ d.tail = Tail(app.tail) /\ d.phase = app.phase /\ d.input = app.input
      /\ [d EXCEPT !.phase = "RUNNING", !.input = TRUE].tail = Tail(app.tail)
      /\ [d EXCEPT !.phase = "RUNNING", !.input = TRUE].phase = "RUNNING"
      /\ [d EXCEPT !.phase = "RUNNING", !.input = TRUE].input = TRUE
      /\ [d EXCEPT !.phase = "PAUSED"].tail = Tail(app.tail)
      /\ [d EXCEPT !.phase = "PAUSED"].phase = "PAUSED"
      /\ [d EXCEPT !.phase = "PAUSED"].input = app.input
  BY DEF Dropped, AppType
<1>2. app' = IF head.fresh THEN Answered(head) ELSE d
  BY DEF Finished
<1>3. Answered(head) = CASE head.op = "resume" -> [d EXCEPT !.phase = "RUNNING", !.input = TRUE]
                         [] head.op = "pause" /\ shell.neutral -> [d EXCEPT !.phase = "PAUSED"]
                         [] OTHER -> d
  BY DEF Answered
<1> HIDE DEF d
<1>4. CASE ~head.fresh
  BY <1>1, <1>2, <1>4
<1>5. CASE head.fresh /\ head.op = "resume"
  BY <1>1, <1>2, <1>3, <1>5
<1>6. CASE head.fresh /\ head.op = "pause" /\ shell.neutral
  BY <1>1, <1>2, <1>3, <1>6
<1>7. CASE head.fresh /\ head.op # "resume" /\ ~(head.op = "pause" /\ shell.neutral)
  BY <1>1, <1>2, <1>3, <1>7
<1> QED BY <1>4, <1>5, <1>6, <1>7

LEMMA ReceivePublicApp ==
  ASSUME Before, ReceivePublic, ~shell'.terminal
  PROVE  After
<1> DEFINE t == app.tail
           head == Head(t)
<1>1. /\ t \in Seq(Operations) /\ app.phase \in {"PAUSED", "RUNNING"}
      /\ Queue(t, app.phase, app.input, shell.ingress)
      /\ Shows(t, app.phase, app.input, worker, inbox)
      /\ Done(shell.pending, t, outbox, worker) /\ Plain(worker, inbox)
      /\ Releases(shell, outbox, worker, inbox)
      /\ Alone(shell.pending, t) /\ ShellType(shell) /\ env.client = "app" /\ AppType(app)
  BY AppFacts DEF Before
<1>2. ~Lose
  BY <1>1, Closes DEF Lose
<1>3. PICK p \in shell.pending :
        /\ Settles(p, "public")
        /\ ~head.fresh \/ Head(outbox).status = "OK"
        /\ shell' = Without(p) /\ app' = Finished(head)
        /\ UNCHANGED <<worker, inbox>>
  BY <1>1, <1>2 DEF ReceivePublic, Taken
<1>4. /\ \A i \in 1..Len(inbox) : inbox[i].op = "neutralize"
      /\ \A q \in shell'.pending : q.for = "neutral"
      /\ shell'.ingress = shell.ingress /\ p.for = "public"
      /\ p.id = outbox[1].id /\ 1 \in 1..Len(outbox) /\ Head(outbox) = outbox[1]
  <2>1. p.for = "public"
    BY <1>3 DEF Settles
  <2> DEFINE v == Without(p)
  <2>2. /\ \A i \in 1..Len(inbox) : inbox[i].op = "neutralize"
        /\ \A q \in shell.pending \ {p} : q.for = "neutral"
        /\ v.ingress = shell.ingress /\ v.pending = shell.pending \ {p}
        /\ p.id = outbox[1].id /\ 1 \in 1..Len(outbox) /\ Head(outbox) = outbox[1]
    BY <1>3, SettledApp
  <2>3. shell' = v
    BY <1>3
  <2> HIDE DEF v
  <2> QED BY <2>1, <2>2, <2>3
<1>5. t # <<>> /\ head.pc = "lower"
  BY <1>1, <1>4 DEF Alone, HeadAt
<1>6. head \in Operations /\ head = t[1] /\ 1 \in 1..Len(t)
  BY <1>1, <1>5, SeqEnds
<1>7. head.fresh => /\ head.op = "resume" => worker.life = "RUNNING"
                    /\ head.op = "pause" => worker.life = "PAUSED"
  BY <1>1, <1>3, <1>4 DEF Done
<1>8. /\ app'.tail = Tail(app.tail)
      /\ head.fresh /\ head.op = "resume" =>
           app'.phase = "RUNNING" /\ app'.input = TRUE
      /\ head.fresh /\ head.op = "pause" /\ shell.neutral =>
           app'.phase = "PAUSED" /\ app'.input = app.input
      /\ ~head.fresh \/ (head.op = "pause" /\ ~shell.neutral) \/ head.op = "input" =>
           app'.phase = app.phase /\ app'.input = app.input
  BY <1>1, <1>3, FinishedApp
<1> HIDE DEF head
<1>9. CASE ~head.fresh
  <2>1. ~Starting(t)
    BY <1>9 DEF Starting, head
  <2>2. FreshPause(Tail(t))
    BY <1>1, <1>5, <1>9, StaleHead DEF head
  <2>3. Shows(Tail(t), app'.phase, app.input, worker, inbox)
    BY <2>2, <1>1, <1>8, <1>9 DEF Shows
  <2> QED BY <2>1, <2>3, <1>3, <1>4, <1>5, <1>8, <1>9, DropApp
<1>10. CASE head.fresh /\ head.op = "resume"
  <2>1. Tail(t) = <<>>
    BY <1>1, <1>5, <1>10, FreshResume DEF head
  <2>2. shell.ingress = TRUE
    <3>1. Starting(t)
      BY <1>5, <1>10 DEF Starting, HeadAt, head
    <3> QED BY <3>1, <1>1, AppFacts DEF Queue
  <2>3. app'.tail = <<>> /\ app'.phase = "RUNNING" /\ app'.input = TRUE
    BY <2>1, <1>8, <1>10
  <2>4. Queue(app'.tail, app'.phase, app'.input, shell'.ingress)
    BY <2>2, <2>3, <1>4, QueueStarted
  <2>5. Shows(app'.tail, app'.phase, app'.input, worker, inbox)
    BY <2>3, <1>7, <1>10 DEF Shows
  <2>6. Posted(shell'.pending, app'.tail, inbox) /\ Done(shell'.pending, app'.tail, outbox', worker)
    BY <1>4, AtRest
  <2> QED BY <2>4, <2>5, <2>6, <1>1, <1>3 DEF After, Machine
<1>11. CASE head.fresh /\ head.op = "pause"
  <2>1. ~Starting(t)
    BY <1>11 DEF Starting, head
  <2>2. FreshPause(t)
    BY <1>6, <1>11 DEF FreshPause
  <2>3. ~shell.ingress /\ ~app.input
    BY <2>2, <1>1 DEF Queue
  <2>4. worker.life = "PAUSED"
    BY <1>7, <1>11
  <2>5. shell.neutral => ~worker.held /\ NoInput(inbox)
    BY <2>3, <1>1 DEF Releases
  <2>6. app'.input = app.input
        /\ (app'.phase = app.phase \/ (app'.phase = "PAUSED" /\ shell.neutral))
    BY <1>8, <1>11
  <2>7. Shows(Tail(t), app'.phase, app.input, worker, inbox)
    BY <2>3, <2>4, <2>5, <2>6, <1>1 DEF Shows
  <2> QED BY <2>1, <2>3, <2>6, <2>7, <1>3, <1>4, <1>5, <1>8, DropApp
<1>12. CASE head.fresh /\ head.op = "input"
  <2>1. ~Starting(t)
    BY <1>12 DEF Starting, head
  <2>2. app.input /\ app.phase = "RUNNING"
    BY <1>1, <1>6, <1>12 DEF Queue
  <2>3. app'.phase = app.phase /\ app'.input = app.input
    BY <1>8, <1>12
  <2>4. Shows(Tail(t), app'.phase, app.input, worker, inbox)
    BY <2>2, <2>3, <1>1 DEF Shows
  <2> QED BY <2>1, <2>3, <2>4, <1>3, <1>4, <1>5, <1>8, DropApp
<1>13. head.op \in {"pause", "resume", "input"}
  BY <1>6 DEF Operations
<1> QED BY <1>9, <1>10, <1>11, <1>12, <1>13

-----------------------------------------------------------------------------
\* Every step

LEMMA InitApp == Init => AppInv
<1> SUFFICES ASSUME Init, env.client = "app" PROVE Machine(shell, app, outbox, worker, inbox)
  BY DEF AppInv
<1>1. /\ inbox = <<>> /\ outbox = <<>> /\ worker = Booted
      /\ shell.pending = {} /\ shell.ingress = FALSE
      /\ app.phase = "PAUSED" /\ app.input = FALSE /\ app.tail = <<>>
  BY DEF Init, WorkerInit
<1>2. Plain(worker, inbox)
  BY <1>1 DEF Plain, Booted
<1>3. Posted(shell.pending, app.tail, inbox) /\ Done(shell.pending, app.tail, outbox, worker)
  BY <1>1 DEF Posted, Done
<1>4. Queue(app.tail, app.phase, app.input, shell.ingress)
  BY <1>1 DEF Queue, Starting, HeadAt, FreshPause
<1>5. Shows(app.tail, app.phase, app.input, worker, inbox)
  BY <1>1 DEF Shows, Booted, NoInput
<1> QED BY <1>2, <1>3, <1>4, <1>5 DEF Machine

\* Nothing but these steps is an application's, if it does not end it.
LEMMA AppSteps ==
  ASSUME Before, Next, ~shell'.terminal
  PROVE  \/ Pause \/ Resume \/ SubmitInput \/ Begin
         \/ ReceiveNeutral \/ ReceiveRestore \/ ReceivePublic
         \/ TimeOut \/ WorkerHandles
<1>1. /\ ShellType(shell) /\ Alone(shell.pending, app.tail) /\ bridge = Idle
      /\ env.client = "app"
  BY AppFacts DEF Before
<1>2. /\ ~Stop /\ ~ResumeOutsidePaused /\ ~ReceiveUnknown /\ ~WorkerDies
  BY <1>1, Closes DEF Stop, ResumeOutsidePaused, ReceiveUnknown, WorkerDies, Lose
<1>3. ~Submit /\ ~Release /\ ~Restore
  BY <1>1 DEF Submit, Release, Restore
<1>4. ~ReceiveNext /\ ~ReceiveComplete /\ ~Serve
  BY <1>1 DEF ReceiveNext, ReceiveComplete, Serve, Idle
<1>5. ~WorkerBegins /\ ~WorkerCaptures /\ ~WorkerFinishes
  BY NoSlice
<1> QED BY <1>2, <1>3, <1>4, <1>5 DEF Next

\* The session's client, and what has overtaken what, stay.
LEMMA History ==
  ASSUME [Next]_vars
  PROVE  env' = env /\ (crossed => crossed')
<1>1. CASE UNCHANGED <<env, crossed>>
  BY <1>1
<1>2. CASE Pause
  BY <1>2 DEF Pause
<1>3. CASE WorkerHandles
  <2>1. env' = env /\ crossed' = (crossed \/ (worker'.gen # worker.gen /\ bridge # Idle))
    BY <1>3 DEF WorkerHandles
  <2>2. ASSUME crossed PROVE crossed'
    BY <2>1, <2>2, Zenon
  <2> QED BY <2>1, <2>2
<1>4. CASE UNCHANGED vars
  BY <1>1, <1>4 DEF vars, svars
<1>5. ASSUME NEW ph, NEW reason, Close(ph, reason) PROVE UNCHANGED <<env, crossed>>
  BY <1>5 DEF Close
<1>6. ASSUME Taken PROVE UNCHANGED <<env, crossed>>
  BY <1>6 DEF Taken
<1>7. CASE Submit \/ Release \/ Restore \/ Resume \/ SubmitInput \/ Serve
  BY <1>1, <1>7 DEF Submit, Release, Restore, Resume, SubmitInput, Serve
<1>8. CASE Stop \/ ResumeOutsidePaused \/ Begin \/ TimeOut \/ WorkerDies
  BY <1>1, <1>5, <1>8 DEF Stop, ResumeOutsidePaused, Begin, TimeOut, WorkerDies, Lose
<1>9. CASE ReceiveUnknown \/ ReceiveNeutral
  BY <1>1, <1>5, <1>6, <1>9 DEF ReceiveUnknown, ReceiveNeutral, Lose
<1>10. CASE ReceiveRestore
  BY <1>1, <1>5, <1>6, <1>10 DEF ReceiveRestore, Lose
<1>11. CASE ReceivePublic
  BY <1>1, <1>5, <1>6, <1>11 DEF ReceivePublic, Lose
<1>12. CASE ReceiveNext
  BY <1>1, <1>5, <1>6, <1>12 DEF ReceiveNext, Lose
<1>13. CASE ReceiveComplete
  BY <1>1, <1>5, <1>6, <1>13 DEF ReceiveComplete, Lose
<1>14. CASE WorkerBegins \/ WorkerCaptures \/ WorkerFinishes
  BY <1>1, <1>14 DEF WorkerBegins, WorkerCaptures, WorkerFinishes, svars
<1> QED BY <1>2, <1>3, <1>4, <1>7, <1>8, <1>9, <1>10, <1>11, <1>12, <1>13, <1>14 DEF Next

\* An application's session that has ended stays so.
LEMMA EndedStays ==
  ASSUME SInv, env.client = "app", shell.terminal, [Next]_vars
  PROVE  shell'.terminal /\ app' = app
<1>1. ~Live /\ ~Running
  BY RunningLive DEF Live
<1>2. CASE UNCHANGED vars
  BY <1>2 DEF vars, svars
<1>3. CASE WorkerHandles \/ WorkerBegins \/ WorkerCaptures \/ WorkerFinishes
  BY <1>3 DEF WorkerHandles, WorkerBegins, WorkerCaptures, WorkerFinishes, svars
<1>4. CASE Submit \/ Release \/ Restore \/ Serve \/ TimeOut \/ WorkerDies
  BY <1>1, <1>4 DEF Submit, Release, Restore, Serve, TimeOut, WorkerDies
<1>5. CASE Pause \/ Resume \/ ResumeOutsidePaused \/ SubmitInput \/ Stop \/ Begin
  BY <1>1, <1>5 DEF Pause, Resume, ResumeOutsidePaused, SubmitInput, Stop, Begin
<1>6. CASE \/ ReceiveUnknown \/ ReceiveNeutral \/ ReceiveRestore
           \/ ReceivePublic \/ ReceiveNext \/ ReceiveComplete
  BY <1>1, <1>6 DEF ReceiveUnknown, ReceiveNeutral, ReceiveRestore, ReceivePublic,
       ReceiveNext, ReceiveComplete, Settles
<1> QED BY <1>2, <1>3, <1>4, <1>5, <1>6 DEF Next

LEMMA AppNext == SInv /\ AppInv /\ [Next]_vars => AppInv'
<1> SUFFICES ASSUME SInv, AppInv, [Next]_vars, env'.client = "app", ~shell'.terminal
             PROVE  After
  BY DEF AppInv, After
<1>1. SInv'
  BY NextOK
<1>2. env' = env
  BY History
<1>3. ~shell.terminal
  BY <1>2, EndedStays
<1>4. Before
  BY <1>1, <1>2, <1>3 DEF Before, AppInv
<1>5. CASE UNCHANGED vars
  BY <1>4, <1>5 DEF vars, wvars, svars, Before, After
<1>6. CASE Pause \/ Resume \/ SubmitInput \/ Begin
  <2>1. CASE Resume
    BY <2>1, <1>4, JoinApp DEF Resume
  <2>2. CASE SubmitInput
    BY <2>2, <1>4, JoinApp DEF SubmitInput
  <2> QED BY <2>1, <2>2, <1>4, <1>6, PauseApp, BeginApp
<1>7. CASE ReceiveNeutral \/ ReceiveRestore \/ ReceivePublic \/ TimeOut \/ WorkerHandles
  BY <1>4, <1>7, ReceiveNeutralApp, ReceiveRestoreApp, ReceivePublicApp, TimeOutApp, HandleApp
<1> QED BY <1>4, <1>5, <1>6, <1>7, AppSteps

\* What the application shows of its machine is so: with input enabled the shell
\* admits it and the worker runs; paused with nothing queued, the worker is paused
\* and holds no input.
THEOREM AppKnows == Spec => []AppKnowsWorker
<1>1. SInv /\ AppInv => AppKnowsWorker
  <2> SUFFICES ASSUME SInv, AppInv, Running PROVE
         /\ app.input => shell.ingress /\ worker.life = "RUNNING"
         /\ app.phase = "PAUSED" /\ app.tail = <<>> => worker.life = "PAUSED" /\ ~worker.held
    BY DEF AppKnowsWorker
  <2>1. env.client = "app" /\ ~shell.terminal
    BY RunningLive
  <2>2. /\ Plain(worker, inbox)
        /\ Queue(app.tail, app.phase, app.input, shell.ingress)
        /\ Shows(app.tail, app.phase, app.input, worker, inbox)
    BY <2>1 DEF AppInv, Machine
  <2>3. app.input => shell.ingress /\ worker.life = "RUNNING"
    BY <2>2 DEF Queue, Shows
  <2>4. ASSUME app.phase = "PAUSED", app.tail = <<>>
        PROVE  worker.life = "PAUSED" /\ ~worker.held
    <3>1. ~FreshPause(app.tail) /\ ~Starting(app.tail)
      BY <2>4 DEF FreshPause, Starting, HeadAt
    <3> QED BY <3>1, <2>2, <2>4 DEF Shows, Plain
  <2> QED BY <2>3, <2>4
<1> QED BY <1>1, InitApp, AppNext, Invariance, PTL DEF Spec

=============================================================================
