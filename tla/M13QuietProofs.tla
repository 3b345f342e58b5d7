--------------------------- MODULE M13QuietProofs ---------------------------
(***************************************************************************)
(* Proof that an application of M13Session does not fail by itself: while  *)
(* nothing outside it fails and no fence overtakes a resume's restore, the *)
(* one failure is the one resume() asks for outside PAUSED.  Every other   *)
(* way to fail is a reply the page does not expect or does not like, or an *)
(* operation that is refused when it starts; the invariant excludes both.  *)
(***************************************************************************)
EXTENDS M13AppProofs

-----------------------------------------------------------------------------
\* The invariant of an undisturbed application

\* Every reply is awaited and says OK.
Heard(P, out) ==
  \A i \in 1..Len(out) : out[i].status = "OK" /\ \E p \in P : p.id = out[i].id

\* Every request is awaited, and a start will find the worker paused.
Due(P, in, w) ==
  \A i \in 1..Len(in) : /\ \E p \in P : p.id = in[i].id
                        /\ in[i].op = "start" => w.life = "PAUSED"

\* A shell that is not neutral is being released behind a pause, or open; the
\* pause that was not fenced was the last to post, behind its release.
Level(sh, t) ==
  /\ ~sh.failed
  /\ \A p \in sh.pending : p.for = "restore" => p.fresh
  /\ ~sh.neutral =>
       /\ \E p \in sh.pending : IsRelease(p)
       /\ FreshPause(t) \/ sh.ingress
  /\ \A p \in sh.pending : p.for = "public" /\ Head(t).op = "pause" /\ Head(t).fresh =>
       sh.next = Succ(p.id)

Calm(sh, t, out, w, in) ==
  Heard(sh.pending, out) /\ Due(sh.pending, in, w) /\ Level(sh, t)

Undisturbed == env.client = "app" /\ ~env.faults /\ ~crossed

\* The application has not failed, or by a resume() that came out of place.
Well(ap) == ap.phase = "FAILED" => ap.reason = "resume-outside-paused"

QuietInv ==
  Undisturbed =>
    /\ Well(app)
    /\ ~shell.terminal => Calm(shell, app.tail, outbox, worker, inbox)

CalmBefore ==
  /\ Before /\ ~env.faults /\ ~crossed
  /\ Calm(shell, app.tail, outbox, worker, inbox)
CalmAfter == Calm(shell', app'.tail, outbox', worker', inbox')

-----------------------------------------------------------------------------
\* The line

LEMMA SettledCalm ==
  ASSUME NEW P, NEW out \in Seq(Responses), out # <<>>, NEW in, NEW w,
         Apart(P, out, in), Heard(P, out), Due(P, in, w),
         NEW p \in P, p.id = out[1].id, NEW Q, Q = P \ {p}
  PROVE  Heard(Q, Tail(out)) /\ Due(Q, in, w)
<1>1. /\ 1 \in 1..Len(out) /\ Len(out) \in Nat \ {0}
      /\ \A i \in 1..Len(Tail(out)) : i + 1 \in 1..Len(out) /\ Tail(out)[i] = out[i + 1]
  BY SeqEnds
<1>2. ASSUME NEW i \in 1..Len(Tail(out))
      PROVE  Tail(out)[i].status = "OK" /\ \E q \in Q : q.id = Tail(out)[i].id
  <2>1. i + 1 \in 1..Len(out) /\ Tail(out)[i] = out[i + 1] /\ i + 1 # 1
    BY <1>1, SeqEnds
  <2>2. out[i + 1].status = "OK" /\ \E q \in P : q.id = out[i + 1].id
    BY <2>1 DEF Heard
  <2>3. out[i + 1].id # out[1].id
    BY <1>1, <2>1 DEF Apart
  <2> QED BY <2>1, <2>2, <2>3
<1>3. ASSUME NEW i \in 1..Len(in)
      PROVE  (\E q \in Q : q.id = in[i].id) /\ (in[i].op = "start" => w.life = "PAUSED")
  BY <1>1 DEF Due, Apart
<1> QED BY <1>2, <1>3 DEF Heard, Due

LEMMA PostedCalm ==
  ASSUME NEW P, NEW out, NEW in \in Seq(Messages), NEW w,
         Heard(P, out), Due(P, in, w),
         NEW q \in Messages, q.op = "start" => w.life = "PAUSED",
         NEW Q, \A p \in P : \E x \in Q : x.id = p.id,
         NEW e \in Q, e.id = q.id
  PROVE  Heard(Q, out) /\ Due(Q, Append(in, q), w)
<1> DEFINE s == Append(in, q)
<1>1. /\ \A i \in 1..Len(in) : s[i] = in[i]
      /\ s[Len(in) + 1] = q
      /\ \A i \in 1..Len(s) : i \in 1..Len(in) \/ i = Len(in) + 1
  BY AppendEnds
<1> HIDE DEF s
<1>2. Heard(Q, out)
  BY DEF Heard
<1>3. ASSUME NEW i \in 1..Len(s)
      PROVE  (\E x \in Q : x.id = s[i].id) /\ (s[i].op = "start" => w.life = "PAUSED")
  <2>1. CASE i \in 1..Len(in)
    BY <2>1, <1>1 DEF Due
  <2>2. CASE i = Len(in) + 1
    BY <2>2, <1>1
  <2> QED BY <2>1, <2>2, <1>1
<1> QED BY <1>2, <1>3 DEF Due, s

\* What is answered first although it was posted last is all there is.
LEMMA LastAlone ==
  ASSUME NEW sh, NEW out, NEW w, NEW in, Page(sh, out, w, in), ~sh.terminal,
         NEW p \in sh.pending, out # <<>>, p.id = out[1].id, sh.next = Succ(p.id)
  PROVE  \A q \in sh.pending : q = p
<1>1. Lines(out, w, in) /\ MaxFlight \in Nat \ {0}
  BY Bounds DEF Page
<1>2. PICK a \in Ids : /\ InTurn(a, out, w, in, sh.next)
                       /\ Awaited(a, sh, Flight(out, w, in))
  BY DEF Page, Order
<1> DEFINE o == Len(out)
           r == RunLen(w)
           d == Len(w.deferred)
           n == Len(in)
           f == o + r + d + n
<1>3. Sizes(o, r, d, n) /\ 1 \in 1..o /\ Flight(out, w, in) = f
  <2>1. 1 \in 1..Len(out)
    BY <1>1, LineTypes, SeqEnds
  <2> QED BY <2>1, <1>1, LineSizes DEF Flight
<1>4. Places(a, out, w, in, sh.next, o, r, d, n)
  BY <1>2, InPlaces
<1> HIDE DEF o, r, d, n
<1>5. f \in 1..MaxFlight
  BY <1>1, <1>3 DEF Sizes
<1>6. out[1].id = Wrap(a, 1 - 1) /\ sh.next = Wrap(a, f)
  BY <1>3, <1>4 DEF Places
<1>7. p.id = a
  BY <1>6, WrapId, Bounds
<1>8. Wrap(a, f) = Succ(a)
  BY <1>6, <1>7
<1> HIDE DEF f
<1>9. f = 1
  <2>1. Succ(a) = IF a + 1 < MaxFlight THEN a + 1 ELSE 0
    BY SuccId
  <2>2. a \in 0..MaxFlight - 1
    BY DEF Ids
  <2>3. CASE a + f < MaxFlight
    <3>1. a + f = Succ(a)
      BY <2>3, <1>8 DEF Wrap
    <3> QED BY <3>1, <2>1, <2>2, <1>1, <1>5
  <2>4. CASE ~(a + f < MaxFlight)
    <3>1. a + f - MaxFlight = Succ(a)
      BY <2>4, <1>8 DEF Wrap
    <3> QED BY <3>1, <2>1, <2>2, <2>4, <1>1, <1>5
  <2> QED BY <2>3, <2>4
<1>10. ASSUME NEW q \in sh.pending PROVE q = p
  <2>1. PICK m \in 0..f - 1 : q.id = Wrap(a, m)
    BY <1>2, <1>3 DEF Awaited
  <2>2. m = 0
    BY <2>1, <1>9
  <2>3. q.id = p.id
    BY <2>1, <2>2, <1>7, WrapId, Bounds
  <2> QED BY <2>3, <1>2 DEF Awaited
<1> QED BY <1>10

-----------------------------------------------------------------------------
\* The worker's steps

LEMMA HandleDue ==
  ASSUME NEW P, NEW t, NEW in \in Seq(Messages), in # <<>>, NEW w, NEW v, NEW st,
         Due(P, in, w), Posted(P, t, in), Handled(w, v, Head(in).op, st)
  PROVE  Due(P, Tail(in), v)
<1> DEFINE s == Tail(in)
<1>1. /\ 1 \in 1..Len(in) /\ Head(in) = in[1] /\ Len(s) \in Nat
      /\ \A i \in 1..Len(s) : i + 1 \in 1..Len(in) /\ s[i] = in[i + 1]
  BY SeqEnds
<1> HIDE DEF s
<1>2. ASSUME NEW i \in 1..Len(s)
      PROVE  (\E p \in P : p.id = s[i].id) /\ (s[i].op = "start" => v.life = "PAUSED")
  <2>1. i + 1 \in 1..Len(in) /\ s[i] = in[i + 1] /\ i + 1 # 1
    BY <1>1
  <2>2. (\E p \in P : p.id = s[i].id) /\ (s[i].op = "start" => w.life = "PAUSED")
    BY <2>1 DEF Due
  <2>3. ASSUME s[i].op = "start" PROVE v.life = "PAUSED"
    <3>1. in[1].op = "neutralize"
      BY <2>1, <2>3, <1>1 DEF Posted
    <3> QED BY <3>1, <2>2, <2>3, <1>1 DEF Handled
  <2> QED BY <2>2, <2>3
<1> QED BY <1>2 DEF Due, s

LEMMA HandleCalm ==
  ASSUME CalmBefore, WorkerHandles
  PROVE  CalmAfter /\ ~shell'.terminal
<1>1. /\ Before /\ ~env.faults /\ Heard(shell.pending, outbox)
      /\ Due(shell.pending, inbox, worker) /\ Level(shell, app.tail)
      /\ UNCHANGED <<shell, app>> /\ Handle(env.faults)
  BY DEF CalmBefore, Calm, WorkerHandles
<1>2. /\ inbox \in Seq(Messages) /\ outbox \in Seq(Responses)
      /\ Posted(shell.pending, app.tail, inbox)
  BY <1>1, AppFacts
<1>3. inbox # <<>> /\ inbox' = Tail(inbox)
  BY <1>1, HandledFirst
<1>4. PICK st \in {"OK", "NOTREADY", "REFUSED"} :
         /\ Handled(worker, worker', Head(inbox).op, st)
         /\ outbox' = Append(outbox, Reply(Head(inbox), st))
         /\ Reply(Head(inbox), st) \in Responses
         /\ Reply(Head(inbox), st).id = Head(inbox).id
         /\ Reply(Head(inbox), st).status = st
         /\ st = "REFUSED" => env.faults
  BY <1>1, HandledFirst
<1>5. 1 \in 1..Len(inbox) /\ Head(inbox) = inbox[1]
  BY <1>2, <1>3, SeqEnds
<1>6. st = "OK"
  BY <1>1, <1>4, <1>5 DEF Handled, Due
<1>7. Due(shell.pending, inbox', worker')
  BY <1>1, <1>2, <1>3, <1>4, HandleDue
<1>8. Heard(shell.pending, outbox')
  <2> DEFINE x == Reply(Head(inbox), st)
             u == Append(outbox, x)
  <2>1. x.status = "OK" /\ \E p \in shell.pending : p.id = x.id
    BY <1>1, <1>4, <1>5, <1>6 DEF Due
  <2>2. x \in Responses /\ outbox' = u
    BY <1>4
  <2> HIDE DEF x
  <2>3. /\ \A i \in 1..Len(outbox) : u[i] = outbox[i]
        /\ u[Len(outbox) + 1] = x
        /\ \A i \in 1..Len(u) : i \in 1..Len(outbox) \/ i = Len(outbox) + 1
    BY <2>2, <1>2, AppendEnds
  <2> HIDE DEF u
  <2>4. \A i \in 1..Len(u) : u[i].status = "OK" /\ \E p \in shell.pending : p.id = u[i].id
    BY <2>1, <2>3, <1>1 DEF Heard
  <2> QED BY <2>2, <2>4 DEF Heard
<1> QED BY <1>1, <1>7, <1>8 DEF CalmAfter, Calm, Before

-----------------------------------------------------------------------------
\* The page's steps

LEMMA CalmFacts ==
  ASSUME CalmBefore
  PROVE  /\ Before /\ ~env.faults /\ env.client = "app" /\ ~shell.terminal /\ SInv
         /\ Heard(shell.pending, outbox) /\ Due(shell.pending, inbox, worker)
         /\ Level(shell, app.tail)
BY DEF CalmBefore, Calm, Before

\* What is taken first is awaited and says OK.
LEMMA NothingUnknown ==
  ASSUME CalmBefore
  PROVE  ~ReceiveUnknown
<1> SUFFICES ASSUME ReceiveUnknown PROVE FALSE
  OBVIOUS
<1>1. outbox # <<>> /\ \/ Head(outbox).status = "ERROR"
                       \/ \A p \in shell.pending : p.id # Head(outbox).id
  BY DEF ReceiveUnknown
<1>2. Head(outbox) = outbox[1] /\ 1 \in 1..Len(outbox)
  BY <1>1, CalmFacts, AppFacts, SeqEnds
<1>3. Heard(shell.pending, outbox)
  BY CalmFacts
<1> QED BY <1>1, <1>2, <1>3 DEF Heard

\* The entry that is settled leaves the line and the rest as calm.
LEMMA TakenCalm ==
  ASSUME CalmBefore, NEW kind, NEW p \in shell.pending, Settles(p, kind)
  PROVE  /\ Head(outbox).status = "OK"
         /\ Heard(shell.pending \ {p}, Tail(outbox))
         /\ Due(shell.pending \ {p}, inbox, worker)
<1>1. /\ outbox # <<>> /\ p.id = outbox[1].id /\ 1 \in 1..Len(outbox)
      /\ Head(outbox) = outbox[1]
  BY CalmFacts, SettledApp
<1>2. /\ outbox \in Seq(Responses) /\ Apart(shell.pending, outbox, inbox)
      /\ Heard(shell.pending, outbox) /\ Due(shell.pending, inbox, worker)
  BY CalmFacts, AppFacts
<1>3. Head(outbox).status = "OK"
  BY <1>1, <1>2 DEF Heard
<1>4. Heard(shell.pending \ {p}, Tail(outbox)) /\ Due(shell.pending \ {p}, inbox, worker)
  BY <1>1, <1>2, SettledCalm
<1> QED BY <1>3, <1>4

LEMMA ReceiveNeutralCalm ==
  ASSUME CalmBefore, ReceiveNeutral
  PROVE  CalmAfter /\ ~shell'.terminal
<1>1. PICK p \in shell.pending :
        /\ Settles(p, "neutral")
        /\ shell' = IF p.fresh THEN Confirmed(Without(p), Head(outbox).status)
                               ELSE Without(p)
        /\ UNCHANGED <<inbox, bridge, app>> /\ Taken
  BY DEF ReceiveNeutral
<1>2. /\ Head(outbox).status = "OK"
      /\ Heard(shell.pending \ {p}, Tail(outbox))
      /\ Due(shell.pending \ {p}, inbox, worker)
  BY <1>1, TakenCalm
<1>3. /\ ShellType(shell) /\ ~shell.terminal /\ Level(shell, app.tail)
      /\ shell.pending \subseteq Entries
  BY CalmFacts, AppFacts
<1> DEFINE v == Without(p)
<1>4. v = [shell EXCEPT !.pending = @ \ {p}]
  BY DEF Without
<1>5. shell' = IF p.fresh THEN [v EXCEPT !.neutral = TRUE] ELSE v
  BY <1>1, <1>2 DEF Confirmed
<1> HIDE DEF v
<1>6. /\ shell'.pending = shell.pending \ {p} /\ shell'.terminal = shell.terminal
      /\ shell'.failed = shell.failed /\ shell'.ingress = shell.ingress
      /\ shell'.next = shell.next
      /\ p.fresh => shell'.neutral
      /\ ~p.fresh => shell'.neutral = shell.neutral
  BY <1>3, <1>4, <1>5 DEF ShellType
<1>7. Level(shell', app.tail)
  <2>1. ASSUME ~shell'.neutral
        PROVE  (\E q \in shell'.pending : IsRelease(q)) /\ (FreshPause(app.tail) \/ shell.ingress)
    <3>1. ~p.fresh /\ ~shell.neutral
      BY <1>6, <2>1
    <3>2. PICK q \in shell.pending : IsRelease(q)
      BY <3>1, <1>3 DEF Level
    <3>3. q # p
      BY <3>1, <3>2 DEF IsRelease
    <3> QED BY <3>1, <3>2, <3>3, <1>3, <1>6 DEF Level
  <2> QED BY <2>1, <1>3, <1>6 DEF Level
<1> QED BY <1>1, <1>2, <1>3, <1>6, <1>7 DEF CalmAfter, Calm, Taken

\* An operation is queued behind the others.
LEMMA JoinCalm ==
  ASSUME CalmBefore, NEW name \in {"resume", "input"},
         app' = [app EXCEPT !.tail = Append(@, Op(name))],
         UNCHANGED <<wvars, shell>>
  PROVE  CalmAfter /\ ~shell'.terminal
<1> DEFINE t == app.tail
           x == Op(name)
           u == Append(t, x)
<1>1. /\ t \in Seq(Operations) /\ AppType(app) /\ Alone(shell.pending, t)
      /\ ~shell.terminal /\ Heard(shell.pending, outbox)
      /\ Due(shell.pending, inbox, worker) /\ Level(shell, t)
  BY CalmFacts, AppFacts
<1>2. x \in Operations
  BY OpType
<1>3. app' = [app EXCEPT !.tail = u]
  OBVIOUS
<1> HIDE DEF x
<1>4. /\ t # <<>> => Head(u) = Head(t)
      /\ \A i \in 1..Len(t) : u[i] = t[i]
      /\ Len(u) = Len(t) + 1 /\ Len(t) \in Nat
  BY <1>1, <1>2, AppendEnds
<1> HIDE DEF u
<1>5. FreshPause(t) => FreshPause(u)
  BY <1>4 DEF FreshPause
<1>6. \A p \in shell.pending : p.for = "public" => Head(u) = Head(t)
  BY <1>1, <1>4 DEF Alone, HeadAt
<1>7. Level(shell, u)
  BY <1>1, <1>5, <1>6 DEF Level
<1>8. app'.tail = u
  BY <1>1, <1>3 DEF AppType
<1> QED BY <1>1, <1>7, <1>8 DEF CalmAfter, Calm, wvars

\* What the fence has met is stale, but for its own operation, which is queued.
LEMMA FencedHead ==
  ASSUME NEW t \in Seq(Operations), NEW u, u = Append(StaleTail(t), Op("pause")),
         Head(u).pc # "queued"
  PROVE  ~Head(u).fresh
<1> DEFINE s == StaleTail(t)
           x == Op("pause")
<1>1. x \in Operations /\ x.pc = "queued"
  BY OpType
<1>2. Len(t) \in Nat /\ DOMAIN t = 1..Len(t) /\ \A i \in 1..Len(t) : t[i] \in Operations
  OBVIOUS
<1>3. s = [i \in 1..Len(t) |-> [t[i] EXCEPT !.fresh = FALSE]]
  BY <1>2 DEF StaleTail
<1>4. \A i \in 1..Len(t) : s[i] \in Operations /\ s[i].fresh = FALSE
  <2>1. ASSUME NEW o \in Operations
        PROVE  /\ [o EXCEPT !.fresh = FALSE] \in Operations
               /\ [o EXCEPT !.fresh = FALSE].fresh = FALSE
    BY DEF Operations
  <2> SUFFICES ASSUME NEW i \in 1..Len(t)
               PROVE  s[i] \in Operations /\ s[i].fresh = FALSE
    OBVIOUS
  <2>2. t[i] \in Operations /\ s[i] = [t[i] EXCEPT !.fresh = FALSE]
    BY <1>2, <1>3
  <2> HIDE DEF s
  <2> QED BY <2>1, <2>2
<1>5. s \in Seq(Operations)
  BY <1>2, <1>3, <1>4
<1>6. u = Append(s, x)
  OBVIOUS
<1> HIDE DEF s, x
<1>7. (s = <<>> => Head(u) = x) /\ (s # <<>> => Head(u) = Head(s))
  BY <1>1, <1>5, <1>6, AppendEnds
<1>8. s # <<>> /\ Head(u) = Head(s)
  BY <1>1, <1>7
<1>9. Head(s) = s[1] /\ 1 \in 1..Len(s) /\ Len(s) = Len(t)
  BY <1>2, <1>3, <1>5, <1>8, SeqEnds
<1> QED BY <1>4, <1>8, <1>9

\* pause, layoutChanged and releaseInput, when no restore is under way.
LEMMA PauseCalm ==
  ASSUME CalmBefore, Pause, ~crossed'
  PROVE  CalmAfter /\ ~shell'.terminal
<1> DEFINE t == app.tail
           u == Append(StaleTail(t), Op("pause"))
           q == Request(Released.next, "neutralize", 0)
           e == Sent(Released, "neutral")
           P == shell.pending
<1>1. /\ t \in Seq(Operations) /\ AppType(app) /\ Alone(P, t)
      /\ ~shell.terminal /\ Heard(P, outbox) /\ Page(shell, outbox, worker, inbox)
      /\ Due(P, inbox, worker) /\ Level(shell, t) /\ P \subseteq Entries
      /\ inbox \in Seq(Messages) /\ SInv'
  BY CalmFacts, AppFacts DEF Before
<1>2. /\ app' = [app EXCEPT !.input = FALSE, !.tail = u]
      /\ Post(Released, "neutral", "neutralize", 0)
      /\ UNCHANGED <<outbox, worker, env>>
      /\ ~Restoring
  BY <1>1 DEF Pause, StaleTail, AppType
<1>3. app'.tail = u
  <2> HIDE DEF u
  <2> QED BY <1>1, <1>2 DEF AppType
<1>4. FreshPause(u)
  BY <1>1, QueueFence, CalmFacts, AppFacts
<1>5. /\ ShellType(Released) /\ Released.terminal = shell.terminal
      /\ Released.failed = shell.failed /\ Released.neutral = FALSE
      /\ Released.pending = StaleEntries(P)
  BY <1>1, ReleasedPage DEF Page, StaleEntries
<1>6. "neutral" \in Callers /\ "neutralize" \in Kinds /\ 0 \in 0..MaxReset
  BY Bounds DEF Callers, Kinds
<1>7. /\ shell'.pending = StaleEntries(P) \cup {e}
      /\ shell'.terminal = shell.terminal /\ shell'.failed = shell.failed
      /\ shell'.neutral = FALSE /\ inbox' = Append(inbox, q)
  BY <1>2, <1>5, <1>6, Posting
<1>8. e.id = Released.next /\ e.for = "neutral" /\ e.fresh = TRUE
  <2>1. e = Sent(Released, "neutral")
    OBVIOUS
  <2> HIDE DEF e
  <2> QED BY <2>1 DEF Sent
<1>9. q \in Messages /\ q.id = Released.next /\ q.op = "neutralize"
  BY <1>5, <1>6, PostedRequest
<1> HIDE DEF e, q, u
<1>10. \A p \in P : [p EXCEPT !.fresh = FALSE].id = p.id
                    /\ [p EXCEPT !.fresh = FALSE].for = p.for
  <2> SUFFICES ASSUME NEW p \in Entries
               PROVE  [p EXCEPT !.fresh = FALSE].id = p.id
                      /\ [p EXCEPT !.fresh = FALSE].for = p.for
    BY <1>1
  <2> QED BY DEF Entries
<1>11. Heard(shell'.pending, outbox) /\ Due(shell'.pending, inbox', worker)
  <2> DEFINE Q == StaleEntries(P) \cup {e}
  <2>1. \A p \in P : \E x \in Q : x.id = p.id
    BY <1>10 DEF StaleEntries
  <2>2. e \in Q /\ e.id = q.id
    BY <1>8, <1>9
  <2> HIDE DEF Q
  <2>3. Heard(Q, outbox) /\ Due(Q, Append(inbox, q), worker)
    BY <2>1, <2>2, <1>1, <1>9, PostedCalm
  <2>4. shell'.pending = Q
    BY <1>7 DEF Q
  <2> QED BY <2>3, <2>4, <1>7
<1>12. \A r \in shell'.pending : r.for # "restore"
  <2>1. ASSUME NEW p \in P PROVE p.for # "restore"
    BY <1>1, <1>2 DEF Alone, HeadAt, Restoring, Level
  <2>2. ASSUME NEW r \in StaleEntries(P) PROVE r.for # "restore"
    BY <2>1, <1>10 DEF StaleEntries
  <2> QED BY <2>2, <1>7, <1>8
<1>13. \A r \in shell'.pending : r.for = "public" => ~Head(u).fresh
  <2>1. Alone(shell'.pending, u)
    <3>1. env'.client = "app" /\ Shape(env', shell', bridge', app')
      BY <1>1, <1>2, CalmFacts DEF SInv
    <3> QED BY <3>1, <1>3 DEF Shape
  <2>2. ASSUME NEW r \in shell'.pending, r.for = "public" PROVE ~Head(u).fresh
    <3>1. Head(u).pc = "lower"
      BY <2>1, <2>2 DEF Alone, HeadAt
    <3> QED BY <3>1, <1>1, FencedHead DEF u
  <2> QED BY <2>2
<1>14. \E r \in shell'.pending : IsRelease(r)
  BY <1>7, <1>8 DEF IsRelease
<1>15. Level(shell', u)
  BY <1>1, <1>4, <1>7, <1>12, <1>13, <1>14 DEF Level
<1> QED BY <1>1, <1>2, <1>3, <1>7, <1>11, <1>15 DEF CalmAfter, Calm

\* The first operation posts its request, of a shell sh that waits for releases.
LEMMA MoveCalm ==
  ASSUME CalmBefore, app.tail # <<>>, NEW out, outbox' = out,
         NEW sh, ShellType(sh), sh.terminal = FALSE, \A p \in sh.pending : p.for = "neutral",
         Heard(sh.pending, out), Due(sh.pending, inbox, worker), Level(sh, app.tail),
         NEW for \in {"public", "restore"},
         NEW op \in {"display", "start", "pause", "input"},
         op = "start" => worker.life = "PAUSED", Post(sh, for, op, 0),
         NEW pc \in {"restore", "lower"}, At(pc), UNCHANGED worker
  PROVE  CalmAfter /\ ~shell'.terminal
<1> DEFINE q == Request(sh.next, op, 0)
           e == Sent(sh, for)
           u == <<[Head(app.tail) EXCEPT !.pc = pc]>> \o Tail(app.tail)
           Q == sh.pending \cup {e}
<1>1. /\ app.tail \in Seq(Operations) /\ AppType(app) /\ inbox \in Seq(Messages)
  BY CalmFacts, AppFacts
<1>2. Moved(app.tail, u, pc)
  BY <1>1, MoveHead
<1>3. app' = [app EXCEPT !.tail = u]
  BY DEF At
<1> HIDE DEF u
<1>4. app'.tail = u
  BY <1>1, <1>3 DEF AppType
<1>5. for \in Callers /\ op \in Kinds /\ 0 \in 0..MaxReset
  BY Bounds DEF Callers, Kinds, PublicOps
<1>6. /\ shell'.pending = Q /\ shell'.ingress = sh.ingress
      /\ shell'.terminal = sh.terminal /\ shell'.failed = sh.failed
      /\ shell'.neutral = sh.neutral /\ shell'.next = Succ(sh.next)
      /\ inbox' = Append(inbox, q)
  BY <1>5, Posting
<1>7. e.id = sh.next /\ e.fresh = TRUE
  <2>1. e = Sent(sh, for)
    OBVIOUS
  <2> HIDE DEF e
  <2> QED BY <2>1 DEF Sent
<1>8. q \in Messages /\ q.id = sh.next /\ q.op = op
  BY <1>5, PostedRequest
<1> HIDE DEF e, q
<1>9. Heard(Q, out) /\ Due(Q, Append(inbox, q), worker)
  <2>1. (\A p \in sh.pending : \E x \in Q : x.id = p.id) /\ e \in Q /\ e.id = q.id
    BY <1>7, <1>8
  <2>2. q.op = "start" => worker.life = "PAUSED"
    BY <1>8
  <2> HIDE DEF Q
  <2> QED BY <2>1, <2>2, <1>1, <1>8, PostedCalm
<1>10. FreshPause(app.tail) <=> FreshPause(u)
  BY <1>2 DEF Moved, FreshPause
<1>11. Level(shell', u)
  BY <1>6, <1>7, <1>10 DEF Level
<1> QED BY <1>4, <1>6, <1>9, <1>11 DEF CalmAfter, Calm

\* No queued operation is refused when it starts.
LEMMA NotRefused ==
  ASSUME CalmBefore, app.tail # <<>>, Head(app.tail).pc = "queued", Head(app.tail).fresh
  PROVE  /\ Head(app.tail).op = "resume" => Restorable
         /\ Head(app.tail).op = "input" => shell.ingress
<1> DEFINE t == app.tail
<1>1. /\ t \in Seq(Operations) /\ app.phase \in {"PAUSED", "RUNNING"}
      /\ Queue(t, app.phase, app.input, shell.ingress) /\ Level(shell, t)
      /\ \A p \in shell.pending : p.for = "neutral"
  BY CalmFacts, AppFacts, OnlyReleases
<1>2. Head(t) = t[1] /\ 1 \in 1..Len(t) /\ ~Starting(t)
  BY <1>1, SeqEnds DEF Starting, HeadAt
<1>3. ASSUME Head(t).op = "input" PROVE shell.ingress
  BY <1>1, <1>2, <1>3 DEF Queue
<1>4. ASSUME Head(t).op = "resume" PROVE Restorable
  <2>1. ~FreshPause(t) /\ ~app.input
    BY <1>1, <1>4, FreshResume
  <2>2. ~shell.ingress
    BY <2>1, <1>1, <1>2 DEF Queue
  <2>3. shell.neutral /\ ~shell.failed
    BY <2>1, <2>2, <1>1 DEF Level
  <2> QED BY <2>2, <2>3, <1>1 DEF Restorable
<1> QED BY <1>3, <1>4

LEMMA BeginCalm ==
  ASSUME CalmBefore, Begin
  PROVE  CalmAfter /\ ~shell'.terminal
<1> DEFINE t == app.tail
           head == Head(t)
<1>1. t # <<>> /\ head.pc = "queued"
  BY DEF Begin
<1>2. /\ t \in Seq(Operations) /\ Queue(t, app.phase, app.input, shell.ingress)
      /\ AppType(app) /\ ShellType(shell) /\ shell.terminal = FALSE
      /\ Heard(shell.pending, outbox) /\ Due(shell.pending, inbox, worker)
      /\ Level(shell, t) /\ \A p \in shell.pending : p.for = "neutral"
  BY <1>1, CalmFacts, AppFacts, OnlyReleases
<1>3. head \in Operations
  BY <1>1, <1>2, SeqEnds
<1>4. head.fresh => (head.op = "resume" => Restorable) /\ (head.op = "input" => shell.ingress)
  BY <1>1, NotRefused
<1>5. \/ ~head.fresh /\ app' = Dropped /\ UNCHANGED <<wvars, shell>>
      \/ /\ head.fresh /\ UNCHANGED <<outbox, worker>>
         /\ \/ /\ head.op = "resume"
               /\ Post(shell, "restore", "display", 0) /\ At("restore")
            \/ /\ head.op # "resume"
               /\ Post(shell, "public", head.op, 0) /\ At("lower")
  <2> HIDE DEF head
  <2> QED BY <1>4 DEF Begin, Skipped, head
<1>6. CASE ~head.fresh /\ app' = Dropped /\ UNCHANGED <<wvars, shell>>
  <2>1. app'.tail = Tail(t)
    BY <1>2, <1>6 DEF Dropped, AppType
  <2>2. FreshPause(Tail(t))
    BY <1>1, <1>2, <1>6, StaleHead
  <2>3. Level(shell, Tail(t))
    BY <2>2, <1>2 DEF Level
  <2>4. UNCHANGED <<worker, inbox, outbox, shell>>
    BY <1>6 DEF wvars
  <2> QED BY <2>1, <2>3, <2>4, <1>2 DEF CalmAfter, Calm
<1> HIDE DEF head
<1>7. CASE head.fresh /\ UNCHANGED <<outbox, worker>> /\ head.op = "resume"
           /\ Post(shell, "restore", "display", 0) /\ At("restore")
  BY <1>1, <1>2, <1>7, MoveCalm
<1>8. CASE head.fresh /\ UNCHANGED <<outbox, worker>> /\ head.op # "resume"
           /\ Post(shell, "public", head.op, 0) /\ At("lower")
  <2>1. head.op \in {"pause", "input"}
    BY <1>3, <1>8 DEF Operations
  <2> QED BY <2>1, <1>1, <1>2, <1>8, MoveCalm
<1> QED BY <1>5, <1>6, <1>7, <1>8

LEMMA ReceiveRestoreCalm ==
  ASSUME CalmBefore, ReceiveRestore
  PROVE  CalmAfter /\ ~shell'.terminal
<1> DEFINE t == app.tail
           P == shell.pending
<1>1. PICK p \in P :
        /\ Settles(p, "restore")
        /\ \/ /\ p.fresh /\ Head(outbox).status = "OK"
              /\ Post([Without(p) EXCEPT !.ingress = TRUE], "public", "start", 0)
              /\ At("lower") /\ Taken
           \/ ~(p.fresh /\ Head(outbox).status = "OK")
  BY CalmFacts DEF ReceiveRestore
<1>2. /\ t \in Seq(Operations) /\ app.phase \in {"PAUSED", "RUNNING"}
      /\ Queue(t, app.phase, app.input, shell.ingress)
      /\ Shows(t, app.phase, app.input, worker, inbox) /\ Plain(worker, inbox)
      /\ Alone(P, t) /\ ShellType(shell) /\ shell.terminal = FALSE /\ Level(shell, t)
      /\ Fences(shell)
  BY CalmFacts, AppFacts DEF Releases
<1>3. /\ Head(outbox).status = "OK"
      /\ Heard(P \ {p}, Tail(outbox)) /\ Due(P \ {p}, inbox, worker)
  BY <1>1, TakenCalm
<1>4. p.for = "restore"
  BY <1>1 DEF Settles
<1>5. p.fresh
  BY <1>2, <1>4 DEF Level
<1>6. shell.neutral
  BY <1>2, <1>4, <1>5 DEF Fences
<1> DEFINE v == Without(p)
           sh == [v EXCEPT !.ingress = TRUE]
           out == Tail(outbox)
<1>7. v = [shell EXCEPT !.pending = @ \ {p}] /\ ShellType(v)
      /\ \A q \in P \ {p} : q.for = "neutral"
  <2>1. ShellType(v)
    BY <1>1, CalmFacts, SettledApp
  <2>2. \A q \in P \ {p} : q.for = "neutral"
    BY <1>2, <1>4, LeftOver, CalmFacts, AppFacts
  <2> QED BY <2>1, <2>2 DEF Without
<1>8. Post(sh, "public", "start", 0) /\ At("lower") /\ outbox' = out /\ UNCHANGED worker
  BY <1>1, <1>3, <1>5 DEF Taken
<1> HIDE DEF v, out
<1>9. /\ ShellType(sh) /\ sh.pending = P \ {p} /\ sh.terminal = FALSE
      /\ sh.failed = shell.failed /\ sh.neutral = shell.neutral
  BY <1>2, <1>7 DEF ShellType
<1> HIDE DEF sh
<1>10. t # <<>> /\ Head(t).pc = "restore" /\ Head(t).op = "resume" /\ Head(t).fresh
  BY <1>2, <1>4, <1>5 DEF Alone, HeadAt
<1>11. app.phase = "PAUSED" /\ ~FreshPause(t)
  BY <1>2, <1>10, FreshResume
<1>12. worker.life = "PAUSED"
  BY <1>2, <1>10, <1>11 DEF Shows, Plain, Starting, HeadAt
<1>13. Level(sh, t)
  BY <1>2, <1>6, <1>7, <1>9 DEF Level
<1>14. Heard(sh.pending, out) /\ Due(sh.pending, inbox, worker)
  BY <1>3, <1>9 DEF out
<1> QED BY <1>7, <1>8, <1>9, <1>10, <1>12, <1>13, <1>14, MoveCalm

LEMMA ReceivePublicCalm ==
  ASSUME CalmBefore, ReceivePublic
  PROVE  CalmAfter /\ ~shell'.terminal
<1> DEFINE t == app.tail
           P == shell.pending
           head == Head(t)
<1>1. PICK p \in P :
        /\ Settles(p, "public")
        /\ \/ /\ shell' = Without(p) /\ app' = Finished(head)
              /\ UNCHANGED <<worker, inbox>> /\ outbox' = Tail(outbox)
           \/ Head(outbox).status # "OK"
  BY CalmFacts DEF ReceivePublic, Taken
<1>2. /\ t \in Seq(Operations)
      /\ Queue(t, app.phase, app.input, shell.ingress) /\ AppType(app)
      /\ Alone(P, t) /\ ShellType(shell) /\ shell.terminal = FALSE /\ Level(shell, t)
      /\ Page(shell, outbox, worker, inbox) /\ P \subseteq Entries
  BY CalmFacts, AppFacts
<1>3. /\ Head(outbox).status = "OK"
      /\ Heard(P \ {p}, Tail(outbox)) /\ Due(P \ {p}, inbox, worker)
  BY <1>1, TakenCalm
<1>4. /\ shell' = Without(p) /\ app' = Finished(head)
      /\ UNCHANGED <<worker, inbox>> /\ outbox' = Tail(outbox)
  BY <1>1, <1>3
<1>5. p.for = "public"
  BY <1>1 DEF Settles
<1>6. t # <<>> /\ head.pc = "lower"
  BY <1>2, <1>5 DEF Alone, HeadAt
<1>7. head \in Operations /\ head = t[1] /\ 1 \in 1..Len(t)
  BY <1>2, <1>6, SeqEnds
<1>8. app'.tail = Tail(t)
  BY <1>2, <1>4, FinishedApp
<1>9. /\ shell'.pending = P \ {p} /\ shell'.terminal = FALSE
      /\ shell'.failed = shell.failed /\ shell'.neutral = shell.neutral
      /\ shell'.ingress = shell.ingress
  BY <1>2, <1>4 DEF Without, ShellType
<1>10. \A q \in P \ {p} : q.for = "neutral"
  BY <1>2, <1>5, LeftOver
<1>11. ASSUME ~shell.neutral
       PROVE  /\ \E q \in shell'.pending : IsRelease(q)
              /\ FreshPause(Tail(t)) \/ shell.ingress
  <2>1. PICK q \in P : IsRelease(q)
    BY <1>2, <1>11 DEF Level
  <2>2. q # p
    BY <2>1, <1>5 DEF IsRelease
  <2>3. \E r \in shell'.pending : IsRelease(r)
    BY <2>1, <2>2, <1>9
  <2> HIDE DEF head
  <2>4. CASE ~head.fresh
    BY <2>3, <2>4, <1>2, <1>6, StaleHead DEF head
  <2>5. CASE head.fresh /\ head.op = "resume"
    <3>1. Starting(t)
      BY <2>5, <1>6 DEF Starting, HeadAt, head
    <3> QED BY <3>1, <2>3, <1>2 DEF Queue
  <2>6. CASE head.fresh /\ head.op = "input"
    BY <2>3, <2>6, <1>2, <1>7 DEF Queue
  <2>7. CASE head.fresh /\ head.op = "pause"
    <3>1. shell.next = Succ(p.id)
      BY <2>7, <1>2, <1>5 DEF Level, head
    <3>2. outbox # <<>> /\ p.id = outbox[1].id
      BY <1>1, CalmFacts, SettledApp
    <3>3. q = p
      BY <3>1, <3>2, <1>2, LastAlone
    <3> QED BY <3>3, <2>2
  <2>8. head.op \in {"pause", "resume", "input"}
    BY <1>7 DEF Operations
  <2> QED BY <2>4, <2>5, <2>6, <2>7, <2>8
<1>12. Level(shell', Tail(t))
  BY <1>2, <1>9, <1>10, <1>11 DEF Level
<1> QED BY <1>3, <1>4, <1>8, <1>9, <1>12 DEF CalmAfter, Calm

-----------------------------------------------------------------------------
\* Every step

LEMMA InitQuiet == Init => QuietInv
<1> SUFFICES ASSUME Init, env.client = "app"
             PROVE  Well(app) /\ Calm(shell, app.tail, outbox, worker, inbox)
  BY DEF QuietInv, Undisturbed
<1>1. /\ inbox = <<>> /\ outbox = <<>>
      /\ shell.pending = {} /\ shell.failed = FALSE
      /\ shell.neutral
      /\ app.phase = "PAUSED" /\ app.tail = <<>>
  BY DEF Init, WorkerInit
<1>2. Heard(shell.pending, outbox) /\ Due(shell.pending, inbox, worker)
  BY <1>1 DEF Heard, Due
<1> QED BY <1>1, <1>2 DEF Calm, Level, Well

\* What an undisturbed application may do next.
LEMMA QuietSteps ==
  ASSUME CalmBefore, Next, ~Stop, ~ResumeOutsidePaused
  PROVE  \/ Pause \/ Resume \/ SubmitInput \/ Begin
         \/ ReceiveNeutral \/ ReceiveRestore \/ ReceivePublic \/ WorkerHandles
<1>1. Before /\ ~env.faults /\ env.client = "app" /\ bridge = Idle
  BY CalmFacts, AppFacts
<1>2. ~ReceiveUnknown
  BY NothingUnknown
<1>3. ~Submit /\ ~Release /\ ~Restore
  BY <1>1 DEF Submit, Release, Restore
<1>4. ~ReceiveNext /\ ~ReceiveComplete /\ ~Serve /\ ~TimeOut /\ ~WorkerDies
  BY <1>1 DEF ReceiveNext, ReceiveComplete, Serve, TimeOut, WorkerDies, Idle
<1>5. ~WorkerBegins /\ ~WorkerCaptures /\ ~WorkerFinishes
  BY <1>1, NoSlice
<1> QED BY <1>2, <1>3, <1>4, <1>5 DEF Next

LEMMA QuietStep ==
  ASSUME CalmBefore, Next, ~Stop, ~ResumeOutsidePaused, ~crossed'
  PROVE  CalmAfter /\ ~shell'.terminal
<1>1. CASE Pause
  BY <1>1, PauseCalm
<1>2. CASE Resume \/ SubmitInput
  BY <1>2, JoinCalm DEF Resume, SubmitInput
<1>3. CASE Begin
  BY <1>3, BeginCalm
<1>4. CASE ReceiveNeutral \/ ReceiveRestore \/ ReceivePublic
  BY <1>4, ReceiveNeutralCalm, ReceiveRestoreCalm, ReceivePublicCalm
<1>5. CASE WorkerHandles
  BY <1>5, HandleCalm
<1> QED BY <1>1, <1>2, <1>3, <1>4, <1>5, QuietSteps

LEMMA QuietNext == SInv /\ AppInv /\ QuietInv /\ [Next]_vars => QuietInv'
<1> SUFFICES ASSUME SInv, AppInv, QuietInv, [Next]_vars,
                    env'.client = "app", ~env'.faults, ~crossed'
             PROVE  Well(app') /\ (~shell'.terminal => CalmAfter)
  BY DEF QuietInv, Undisturbed, CalmAfter
<1>1. SInv' /\ env' = env /\ ~crossed
  BY NextOK, History
<1>2. Well(app) /\ (~shell.terminal => CalmBefore)
  BY <1>1 DEF QuietInv, Undisturbed, CalmBefore, Before, AppInv
<1>3. ~shell'.terminal => Well(app')
  BY <1>1 DEF SInv, Shape, Well
<1>4. CASE shell.terminal
  BY <1>1, <1>2, <1>4, EndedStays
<1>5. CASE UNCHANGED vars /\ ~shell.terminal
  <2>1. CalmBefore /\ UNCHANGED <<shell, app, outbox, worker, inbox>>
    BY <1>2, <1>5 DEF vars, wvars, svars
  <2> QED BY <2>1, <1>2 DEF CalmBefore, CalmAfter
<1>6. CASE (Stop \/ ResumeOutsidePaused) /\ ~shell.terminal
  <2>1. Well(app')
    BY <1>1, <1>6 DEF Stop, ResumeOutsidePaused, Close, Well
  <2>2. shell'.terminal
    BY <1>2, <1>6, Closes, CalmFacts, AppFacts DEF Stop, ResumeOutsidePaused
  <2> QED BY <2>1, <2>2
<1>7. CASE Next /\ ~Stop /\ ~ResumeOutsidePaused /\ ~shell.terminal
  <2>1. CalmAfter /\ ~shell'.terminal
    BY <1>2, <1>7, QuietStep
  <2> QED BY <2>1, <1>3
<1> QED BY <1>4, <1>5, <1>6, <1>7

\* An application whose worker is well fails by a resume() while it is not
\* paused, or by a fence that overtakes a resume's restore, and by nothing else
\* that pausing, resuming and typing can lead to.
THEOREM FailsOnlyByResume == Spec => []QuietFailsOnlyByResume
<1>1. SInv /\ AppInv /\ [Next]_vars => AppInv'
  BY AppNext
<1>2. QuietInv => QuietFailsOnlyByResume
  BY DEF QuietInv, Undisturbed, Well, QuietFailsOnlyByResume
<1> QED BY <1>1, <1>2, InitApp, InitQuiet, QuietNext, Invariance, PTL DEF Spec

=============================================================================
