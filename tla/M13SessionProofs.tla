-------------------------- MODULE M13SessionProofs --------------------------
(***************************************************************************)
(* Proofs about M13Session, for every number of messages under way, every  *)
(* number of resets and queued operations, and every set of sessions.      *)
(* The argument is about the line from the page to the worker and back:    *)
(* replies, the slice, the deferred controls, requests.  Its ids are       *)
(* consecutive (Order), and behind the request of a release there is no    *)
(* input (Releases).  The parts of the invariant take the state they speak *)
(* of as arguments, so that a part a step leaves alone is never opened.    *)
(***************************************************************************)
EXTENDS M13Session, SequenceTheorems, TLAPS

Kinds == PublicOps \cup {"neutralize", "display", "next", "complete", "fail"}
Messages == [id : Ids, op : Kinds, gen : 0..MaxReset]
Deferrals == {q \in Messages : q.op \in Controls}
Statuses == {"OK", "NOTREADY", "ERROR", "REFUSED", "WAITING", "FAILED"}
Responses == [id : Ids, status : Statuses, gen : 0..MaxReset]

NoInput(in) == \A i \in 1..Len(in) : in[i].op # "input"
NoReset(in) == \A i \in 1..Len(in) : in[i].op # "reset"
IsRelease(p) == p.for = "neutral" /\ p.fresh

-----------------------------------------------------------------------------
\* The invariant

ShellType(sh) ==
  sh \in [terminal : BOOLEAN, failed : BOOLEAN, ingress : BOOLEAN,
          neutral : BOOLEAN, next : Ids, pending : SUBSET Entries]

BridgeType(br) ==
  br \in [phase : {"idle", "next", "serve", "complete", "failing"},
          gen : 0..MaxReset, write : BOOLEAN]

Workers == [life : {"RUNNING", "WAITING", "STOPPED", "FAILED", "PAUSED"},
            hidden : BOOLEAN, core : BOOLEAN,
            host : {"none", "asked", "failed"}, gen : 0..MaxReset,
            held : BOOLEAN, run : {None} \cup Slices(Ids),
            deferred : Seq(Deferrals), expected : Ids]

AppType(ap) ==
  /\ ap \in [phase : {"PAUSED", "RUNNING", "STOPPED", "FAILED"}, reason : Reasons,
             input : BOOLEAN, tail : Seq(Operations)]
  /\ Len(ap.tail) <= MaxQueue

RunLen(w) == IF w.run = None THEN 0 ELSE 1

Lines(out, w, in) ==
  /\ in \in Seq(Messages) /\ out \in Seq(Responses) /\ w \in Workers
  /\ Len(in) \in Nat /\ Len(out) \in Nat /\ Len(w.deferred) \in Nat
  /\ RunLen(w) \in {0, 1}
  /\ Len(out) + RunLen(w) + Len(w.deferred) + Len(in) <= MaxFlight

\* The reset under way is one that the bound allows.
OneReset(w, in) ==
  /\ \A i \in 1..Len(in) : in[i].op = "reset" => w.gen < MaxReset
  /\ \A i, j \in 1..Len(in) :
       in[i].op = "reset" /\ in[j].op = "reset" => i = j

\* The k-th id after a.
Wrap(a, k) == IF a + k < MaxFlight THEN a + k ELSE a + k - MaxFlight

\* The ids on the line are consecutive from a on.
InTurn(a, out, w, in, nx) ==
  /\ \A k \in 1..Len(out) : out[k].id = Wrap(a, k - 1)
  /\ w.run # None => w.run.id = Wrap(a, Len(out))
  /\ \A k \in 1..Len(w.deferred) :
       w.deferred[k].id = Wrap(a, Len(out) + RunLen(w) + k - 1)
  /\ \A k \in 1..Len(in) :
       in[k].id = Wrap(a, Len(out) + RunLen(w) + Len(w.deferred) + k - 1)
  /\ w.expected = Wrap(a, Len(out) + RunLen(w) + Len(w.deferred))
  /\ nx = Wrap(a, Len(out) + RunLen(w) + Len(w.deferred) + Len(in))

\* Everything under way on the line, and what the page still waits for of it.
Flight(out, w, in) == Len(out) + RunLen(w) + Len(w.deferred) + Len(in)

Awaited(a, sh, f) ==
  /\ \A p \in sh.pending : \E m \in 0..f - 1 : p.id = Wrap(a, m)
  /\ \A p, q \in sh.pending : p.id = q.id => p = q

Over(sh, out, w, in) ==
  /\ out = <<>> /\ in = <<>> /\ w.run = None /\ w.deferred = <<>>
  /\ sh.pending = {} /\ ~sh.neutral /\ ~sh.ingress

Order(sh, out, w, in) ==
  /\ sh.terminal => Over(sh, out, w, in)
  /\ ~sh.terminal => \E a \in Ids : /\ InTurn(a, out, w, in, sh.next)
                                    /\ Awaited(a, sh, Flight(out, w, in))

\* A confirmed pause, hide or stop keeps the guest from running.
Halts(w, ba) == ba => w.life \notin {"RUNNING", "WAITING"}

\* While the release p is not confirmed, its request has no input behind it,
\* and its reply, if it is OK, finds the worker neutral.
Releasing(p, out, w, in) ==
  /\ \A i \in 1..Len(in) : in[i].id = p.id =>
       /\ in[i].op = "neutralize"
       /\ \A j \in 1..Len(in) : i < j => in[j].op # "input"
  /\ \A i \in 1..Len(out) : out[i].id = p.id /\ out[i].status = "OK" =>
       ~w.held /\ NoInput(in)
  /\ w.run # None => w.run.id # p.id
  /\ \A k \in 1..Len(w.deferred) : w.deferred[k].id # p.id

\* One release at a time waits for its confirmation, ingress is closed until
\* then, and what is restored is an ingress that was confirmed neutral.
Fences(sh) ==
  /\ \A p \in sh.pending : IsRelease(p) =>
       /\ ~sh.ingress /\ ~sh.neutral
       /\ \A q \in sh.pending : IsRelease(q) => q = p
  /\ \A p \in sh.pending : p.for = "restore" =>
       /\ p.fresh => sh.neutral /\ ~sh.ingress
       /\ \A q \in sh.pending : q.for = "restore" => q = p

Releases(sh, out, w, in) ==
  /\ Fences(sh)
  /\ \A p \in sh.pending : IsRelease(p) => Releasing(p, out, w, in)
  /\ sh.neutral /\ ~sh.ingress => ~w.held /\ NoInput(in)

Page(sh, out, w, in) ==
  /\ ShellType(sh) /\ Lines(out, w, in) /\ OneReset(w, in)
  /\ Order(sh, out, w, in) /\ Releases(sh, out, w, in)

HeadAt(tail, pc) == tail # <<>> /\ Head(tail).pc = pc

\* Of the application's FIFO only the first operation has begun, and what it
\* waits for is the one entry that is not a release.
Alone(pending, tail) ==
  /\ \A p \in pending :
       /\ p.for # "bridge"
       /\ p.for = "public" => HeadAt(tail, "lower")
       /\ p.for = "restore" =>
            HeadAt(tail, "restore") /\ (Head(tail).fresh <=> p.fresh)
  /\ \A p, q \in pending : p.for # "neutral" /\ q.for # "neutral" => p = q
  /\ \A i \in 2..Len(tail) : tail[i].pc = "queued"
  /\ HeadAt(tail, "restore") => Head(tail).op = "resume"

Shape(en, sh, br, ap) ==
  /\ en.client # "app" => ap.tail = <<>>
  /\ en.client = "app" =>
       /\ br = Idle
       /\ sh.terminal <=> ap.phase \in {"STOPPED", "FAILED"}
       /\ sh.terminal => ap.tail = <<>>
       /\ Alone(sh.pending, ap.tail)

SInv ==
  /\ env \in Sessions
  /\ crossed \in BOOLEAN /\ barred \in BOOLEAN
  /\ BridgeType(bridge)
  /\ AppType(app)
  /\ Page(shell, outbox, worker, inbox)
  /\ Halts(worker, barred)
  /\ Shape(env, shell, bridge, app)

-----------------------------------------------------------------------------
\* Ids

LEMMA Bounds == /\ MaxFlight \in Nat \ {0} /\ MaxReset \in Nat
                /\ MaxQueue \in Nat \ {0}
                /\ 0 \in Ids /\ 0 \in 0..MaxReset
BY FlightAssumption, QueueAssumption DEF Ids

LEMMA SuccId ==
  ASSUME NEW a \in Ids
  PROVE  /\ Succ(a) = IF a + 1 < MaxFlight THEN a + 1 ELSE 0
         /\ Succ(a) \in Ids
<1>0. MaxFlight \in Nat \ {0}
  BY FlightAssumption
<1>1. CASE a + 1 < MaxFlight
  BY <1>0, <1>1 DEF Succ, Ids
<1>2. CASE a + 1 >= MaxFlight
  <2>1. a + 1 = MaxFlight
    BY <1>0, <1>2 DEF Ids
  <2>2. MaxFlight % MaxFlight = 0
    BY <1>0
  <2> QED BY <2>1, <2>2, <1>0 DEF Succ, Ids
<1> QED BY <1>0, <1>1, <1>2 DEF Ids

LEMMA WrapId ==
  ASSUME NEW a \in Ids, NEW k \in 0..MaxFlight
  PROVE  /\ Wrap(a, k) \in Ids
         /\ Wrap(a, 0) = a
         /\ Succ(Wrap(a, k)) = Wrap(a, k + 1) \/ k = MaxFlight
         /\ k > 0 => Wrap(Succ(a), k - 1) = Wrap(a, k)
<1>1. Wrap(a, k) \in Ids /\ Wrap(a, 0) = a
  BY Bounds DEF Wrap, Ids
<1>2. /\ Succ(Wrap(a, k)) = IF Wrap(a, k) + 1 < MaxFlight THEN Wrap(a, k) + 1 ELSE 0
      /\ Succ(a) = IF a + 1 < MaxFlight THEN a + 1 ELSE 0
  BY <1>1, SuccId
<1> QED BY <1>1, <1>2, Bounds DEF Wrap, Ids

LEMMA WrapApart ==
  ASSUME NEW a \in Ids, NEW k \in 0..MaxFlight - 1, NEW m \in 0..MaxFlight - 1,
         k # m
  PROVE  Wrap(a, k) # Wrap(a, m)
BY Bounds DEF Wrap, Ids

-----------------------------------------------------------------------------
\* The page's end of the line

LEMMA LineTypes ==
  ASSUME NEW out, NEW w, NEW in, Lines(out, w, in)
  PROVE  /\ in \in Seq(Messages) /\ out \in Seq(Responses) /\ w \in Workers
         /\ Len(in) \in Nat /\ Len(out) \in Nat /\ Len(w.deferred) \in Nat
         /\ RunLen(w) \in {0, 1}
         /\ w.deferred \in Seq(Deferrals)
         /\ \A i \in 1..Len(in) : in[i] \in Messages
         /\ \A i \in 1..Len(out) : out[i] \in Responses
         /\ \A i \in 1..Len(w.deferred) : w.deferred[i] \in Deferrals
         /\ Flight(out, w, in) <= MaxFlight
BY DEF Lines, Workers, Flight

\* The line in numbers: the places of its parts.
Places(a, out, w, in, nx, o, r, d, n) ==
  /\ \A k \in 1..o : out[k].id = Wrap(a, k - 1)
  /\ w.run # None => w.run.id = Wrap(a, o)
  /\ \A k \in 1..d : w.deferred[k].id = Wrap(a, o + r + k - 1)
  /\ \A k \in 1..n : in[k].id = Wrap(a, o + r + d + k - 1)
  /\ w.expected = Wrap(a, o + r + d)
  /\ nx = Wrap(a, o + r + d + n)

LEMMA InPlaces ==
  ASSUME NEW a, NEW out, NEW w, NEW in, NEW nx, NEW o, NEW r, NEW d, NEW n,
         o = Len(out), r = RunLen(w), d = Len(w.deferred), n = Len(in)
  PROVE  InTurn(a, out, w, in, nx) <=> Places(a, out, w, in, nx, o, r, d, n)
BY DEF InTurn, Places

\* Nothing on the line but what is in place m has the id of place m.
Elsewhere(a, m, out, w, in, o, r, d, n) ==
  /\ \A k \in 1..o : k - 1 # m => out[k].id # Wrap(a, m)
  /\ w.run # None /\ o # m => w.run.id # Wrap(a, m)
  /\ \A k \in 1..d : o + r + k - 1 # m => w.deferred[k].id # Wrap(a, m)
  /\ \A k \in 1..n : o + r + d + k - 1 # m => in[k].id # Wrap(a, m)

LEMMA PlacesApart ==
  ASSUME NEW a \in Ids, NEW out, NEW w, NEW in, NEW nx,
         NEW o \in Nat, NEW r \in Nat, NEW d \in Nat, NEW n \in Nat,
         w.run # None => r = 1, o + r + d + n <= MaxFlight,
         Places(a, out, w, in, nx, o, r, d, n),
         NEW m \in 0..MaxFlight - 1
  PROVE  Elsewhere(a, m, out, w, in, o, r, d, n)
<1>1. MaxFlight \in Nat \ {0}
  BY Bounds
<1>2. ASSUME NEW k \in 1..o, k - 1 # m PROVE out[k].id # Wrap(a, m)
  <2>1. k - 1 \in 0..MaxFlight - 1
    BY <1>1
  <2> QED BY <2>1, <1>2, WrapApart DEF Places
<1>3. ASSUME w.run # None, o # m PROVE w.run.id # Wrap(a, m)
  <2>1. o \in 0..MaxFlight - 1
    BY <1>1, <1>3
  <2> QED BY <2>1, <1>3, WrapApart DEF Places
<1>4. ASSUME NEW k \in 1..d, o + r + k - 1 # m PROVE w.deferred[k].id # Wrap(a, m)
  <2>1. o + r + k - 1 \in 0..MaxFlight - 1
    BY <1>1
  <2> QED BY <2>1, <1>4, WrapApart DEF Places
<1>5. ASSUME NEW k \in 1..n, o + r + d + k - 1 # m PROVE in[k].id # Wrap(a, m)
  <2>1. o + r + d + k - 1 \in 0..MaxFlight - 1
    BY <1>1
  <2> QED BY <2>1, <1>5, WrapApart DEF Places
<1> QED BY <1>2, <1>3, <1>4, <1>5 DEF Elsewhere

LEMMA LineLengths ==
  ASSUME NEW out, NEW w, NEW in, Lines(out, w, in)
  PROVE  /\ Len(out) \in Nat /\ RunLen(w) \in Nat
         /\ Len(w.deferred) \in Nat /\ Len(in) \in Nat
         /\ w.run # None => RunLen(w) = 1
         /\ w.run = None => RunLen(w) = 0
         /\ Flight(out, w, in) = Len(out) + RunLen(w) + Len(w.deferred) + Len(in)
         /\ Flight(out, w, in) <= MaxFlight
<1>1. /\ Len(out) \in Nat /\ Len(w.deferred) \in Nat /\ Len(in) \in Nat
      /\ Flight(out, w, in) = Len(out) + RunLen(w) + Len(w.deferred) + Len(in)
      /\ Flight(out, w, in) <= MaxFlight
  BY DEF Lines, Flight
<1>2. /\ RunLen(w) \in Nat /\ (w.run # None => RunLen(w) = 1)
      /\ w.run = None => RunLen(w) = 0
  BY DEF RunLen
<1> QED BY <1>1, <1>2

\* Nothing on the line has the id i.
Unused(i, out, w, in) ==
  /\ \A k \in 1..Len(out) : out[k].id # i
  /\ w.run # None => w.run.id # i
  /\ \A k \in 1..Len(w.deferred) : w.deferred[k].id # i
  /\ \A k \in 1..Len(in) : in[k].id # i

\* A new request takes the next id, which nothing on the line has.
LEMMA PostLine ==
  ASSUME NEW out, NEW w, NEW in, NEW a \in Ids, NEW nx \in Ids,
         NEW q \in Messages, q.id = nx,
         Lines(out, w, in), InTurn(a, out, w, in, nx),
         Flight(out, w, in) < MaxFlight
  PROVE  /\ Lines(out, w, Append(in, q))
         /\ InTurn(a, out, w, Append(in, q), Succ(nx))
         /\ Flight(out, w, Append(in, q)) = Flight(out, w, in) + 1
         /\ Flight(out, w, in) \in 0..MaxFlight - 1
         /\ nx = Wrap(a, Flight(out, w, in))
         /\ Unused(nx, out, w, in)
<1> DEFINE o == Len(out)
           r == RunLen(w)
           d == Len(w.deferred)
           n == Len(in)
           s == Append(in, q)
<1>1. /\ s \in Seq(Messages) /\ Len(s) = n + 1
      /\ \A i \in 1..n : s[i] = in[i]
      /\ s[n + 1] = q
  BY LineTypes, AppendProperties
<1>2. /\ o \in Nat /\ r \in Nat /\ d \in Nat /\ n \in Nat
      /\ w.run # None => r = 1
      /\ o + r + d + n < MaxFlight
      /\ MaxFlight \in Nat \ {0}
  <2>1. /\ o \in Nat /\ r \in Nat /\ d \in Nat /\ n \in Nat
        /\ w.run # None => r = 1
        /\ Flight(out, w, in) = o + r + d + n
    BY LineLengths
  <2> HIDE DEF o, r, d, n
  <2> QED BY <2>1, Bounds
<1>3. Places(a, out, w, in, nx, o, r, d, n)
  BY InPlaces
<1>4. Lines(out, w, s)
  <2>1. o + r + d + (n + 1) <= MaxFlight /\ n + 1 \in Nat
    <3> HIDE DEF o, r, d, n
    <3> QED BY <1>2
  <2>2. Len(out) + RunLen(w) + Len(w.deferred) + Len(s) <= MaxFlight /\ Len(s) \in Nat
    BY <1>1, <2>1
  <2> HIDE DEF s
  <2> QED BY <1>1, <2>2 DEF Lines
<1>5. InTurn(a, out, w, s, Succ(nx))
      <=> Places(a, out, w, s, Succ(nx), o, r, d, n + 1)
  BY <1>1, InPlaces
<1>a. Flight(out, w, in) = o + r + d + n /\ Flight(out, w, s) = o + r + d + (n + 1)
  BY <1>1, LineLengths DEF Flight
<1> HIDE DEF o, r, d, n, s
<1> DEFINE T == o + r + d + n
<1>6. /\ T \in 0..MaxFlight - 1 /\ T \in 0..MaxFlight /\ T # MaxFlight
      /\ \A k \in 1..o : k - 1 # T
      /\ w.run # None => o # T
      /\ \A k \in 1..d : o + r + k - 1 # T
      /\ \A k \in 1..n : o + r + d + k - 1 # T
      /\ o + r + d + n <= MaxFlight
      /\ \A k \in 1..n + 1 : k \in 1..n \/ k = n + 1
      /\ o + r + d + (n + 1) - 1 = T
      /\ o + r + d + (n + 1) = T + 1
      /\ Flight(out, w, in) = T /\ Flight(out, w, s) = T + 1
  BY <1>2, <1>a
<1>7. nx = Wrap(a, T)
  BY <1>3 DEF Places
<1> HIDE DEF T
<1>8. /\ \A k \in 1..o : out[k].id # nx
      /\ w.run # None => w.run.id # nx
      /\ \A k \in 1..d : w.deferred[k].id # nx
      /\ \A k \in 1..n : in[k].id # nx
  <2>1. Elsewhere(a, T, out, w, in, o, r, d, n)
    BY <1>2, <1>3, <1>6, PlacesApart
  <2> QED BY <2>1, <1>6, <1>7 DEF Elsewhere
<1>9. Succ(nx) = Wrap(a, T + 1)
  BY <1>6, <1>7, WrapId
<1>10. Places(a, out, w, s, Succ(nx), o, r, d, n + 1)
  <2>1. ASSUME NEW k \in 1..n + 1 PROVE s[k].id = Wrap(a, o + r + d + k - 1)
    <3>1. CASE k \in 1..n
      BY <3>1, <1>1, <1>3 DEF Places
    <3>2. CASE k = n + 1
      BY <3>2, <1>1, <1>6, <1>7
    <3> QED BY <3>1, <3>2, <1>6
  <2> QED BY <2>1, <1>3, <1>6, <1>9 DEF Places
<1>b. Unused(nx, out, w, in)
  BY <1>8 DEF Unused, o, d, n
<1> QED BY <1>4, <1>5, <1>6, <1>7, <1>b, <1>10 DEF s

\* The page takes the first reply.
LEMMA TakeLine ==
  ASSUME NEW out, NEW w, NEW in, NEW a \in Ids, NEW nx,
         Lines(out, w, in), InTurn(a, out, w, in, nx), out # <<>>
  PROVE  /\ Lines(Tail(out), w, in)
         /\ InTurn(Succ(a), Tail(out), w, in, nx)
         /\ Flight(Tail(out), w, in) < MaxFlight
         /\ Flight(Tail(out), w, in) = Flight(out, w, in) - 1
         /\ Flight(out, w, in) \in 1..MaxFlight
         /\ Head(out).id = Wrap(a, 0)
         /\ 1 \in 1..Len(out) /\ Head(out) = out[1] /\ Head(out) \in Responses
         /\ Len(Tail(out)) = Len(out) - 1
         /\ \A k \in 1..Len(Tail(out)) : k + 1 \in 1..Len(out) /\ Tail(out)[k] = out[k + 1]
         /\ \A k \in 1..Len(out) : k # 1 => out[k].id # Head(out).id
         /\ w.run # None => w.run.id # Head(out).id
         /\ \A k \in 1..Len(w.deferred) : w.deferred[k].id # Head(out).id
         /\ \A k \in 1..Len(in) : in[k].id # Head(out).id
<1> DEFINE o == Len(out)
           r == RunLen(w)
           d == Len(w.deferred)
           n == Len(in)
           s == Tail(out)
<1>1. /\ Head(out) \in Responses /\ s \in Seq(Responses)
      /\ Len(s) = o - 1
      /\ \A i \in 1..Len(s) : s[i] = out[i + 1]
  BY LineTypes, HeadTailProperties
<1>2. /\ o \in Nat /\ r \in Nat /\ d \in Nat /\ n \in Nat
      /\ w.run # None => r = 1
      /\ o + r + d + n <= MaxFlight
      /\ MaxFlight \in Nat \ {0}
      /\ o # 0
  <2>1. /\ o \in Nat /\ r \in Nat /\ d \in Nat /\ n \in Nat
        /\ w.run # None => r = 1
        /\ Flight(out, w, in) = o + r + d + n
        /\ Flight(out, w, in) <= MaxFlight
    BY LineLengths
  <2>2. o # 0
    BY LineTypes, EmptySeq
  <2> HIDE DEF o, r, d, n
  <2> QED BY <2>1, <2>2, Bounds
<1>3. Head(out) = out[1]
  BY <1>2, LineTypes
<1>4. Places(a, out, w, in, nx, o, r, d, n)
  BY InPlaces
<1>5. Lines(s, w, in) /\ Flight(s, w, in) < MaxFlight
  <2>1. /\ (o - 1) + r + d + n < MaxFlight /\ o - 1 \in Nat
        /\ (o - 1) + r + d + n <= MaxFlight
    <3> HIDE DEF o, r, d, n
    <3> QED BY <1>2
  <2>2. Len(s) + RunLen(w) + Len(w.deferred) + Len(in) < MaxFlight /\ Len(s) \in Nat
    BY <1>1, <2>1
  <2>3. Len(s) + RunLen(w) + Len(w.deferred) + Len(in) <= MaxFlight
    BY <1>1, <2>1
  <2> HIDE DEF s
  <2> QED BY <1>1, <2>2, <2>3 DEF Lines, Flight
<1>a. Flight(out, w, in) = o + r + d + n /\ Flight(s, w, in) = o - 1 + r + d + n
  BY <1>1, LineLengths DEF Flight
<1>6. InTurn(Succ(a), s, w, in, nx)
      <=> Places(Succ(a), s, w, in, nx, o - 1, r, d, n)
  BY <1>1, InPlaces
<1> HIDE DEF o, r, d, n, s
<1>7. ASSUME NEW m \in 1..MaxFlight PROVE Wrap(Succ(a), m - 1) = Wrap(a, m)
  BY <1>2, <1>7, WrapId
<1>8. Places(Succ(a), s, w, in, nx, o - 1, r, d, n)
  <2>1. ASSUME NEW k \in 1..o - 1 PROVE s[k].id = Wrap(Succ(a), k - 1)
    <3>1. k + 1 \in 1..o /\ k + 1 - 1 = k /\ k \in 1..MaxFlight
      BY <1>2
    <3> QED BY <3>1, <1>1, <1>4, <1>7 DEF Places
  <2>2. w.run # None => w.run.id = Wrap(Succ(a), o - 1)
    <3>1. o \in 1..MaxFlight
      BY <1>2
    <3> QED BY <3>1, <1>4, <1>7 DEF Places
  <2>3. ASSUME NEW k \in 1..d PROVE w.deferred[k].id = Wrap(Succ(a), o - 1 + r + k - 1)
    <3> DEFINE m == o + r + k - 1
    <3>1. m \in 1..MaxFlight /\ o - 1 + r + k - 1 = m - 1
      BY <1>2
    <3>2. w.deferred[k].id = Wrap(a, m)
      BY <1>4 DEF Places
    <3> HIDE DEF m
    <3> QED BY <3>1, <3>2, <1>7
  <2>4. ASSUME NEW k \in 1..n PROVE in[k].id = Wrap(Succ(a), o - 1 + r + d + k - 1)
    <3> DEFINE m == o + r + d + k - 1
    <3>1. m \in 1..MaxFlight /\ o - 1 + r + d + k - 1 = m - 1
      BY <1>2
    <3>2. in[k].id = Wrap(a, m)
      BY <1>4 DEF Places
    <3> HIDE DEF m
    <3> QED BY <3>1, <3>2, <1>7
  <2>5. w.expected = Wrap(Succ(a), o - 1 + r + d)
    <3> DEFINE m == o + r + d
    <3>1. m \in 1..MaxFlight /\ o - 1 + r + d = m - 1
      BY <1>2
    <3>2. w.expected = Wrap(a, m)
      BY <1>4 DEF Places
    <3> HIDE DEF m
    <3> QED BY <3>1, <3>2, <1>7
  <2>6. nx = Wrap(Succ(a), o - 1 + r + d + n)
    <3> DEFINE m == o + r + d + n
    <3>1. m \in 1..MaxFlight /\ o - 1 + r + d + n = m - 1
      BY <1>2
    <3>2. nx = Wrap(a, m)
      BY <1>4 DEF Places
    <3> HIDE DEF m
    <3> QED BY <3>1, <3>2, <1>7
  <2> QED BY <2>1, <2>2, <2>3, <2>4, <2>5, <2>6 DEF Places
<1>9. Head(out).id = Wrap(a, 0)
  <2>1. 1 \in 1..o /\ 1 - 1 = 0
    BY <1>2
  <2> QED BY <2>1, <1>3, <1>4 DEF Places
<1>10. /\ \A k \in 1..o : k # 1 => out[k].id # Head(out).id
       /\ w.run # None => w.run.id # Head(out).id
       /\ \A k \in 1..d : w.deferred[k].id # Head(out).id
       /\ \A k \in 1..n : in[k].id # Head(out).id
  <2> DEFINE m == 0
  <2>1. /\ m \in 0..MaxFlight - 1
        /\ \A k \in 1..o : k # 1 => k - 1 # m
        /\ o # m
        /\ \A k \in 1..d : o + r + k - 1 # m
        /\ \A k \in 1..n : o + r + d + k - 1 # m
        /\ Head(out).id = Wrap(a, m)
    BY <1>2, <1>9
  <2> HIDE DEF m
  <2>2. Elsewhere(a, m, out, w, in, o, r, d, n)
    BY <2>1, <1>2, <1>4, PlacesApart
  <2> QED BY <2>1, <2>2 DEF Elsewhere
<1>11. /\ 1 \in 1..o /\ \A k \in 1..o - 1 : k + 1 \in 1..o
       /\ Flight(s, w, in) = Flight(out, w, in) - 1
       /\ Flight(out, w, in) \in 1..MaxFlight
  BY <1>2, <1>a
<1> QED BY <1>1, <1>3, <1>5, <1>6, <1>8, <1>9, <1>10, <1>11 DEF o, r, d, n, s

-----------------------------------------------------------------------------
\* The worker's end of the line: what moves keeps its place.

\* The lengths of the line, bounded.
Sizes(o, r, d, n) ==
  /\ o \in Nat /\ r \in Nat /\ d \in Nat /\ n \in Nat
  /\ o + r + d + n <= MaxFlight

LEMMA SizesOK ==
  ASSUME NEW out, NEW w, NEW in, NEW o, NEW r, NEW d, NEW n,
         Sizes(o, r, d, n),
         Len(out) = o, RunLen(w) = r, Len(w.deferred) = d, Len(in) = n,
         out \in Seq(Responses), w \in Workers, in \in Seq(Messages)
  PROVE  Lines(out, w, in)
<1>1. RunLen(w) \in {0, 1}
  BY DEF RunLen
<1> QED BY <1>1 DEF Lines, Sizes

LEMMA LineSizes ==
  ASSUME NEW out, NEW w, NEW in, NEW o, NEW r, NEW d, NEW n,
         Lines(out, w, in),
         Len(out) = o, RunLen(w) = r, Len(w.deferred) = d, Len(in) = n
  PROVE  Sizes(o, r, d, n)
BY LineLengths DEF Sizes, Flight

\* The first request is answered; it is the one expected.
LEMMA HandleLine ==
  ASSUME NEW out, NEW w, NEW in, NEW a \in Ids, NEW nx,
         Lines(out, w, in), InTurn(a, out, w, in, nx),
         w.run = None, w.deferred = <<>>, in # <<>>,
         NEW v \in Workers, v.run = None, v.deferred = <<>>,
         v.expected = Succ(w.expected),
         NEW x \in Responses, x.id = Head(in).id
  PROVE  /\ Lines(Append(out, x), v, Tail(in))
         /\ InTurn(a, Append(out, x), v, Tail(in), nx)
         /\ Flight(Append(out, x), v, Tail(in)) = Flight(out, w, in)
<1> DEFINE o == Len(out)
           n == Len(in)
           s == Append(out, x)
           t == Tail(in)
<1>1. /\ t \in Seq(Messages) /\ Len(t) = n - 1
      /\ \A i \in 1..Len(t) : t[i] = in[i + 1]
  BY LineTypes, HeadTailProperties
<1>2. /\ s \in Seq(Responses) /\ Len(s) = o + 1
      /\ \A i \in 1..o : s[i] = out[i]
      /\ s[o + 1] = x
  BY LineTypes, AppendProperties
<1>3. /\ RunLen(w) = 0 /\ Len(w.deferred) = 0
      /\ RunLen(v) = 0 /\ Len(v.deferred) = 0
  BY EmptySeq DEF RunLen
<1>4. Head(in) = in[1] /\ n # 0
  BY LineTypes, EmptySeq
<1>5. Sizes(o, 0, 0, n)
  BY <1>3, LineSizes
<1>6. Places(a, out, w, in, nx, o, 0, 0, n)
  BY <1>3, InPlaces
<1>7. InTurn(a, s, v, t, nx) <=> Places(a, s, v, t, nx, o + 1, 0, 0, n - 1)
  BY <1>1, <1>2, <1>3, InPlaces
<1>8. Sizes(o + 1, 0, 0, n - 1) => Lines(s, v, t)
  BY <1>1, <1>2, <1>3, SizesOK
<1>a. Flight(out, w, in) = o + 0 + 0 + n /\ Flight(s, v, t) = (o + 1) + 0 + 0 + (n - 1)
  BY <1>1, <1>2, <1>3 DEF Flight
<1> HIDE DEF o, n, s, t
<1>9. /\ o \in Nat /\ n \in Nat \ {0} /\ o + n <= MaxFlight
      /\ MaxFlight \in Nat \ {0}
      /\ Sizes(o + 1, 0, 0, n - 1)
  BY <1>4, <1>5, Bounds DEF Sizes
<1>10. Places(a, s, v, t, nx, o + 1, 0, 0, n - 1)
  <2>1. in[1].id = Wrap(a, o) /\ w.expected = Wrap(a, o)
    <3>1. 1 \in 1..n /\ o + 0 + 0 + 1 - 1 = o /\ o + 0 + 0 = o
      BY <1>9
    <3> QED BY <3>1, <1>6 DEF Places
  <2>2. v.expected = Wrap(a, o + 1)
    <3>1. o \in 0..MaxFlight /\ o # MaxFlight
      BY <1>9
    <3> QED BY <3>1, <2>1, WrapId
  <2>3. ASSUME NEW k \in 1..o + 1 PROVE s[k].id = Wrap(a, k - 1)
    <3>1. CASE k \in 1..o
      BY <3>1, <1>2, <1>6 DEF Places
    <3>2. CASE k = o + 1
      <4>1. k - 1 = o
        BY <3>2, <1>9
      <4> QED BY <4>1, <3>2, <1>2, <1>4, <2>1
    <3> QED BY <3>1, <3>2, <1>9
  <2>4. ASSUME NEW k \in 1..n - 1
        PROVE  t[k].id = Wrap(a, o + 1 + 0 + 0 + k - 1)
    <3>1. /\ k + 1 \in 1..n
          /\ o + 0 + 0 + (k + 1) - 1 = o + 1 + 0 + 0 + k - 1
      BY <1>9
    <3>2. in[k + 1].id = Wrap(a, o + 0 + 0 + (k + 1) - 1)
      BY <3>1, <1>6 DEF Places
    <3> QED BY <3>1, <3>2, <1>1
  <2>5. /\ o + 1 + 0 + 0 = o + 1
        /\ o + 1 + 0 + 0 + (n - 1) = o + 0 + 0 + n
    BY <1>9
  <2> QED BY <2>2, <2>3, <2>4, <2>5, <1>6 DEF Places
<1>b. Flight(s, v, t) = Flight(out, w, in)
  BY <1>a, <1>5 DEF Sizes
<1> QED BY <1>7, <1>8, <1>9, <1>10, <1>b DEF s, t

\* The first request is the one the worker expects.
LEMMA HeadExpected ==
  ASSUME NEW out, NEW w, NEW in, NEW a \in Ids, NEW nx,
         Lines(out, w, in), InTurn(a, out, w, in, nx), in # <<>>
  PROVE  /\ Head(in) \in Messages /\ Head(in).id = w.expected
         /\ 1 \in 1..Len(in) /\ Head(in) = in[1]
         /\ Len(Tail(in)) = Len(in) - 1
         /\ \A k \in 1..Len(Tail(in)) :
              k + 1 \in 1..Len(in) /\ Tail(in)[k] = in[k + 1]
         /\ \A k \in 1..Len(in) : in[k].id = w.expected => k = 1
         /\ \A k \in 1..Len(in) : k # 1 => in[k].id # Head(in).id
         /\ \A k \in 1..Len(out) : out[k].id # Head(in).id
         /\ w.run # None => w.run.id # Head(in).id
         /\ \A k \in 1..Len(w.deferred) : w.deferred[k].id # Head(in).id
<1> DEFINE o == Len(out)
           r == RunLen(w)
           d == Len(w.deferred)
           n == Len(in)
           m == o + r + d
<1>1. /\ Head(in) \in Messages /\ Len(Tail(in)) = n - 1
      /\ \A i \in 1..Len(Tail(in)) : Tail(in)[i] = in[i + 1]
  BY LineTypes, HeadTailProperties
<1>2. Head(in) = in[1] /\ n # 0
  BY LineTypes, EmptySeq
<1>3. Sizes(o, r, d, n) /\ (w.run # None => r = 1)
  BY LineSizes, LineLengths
<1>4. Places(a, out, w, in, nx, o, r, d, n)
  BY InPlaces
<1> HIDE DEF o, r, d, n
<1>5. /\ m \in 0..MaxFlight - 1
      /\ \A k \in 1..o : k - 1 # m
      /\ w.run # None => o # m
      /\ \A k \in 1..d : o + r + k - 1 # m
      /\ \A k \in 1..n : k # 1 => o + r + d + k - 1 # m
      /\ 1 \in 1..n /\ o + r + d + 1 - 1 = m /\ o + r + d = m
      /\ \A k \in 1..n - 1 : k + 1 \in 1..n
      /\ o \in Nat /\ r \in Nat /\ d \in Nat /\ n \in Nat
      /\ o + r + d + n <= MaxFlight
  BY <1>2, <1>3, Bounds DEF Sizes
<1>6. in[1].id = Wrap(a, m) /\ w.expected = Wrap(a, m)
  BY <1>4, <1>5 DEF Places
<1> HIDE DEF m
<1>7. Elsewhere(a, m, out, w, in, o, r, d, n)
  BY <1>3, <1>4, <1>5, PlacesApart
<1> QED BY <1>1, <1>2, <1>5, <1>6, <1>7 DEF Elsewhere, o, r, d, n

\* The slice starts.
LEMMA BeginLine ==
  ASSUME NEW out, NEW w, NEW in, NEW a \in Ids, NEW nx,
         Lines(out, w, in), InTurn(a, out, w, in, nx),
         w.run = None, w.deferred = <<>>, in # <<>>,
         NEW v \in Workers, v.run # None, v.run.id = Head(in).id,
         v.deferred = <<>>, v.expected = Succ(w.expected)
  PROVE  /\ Lines(out, v, Tail(in))
         /\ InTurn(a, out, v, Tail(in), nx)
         /\ Flight(out, v, Tail(in)) = Flight(out, w, in)
<1> DEFINE o == Len(out)
           n == Len(in)
           t == Tail(in)
<1>1. /\ t \in Seq(Messages) /\ Len(t) = n - 1
      /\ \A i \in 1..Len(t) : t[i] = in[i + 1]
  BY LineTypes, HeadTailProperties
<1>2. out \in Seq(Responses)
  BY LineTypes
<1>3. /\ RunLen(w) = 0 /\ Len(w.deferred) = 0
      /\ RunLen(v) = 1 /\ Len(v.deferred) = 0
  BY EmptySeq DEF RunLen
<1>4. Head(in) = in[1] /\ n # 0
  BY LineTypes, EmptySeq
<1>5. Sizes(o, 0, 0, n)
  BY <1>3, LineSizes
<1>6. Places(a, out, w, in, nx, o, 0, 0, n)
  BY <1>3, InPlaces
<1>7. InTurn(a, out, v, t, nx) <=> Places(a, out, v, t, nx, o, 1, 0, n - 1)
  BY <1>1, <1>3, InPlaces
<1>8. Sizes(o, 1, 0, n - 1) => Lines(out, v, t)
  BY <1>1, <1>2, <1>3, SizesOK
<1>a. Flight(out, w, in) = o + 0 + 0 + n /\ Flight(out, v, t) = o + 1 + 0 + (n - 1)
  BY <1>1, <1>3 DEF Flight
<1> HIDE DEF o, n, t
<1>9. /\ o \in Nat /\ n \in Nat \ {0} /\ o + n <= MaxFlight
      /\ MaxFlight \in Nat \ {0}
      /\ Sizes(o, 1, 0, n - 1)
  BY <1>4, <1>5, Bounds DEF Sizes
<1>10. Places(a, out, v, t, nx, o, 1, 0, n - 1)
  <2>1. in[1].id = Wrap(a, o) /\ w.expected = Wrap(a, o)
    <3>1. 1 \in 1..n /\ o + 0 + 0 + 1 - 1 = o /\ o + 0 + 0 = o
      BY <1>9
    <3> QED BY <3>1, <1>6 DEF Places
  <2>2. v.expected = Wrap(a, o + 1)
    <3>1. o \in 0..MaxFlight /\ o # MaxFlight
      BY <1>9
    <3> QED BY <3>1, <2>1, WrapId
  <2>3. v.run.id = Wrap(a, o)
    BY <2>1, <1>4
  <2>4. ASSUME NEW k \in 1..n - 1
        PROVE  t[k].id = Wrap(a, o + 1 + 0 + k - 1)
    <3>1. /\ k + 1 \in 1..n
          /\ o + 0 + 0 + (k + 1) - 1 = o + 1 + 0 + k - 1
      BY <1>9
    <3>2. in[k + 1].id = Wrap(a, o + 0 + 0 + (k + 1) - 1)
      BY <3>1, <1>6 DEF Places
    <3> QED BY <3>1, <3>2, <1>1
  <2>5. /\ o + 1 + 0 = o + 1
        /\ o + 1 + 0 + (n - 1) = o + 0 + 0 + n
        /\ \A k \in 1..0 : FALSE
    BY <1>9
  <2> QED BY <2>2, <2>3, <2>4, <2>5, <1>6 DEF Places
<1>b. Flight(out, v, t) = Flight(out, w, in)
  BY <1>a, <1>5 DEF Sizes
<1> QED BY <1>7, <1>8, <1>9, <1>10, <1>b DEF t

\* A control is captured: the next in order is the first.
LEMMA CaptureLine ==
  ASSUME NEW out, NEW w, NEW in, NEW a \in Ids, NEW nx,
         Lines(out, w, in), InTurn(a, out, w, in, nx),
         w.run # None, in # <<>>, Head(in) \in Deferrals,
         NEW v \in Workers, v.run = w.run,
         v.deferred = Append(w.deferred, Head(in)),
         v.expected = Succ(w.expected)
  PROVE  /\ Lines(out, v, Tail(in))
         /\ InTurn(a, out, v, Tail(in), nx)
         /\ Flight(out, v, Tail(in)) = Flight(out, w, in)
<1> DEFINE o == Len(out)
           d == Len(w.deferred)
           n == Len(in)
           s == Append(w.deferred, Head(in))
           t == Tail(in)
<1>1. /\ t \in Seq(Messages) /\ Len(t) = n - 1
      /\ \A i \in 1..Len(t) : t[i] = in[i + 1]
  BY LineTypes, HeadTailProperties
<1>2. /\ s \in Seq(Deferrals) /\ Len(s) = d + 1
      /\ \A i \in 1..d : s[i] = w.deferred[i]
      /\ s[d + 1] = Head(in)
  BY LineTypes, AppendProperties
<1>3. RunLen(w) = 1 /\ RunLen(v) = 1 /\ out \in Seq(Responses)
  BY LineTypes DEF RunLen
<1>4. Head(in) = in[1] /\ n # 0
  BY LineTypes, EmptySeq
<1>5. Sizes(o, 1, d, n)
  BY <1>3, LineSizes
<1>6. Places(a, out, w, in, nx, o, 1, d, n)
  BY <1>3, InPlaces
<1>7. InTurn(a, out, v, t, nx) <=> Places(a, out, v, t, nx, o, 1, d + 1, n - 1)
  BY <1>1, <1>2, <1>3, InPlaces
<1>8. Sizes(o, 1, d + 1, n - 1) => Lines(out, v, t)
  BY <1>1, <1>2, <1>3, SizesOK
<1>9. v.deferred = s
  OBVIOUS
<1>a. Flight(out, w, in) = o + 1 + d + n /\ Flight(out, v, t) = o + 1 + (d + 1) + (n - 1)
  BY <1>1, <1>2, <1>3 DEF Flight
<1> HIDE DEF o, d, n, s, t
<1>10. /\ o \in Nat /\ d \in Nat /\ n \in Nat \ {0} /\ o + 1 + d + n <= MaxFlight
       /\ MaxFlight \in Nat \ {0}
       /\ Sizes(o, 1, d + 1, n - 1)
  BY <1>4, <1>5, Bounds DEF Sizes
<1>11. Places(a, out, v, t, nx, o, 1, d + 1, n - 1)
  <2>1. in[1].id = Wrap(a, o + 1 + d) /\ w.expected = Wrap(a, o + 1 + d)
    <3>1. 1 \in 1..n /\ o + 1 + d + 1 - 1 = o + 1 + d
      BY <1>10
    <3> QED BY <3>1, <1>6 DEF Places
  <2>2. v.expected = Wrap(a, o + 1 + (d + 1))
    <3> DEFINE m == o + 1 + d
    <3>1. /\ m \in 0..MaxFlight /\ m # MaxFlight /\ o + 1 + (d + 1) = m + 1
          /\ w.expected = Wrap(a, m)
      BY <1>10, <2>1
    <3> HIDE DEF m
    <3> QED BY <3>1, WrapId
  <2>3. ASSUME NEW k \in 1..d + 1 PROVE v.deferred[k].id = Wrap(a, o + 1 + k - 1)
    <3>1. CASE k \in 1..d
      BY <3>1, <1>2, <1>6, <1>9 DEF Places
    <3>2. CASE k = d + 1
      <4>1. o + 1 + k - 1 = o + 1 + d
        BY <3>2, <1>10
      <4> QED BY <4>1, <3>2, <1>2, <1>4, <1>9, <2>1
    <3>3. k \in 1..d \/ k = d + 1
      BY <1>10
    <3> QED BY <3>1, <3>2, <3>3
  <2>4. ASSUME NEW k \in 1..n - 1
        PROVE  t[k].id = Wrap(a, o + 1 + (d + 1) + k - 1)
    <3>1. /\ k + 1 \in 1..n
          /\ o + 1 + d + (k + 1) - 1 = o + 1 + (d + 1) + k - 1
      BY <1>10
    <3>2. in[k + 1].id = Wrap(a, o + 1 + d + (k + 1) - 1)
      BY <3>1, <1>6 DEF Places
    <3> QED BY <3>1, <3>2, <1>1
  <2>5. o + 1 + (d + 1) + (n - 1) = o + 1 + d + n
    BY <1>10
  <2> QED BY <2>2, <2>3, <2>4, <2>5, <1>6 DEF Places
<1>b. Flight(out, v, t) = Flight(out, w, in)
  BY <1>a, <1>5 DEF Sizes
<1> QED BY <1>7, <1>8, <1>10, <1>11, <1>b DEF t

\* The slice is answered.
LEMMA FinishLine ==
  ASSUME NEW out, NEW w, NEW in, NEW a \in Ids, NEW nx,
         Lines(out, w, in), InTurn(a, out, w, in, nx), w.run # None,
         NEW v \in Workers, v.run = None, v.deferred = w.deferred,
         v.expected = w.expected,
         NEW x \in Responses, x.id = w.run.id
  PROVE  /\ Lines(Append(out, x), v, in)
         /\ InTurn(a, Append(out, x), v, in, nx)
         /\ Flight(Append(out, x), v, in) = Flight(out, w, in)
<1> DEFINE o == Len(out)
           d == Len(w.deferred)
           n == Len(in)
           s == Append(out, x)
<1>1. /\ s \in Seq(Responses) /\ Len(s) = o + 1
      /\ \A i \in 1..o : s[i] = out[i]
      /\ s[o + 1] = x
  BY LineTypes, AppendProperties
<1>2. RunLen(w) = 1 /\ RunLen(v) = 0 /\ in \in Seq(Messages)
  BY LineTypes DEF RunLen
<1>3. Sizes(o, 1, d, n)
  BY <1>2, LineSizes
<1>4. Places(a, out, w, in, nx, o, 1, d, n)
  BY <1>2, InPlaces
<1>5. InTurn(a, s, v, in, nx) <=> Places(a, s, v, in, nx, o + 1, 0, d, n)
  BY <1>1, <1>2, InPlaces
<1>6. Sizes(o + 1, 0, d, n) => Lines(s, v, in)
  BY <1>1, <1>2, SizesOK
<1>a. Flight(out, w, in) = o + 1 + d + n /\ Flight(s, v, in) = (o + 1) + 0 + d + n
  BY <1>1, <1>2 DEF Flight
<1> HIDE DEF o, d, n, s
<1>7. /\ o \in Nat /\ d \in Nat /\ n \in Nat /\ MaxFlight \in Nat
      /\ Sizes(o + 1, 0, d, n)
      /\ \A k \in 1..o + 1 : k \in 1..o \/ (k = o + 1 /\ k - 1 = o)
      /\ \A k \in 1..d : o + 1 + 0 + k - 1 = o + 1 + k - 1
      /\ \A k \in 1..n : o + 1 + 0 + d + k - 1 = o + 1 + d + k - 1
      /\ o + 1 + 0 + d = o + 1 + d
      /\ o + 1 + 0 + d + n = o + 1 + d + n
  BY <1>3, Bounds DEF Sizes
<1>8. Places(a, s, v, in, nx, o + 1, 0, d, n)
  <2>1. ASSUME NEW k \in 1..o + 1 PROVE s[k].id = Wrap(a, k - 1)
    <3>1. CASE k \in 1..o
      BY <3>1, <1>1, <1>4 DEF Places
    <3>2. CASE k = o + 1 /\ k - 1 = o
      BY <3>2, <1>1, <1>4 DEF Places
    <3> QED BY <3>1, <3>2, <1>7
  <2> QED BY <2>1, <1>4, <1>7 DEF Places
<1>b. Flight(s, v, in) = Flight(out, w, in)
  BY <1>a, <1>3 DEF Sizes
<1> QED BY <1>5, <1>6, <1>7, <1>8, <1>b DEF s

\* A deferred control is answered.
LEMMA ApplyLine ==
  ASSUME NEW out, NEW w, NEW in, NEW a \in Ids, NEW nx,
         Lines(out, w, in), InTurn(a, out, w, in, nx),
         w.run = None, w.deferred # <<>>,
         NEW v \in Workers, v.run = None, v.deferred = Tail(w.deferred),
         v.expected = w.expected,
         NEW x \in Responses, x.id = Head(w.deferred).id
  PROVE  /\ Lines(Append(out, x), v, in)
         /\ InTurn(a, Append(out, x), v, in, nx)
         /\ Flight(Append(out, x), v, in) = Flight(out, w, in)
<1> DEFINE o == Len(out)
           d == Len(w.deferred)
           n == Len(in)
           s == Append(out, x)
           t == Tail(w.deferred)
<1>1. /\ s \in Seq(Responses) /\ Len(s) = o + 1
      /\ \A i \in 1..o : s[i] = out[i]
      /\ s[o + 1] = x
  BY LineTypes, AppendProperties
<1>2. /\ t \in Seq(Deferrals) /\ Len(t) = d - 1
      /\ \A i \in 1..Len(t) : t[i] = w.deferred[i + 1]
  BY LineTypes, HeadTailProperties
<1>3. RunLen(w) = 0 /\ RunLen(v) = 0 /\ in \in Seq(Messages)
  BY LineTypes DEF RunLen
<1>4. Head(w.deferred) = w.deferred[1] /\ d # 0
  BY LineTypes, EmptySeq
<1>5. Sizes(o, 0, d, n)
  BY <1>3, LineSizes
<1>6. Places(a, out, w, in, nx, o, 0, d, n)
  BY <1>3, InPlaces
<1>7. InTurn(a, s, v, in, nx) <=> Places(a, s, v, in, nx, o + 1, 0, d - 1, n)
  BY <1>1, <1>2, <1>3, InPlaces
<1>8. Sizes(o + 1, 0, d - 1, n) => Lines(s, v, in)
  BY <1>1, <1>2, <1>3, SizesOK
<1>9. v.deferred = t
  OBVIOUS
<1>a. Flight(out, w, in) = o + 0 + d + n /\ Flight(s, v, in) = (o + 1) + 0 + (d - 1) + n
  BY <1>1, <1>2, <1>3 DEF Flight
<1> HIDE DEF o, d, n, s, t
<1>10. /\ o \in Nat /\ d \in Nat \ {0} /\ n \in Nat /\ MaxFlight \in Nat
       /\ Sizes(o + 1, 0, d - 1, n)
       /\ \A k \in 1..o + 1 : k \in 1..o \/ (k = o + 1 /\ k - 1 = o)
       /\ \A k \in 1..n : o + 1 + 0 + (d - 1) + k - 1 = o + 0 + d + k - 1
       /\ o + 1 + 0 + (d - 1) = o + 0 + d
       /\ o + 1 + 0 + (d - 1) + n = o + 0 + d + n
  BY <1>4, <1>5, Bounds DEF Sizes
<1>11. Places(a, s, v, in, nx, o + 1, 0, d - 1, n)
  <2>1. w.deferred[1].id = Wrap(a, o)
    <3>1. 1 \in 1..d /\ o + 0 + 1 - 1 = o
      BY <1>10
    <3> QED BY <3>1, <1>6 DEF Places
  <2>2. ASSUME NEW k \in 1..o + 1 PROVE s[k].id = Wrap(a, k - 1)
    <3>1. CASE k \in 1..o
      BY <3>1, <1>1, <1>6 DEF Places
    <3>2. CASE k = o + 1 /\ k - 1 = o
      BY <3>2, <1>1, <1>4, <2>1
    <3> QED BY <3>1, <3>2, <1>10
  <2>3. ASSUME NEW k \in 1..d - 1
        PROVE  v.deferred[k].id = Wrap(a, o + 1 + 0 + k - 1)
    <3>1. k + 1 \in 1..d /\ o + 0 + (k + 1) - 1 = o + 1 + 0 + k - 1
      BY <1>10
    <3>2. w.deferred[k + 1].id = Wrap(a, o + 0 + (k + 1) - 1)
      BY <3>1, <1>6 DEF Places
    <3> QED BY <3>1, <3>2, <1>2, <1>9
  <2> QED BY <2>2, <2>3, <1>6, <1>10 DEF Places
<1>b. Flight(s, v, in) = Flight(out, w, in)
  BY <1>a, <1>5 DEF Sizes
<1> QED BY <1>7, <1>8, <1>10, <1>11, <1>b DEF s

-----------------------------------------------------------------------------
\* What a step of the page does to the session's part of the invariant

LEMMA EntryFields ==
  ASSUME NEW p \in Entries
  PROVE  /\ p.id \in Ids /\ p.for \in {"public", "neutral", "restore", "bridge"}
         /\ p.fresh \in BOOLEAN
BY DEF Entries

LEMMA ShellFields ==
  ASSUME NEW sh, ShellType(sh)
  PROVE  /\ sh.next \in Ids /\ sh.pending \subseteq Entries
         /\ sh.terminal \in BOOLEAN /\ sh.failed \in BOOLEAN
         /\ sh.ingress \in BOOLEAN /\ sh.neutral \in BOOLEAN
BY DEF ShellType

LEMMA MessageFields ==
  ASSUME NEW i \in Ids, NEW op \in Kinds, NEW g \in 0..MaxReset,
         NEW q, q = Request(i, op, g)
  PROVE  q \in Messages /\ q.id = i /\ q.op = op /\ q.gen = g
BY DEF Request, Messages

\* postLower, when the line has room.
Callers == {"public", "neutral", "restore", "bridge"}
Sent(sh, for) == [id |-> sh.next, for |-> for, fresh |-> TRUE]
Sends(sh, for) == [sh EXCEPT !.next = Succ(@), !.pending = @ \cup {Sent(sh, for)}]

LEMMA SendsFields ==
  ASSUME NEW sh, ShellType(sh), NEW for \in Callers
  PROVE  /\ ShellType(Sends(sh, for))
         /\ Sends(sh, for).next = Succ(sh.next)
         /\ Sends(sh, for).pending = sh.pending \cup {Sent(sh, for)}
         /\ Sends(sh, for).terminal = sh.terminal
         /\ Sends(sh, for).failed = sh.failed
         /\ Sends(sh, for).ingress = sh.ingress
         /\ Sends(sh, for).neutral = sh.neutral
         /\ Sent(sh, for) \in Entries
         /\ Sent(sh, for).id = sh.next /\ Sent(sh, for).for = for
         /\ Sent(sh, for).fresh = TRUE
<1>1. /\ Sent(sh, for) \in Entries
      /\ Sent(sh, for).id = sh.next /\ Sent(sh, for).for = for
      /\ Sent(sh, for).fresh = TRUE
  BY ShellFields DEF Sent, Entries, Callers
<1>2. Succ(sh.next) \in Ids
  BY ShellFields, SuccId
<1> QED BY <1>1, <1>2 DEF Sends, ShellType

\* A release is posted when its fence has made every entry stale.
Fenced(sh) ==
  ~sh.ingress /\ ~sh.neutral /\ \A p \in sh.pending : ~p.fresh

MayPost(sh, w, in, for, op) ==
  /\ for \in Callers /\ op \in Kinds
  /\ op = "input" => sh.ingress
  /\ op = "reset" => w.gen < MaxReset /\ NoReset(in)
  /\ for = "neutral" => op = "neutralize" /\ Fenced(sh)
  /\ for = "restore" => /\ sh.neutral /\ ~sh.ingress
                        /\ \A p \in sh.pending : p.for # "restore"

LEMMA PostPage ==
  ASSUME NEW sh, NEW out, NEW w, NEW in, Page(sh, out, w, in), ~sh.terminal,
         Flight(out, w, in) < MaxFlight,
         NEW for, NEW op, MayPost(sh, w, in, for, op), NEW g \in 0..MaxReset,
         NEW s, s = Sends(sh, for), NEW q, q = Request(sh.next, op, g),
         NEW t, t = Append(in, q)
  PROVE  /\ Page(s, out, w, t) /\ ShellType(s) /\ ~s.terminal
         /\ s.pending = sh.pending \cup {Sent(sh, for)}
         /\ Sent(sh, for).for = for /\ Sent(sh, for).fresh
<1> DEFINE e == Sent(sh, for)
<1>1. /\ ShellType(sh) /\ Lines(out, w, in) /\ OneReset(w, in)
      /\ Order(sh, out, w, in) /\ Releases(sh, out, w, in)
  BY DEF Page
<1>2. q \in Messages /\ q.id = sh.next /\ q.op = op
  BY <1>1, ShellFields, MessageFields DEF MayPost
<1>3. /\ ShellType(s)
      /\ s.next = Succ(sh.next) /\ s.pending = sh.pending \cup {e}
      /\ s.terminal = sh.terminal
      /\ s.ingress = sh.ingress /\ s.neutral = sh.neutral
      /\ e \in Entries /\ e.id = sh.next /\ e.for = for /\ e.fresh = TRUE
  <2>1. for \in Callers
    BY DEF MayPost
  <2> HIDE DEF e
  <2>2. ShellType(sh)
    BY <1>1
  <2>3. /\ Sent(sh, for) \in Entries
        /\ Sent(sh, for).id = sh.next /\ Sent(sh, for).for = for
        /\ Sent(sh, for).fresh = TRUE
    BY <2>1, <2>2, SendsFields
  <2>4. ShellType(s) /\ s.terminal = sh.terminal
    BY <2>1, <2>2, SendsFields
  <2>5. s.ingress = sh.ingress /\ s.neutral = sh.neutral
    BY <2>1, <2>2, SendsFields
  <2>6. s.next = Succ(sh.next) /\ s.pending = sh.pending \cup {Sent(sh, for)}
    <3>1. s = [sh EXCEPT !.next = Succ(@), !.pending = @ \cup {Sent(sh, for)}]
      BY DEF Sends
    <3> QED BY <2>2, <3>1 DEF ShellType
  <2> QED BY <2>2, <2>3, <2>4, <2>5, <2>6 DEF e
<1>4. PICK a \in Ids : /\ InTurn(a, out, w, in, sh.next)
                       /\ Awaited(a, sh, Flight(out, w, in))
  BY <1>1 DEF Order
<1>5. /\ t \in Seq(Messages) /\ Len(t) = Len(in) + 1 /\ Len(in) \in Nat
      /\ \A i \in 1..Len(in) : t[i] = in[i]
      /\ t[Len(in) + 1] = q
  BY <1>1, <1>2, LineTypes, AppendProperties
<1>6. \A i \in 1..Len(t) : i \in 1..Len(in) \/ i = Len(in) + 1
  BY <1>5
<1>7. /\ Lines(out, w, t)
      /\ InTurn(a, out, w, t, s.next)
      /\ Flight(out, w, t) = Flight(out, w, in) + 1
      /\ Flight(out, w, in) \in 0..MaxFlight - 1
      /\ sh.next = Wrap(a, Flight(out, w, in))
      /\ \A k \in 1..Len(out) : out[k].id # sh.next
      /\ w.run # None => w.run.id # sh.next
      /\ \A k \in 1..Len(w.deferred) : w.deferred[k].id # sh.next
      /\ \A k \in 1..Len(in) : in[k].id # sh.next
  <2> DEFINE nx == sh.next
  <2>1. nx \in Ids
    BY <1>1, ShellFields
  <2>2. q.id = nx /\ InTurn(a, out, w, in, nx)
    BY <1>2, <1>4
  <2> HIDE DEF nx
  <2>3. /\ Lines(out, w, in) /\ q \in Messages
    BY <1>1, <1>2
  <2>4. /\ Lines(out, w, t)
        /\ InTurn(a, out, w, t, Succ(nx))
        /\ Flight(out, w, t) = Flight(out, w, in) + 1
        /\ Flight(out, w, in) \in 0..MaxFlight - 1
        /\ nx = Wrap(a, Flight(out, w, in))
    BY <2>1, <2>2, <2>3, PostLine
  <2>5. Unused(nx, out, w, in)
    BY <2>1, <2>2, <2>3, PostLine
  <2> QED BY <2>4, <2>5, <1>3 DEF nx, Unused
<1>8. \A p \in sh.pending : p.id # sh.next
  <2> SUFFICES ASSUME NEW p \in sh.pending PROVE p.id # sh.next
    OBVIOUS
  <2>1. PICK m \in 0..Flight(out, w, in) - 1 : p.id = Wrap(a, m)
    BY <1>4 DEF Awaited
  <2>2. m \in 0..MaxFlight - 1 /\ m # Flight(out, w, in)
    BY <1>7, Bounds
  <2> QED BY <2>1, <2>2, <1>7, WrapApart
<1>9. Awaited(a, s, Flight(out, w, t))
  <2>1. ASSUME NEW p \in s.pending
        PROVE  \E m \in 0..Flight(out, w, t) - 1 : p.id = Wrap(a, m)
    <3>1. CASE p \in sh.pending
      <4>1. PICK m \in 0..Flight(out, w, in) - 1 : p.id = Wrap(a, m)
        BY <3>1, <1>4 DEF Awaited
      <4>2. m \in 0..Flight(out, w, t) - 1
        BY <1>7, Bounds
      <4> QED BY <4>1, <4>2
    <3>2. CASE p = e
      <4>1. Flight(out, w, in) \in 0..Flight(out, w, t) - 1
        BY <1>7, Bounds
      <4> QED BY <4>1, <3>2, <1>3, <1>7
    <3> QED BY <3>1, <3>2, <1>3
  <2>2. \A p, r \in s.pending : p.id = r.id => p = r
    BY <1>3, <1>4, <1>8 DEF Awaited
  <2> QED BY <2>1, <2>2 DEF Awaited
<1>10. Order(s, out, w, t)
  BY <1>3, <1>7, <1>9 DEF Order
<1>11. OneReset(w, t)
  <2>1. ASSUME NEW i \in 1..Len(t), t[i].op = "reset" PROVE w.gen < MaxReset
    <3>1. CASE i \in 1..Len(in)
      BY <3>1, <2>1, <1>1, <1>5 DEF OneReset
    <3>2. CASE i = Len(in) + 1
      BY <3>2, <2>1, <1>2, <1>5 DEF MayPost
    <3> QED BY <3>1, <3>2, <1>6
  <2>2. ASSUME NEW i \in 1..Len(t), NEW j \in 1..Len(t),
               t[i].op = "reset", t[j].op = "reset"
        PROVE  i = j
    <3>1. CASE op = "reset"
      <4>1. NoReset(in)
        BY <3>1 DEF MayPost
      <4>2. i \notin 1..Len(in) /\ j \notin 1..Len(in)
        BY <4>1, <2>2, <1>5 DEF NoReset
      <4> QED BY <4>2, <1>6
    <3>2. CASE op # "reset"
      <4>1. i \in 1..Len(in) /\ j \in 1..Len(in)
        BY <3>2, <2>2, <1>2, <1>5, <1>6
      <4> QED BY <4>1, <2>2, <1>1, <1>5 DEF OneReset
    <3> QED BY <3>1, <3>2
  <2> QED BY <2>1, <2>2 DEF OneReset
<1>12. Fences(s)
  <2>1. Fences(sh)
    BY <1>1 DEF Releases
  <2>2. ASSUME NEW p \in s.pending, IsRelease(p)
        PROVE  /\ ~s.ingress /\ ~s.neutral
               /\ \A r \in s.pending : IsRelease(r) => r = p
    <3>1. CASE for = "neutral"
      <4>1. Fenced(sh)
        BY <3>1 DEF MayPost
      <4>2. \A r \in sh.pending : ~IsRelease(r)
        BY <4>1 DEF Fenced, IsRelease
      <4> QED BY <4>1, <4>2, <2>2, <1>3 DEF Fenced
    <3>2. CASE for # "neutral"
      <4>1. ~IsRelease(e)
        BY <3>2, <1>3 DEF IsRelease
      <4> QED BY <4>1, <2>1, <2>2, <1>3 DEF Fences
    <3> QED BY <3>1, <3>2
  <2>3. ASSUME NEW p \in s.pending, p.for = "restore"
        PROVE  /\ p.fresh => s.neutral /\ ~s.ingress
               /\ \A r \in s.pending : r.for = "restore" => r = p
    <3>1. CASE for = "restore"
      <4>1. /\ sh.neutral /\ ~sh.ingress
            /\ \A r \in sh.pending : r.for # "restore"
        BY <3>1 DEF MayPost
      <4> QED BY <4>1, <2>3, <1>3
    <3>2. CASE for # "restore"
      BY <3>2, <2>1, <2>3, <1>3 DEF Fences
    <3> QED BY <3>1, <3>2
  <2> QED BY <2>2, <2>3 DEF Fences
<1>13. ASSUME ~sh.ingress, NoInput(in) PROVE NoInput(t)
  BY <1>2, <1>5, <1>6, <1>13 DEF NoInput, MayPost
<1>14. ASSUME NEW p \in s.pending, IsRelease(p) PROVE Releasing(p, out, w, t)
  <2>1. CASE p \in sh.pending
    <3>1. ~sh.ingress /\ Releasing(p, out, w, in)
      BY <2>1, <1>1, <1>14 DEF Releases, Fences
    <3>2. op # "input"
      BY <3>1 DEF MayPost
    <3>3. ASSUME NEW i \in 1..Len(t), t[i].id = p.id
          PROVE  /\ t[i].op = "neutralize"
                 /\ \A j \in 1..Len(t) : i < j => t[j].op # "input"
      <4>1. i \in 1..Len(in) /\ in[i].id = p.id
        BY <3>3, <2>1, <1>2, <1>5, <1>6, <1>8
      <4>2. /\ in[i].op = "neutralize"
            /\ \A j \in 1..Len(in) : i < j => in[j].op # "input"
        BY <4>1, <3>1 DEF Releasing
      <4> QED BY <4>1, <4>2, <3>2, <1>2, <1>5, <1>6
    <3>4. ASSUME NEW i \in 1..Len(out), out[i].id = p.id, out[i].status = "OK"
          PROVE  ~w.held /\ NoInput(t)
      BY <3>1, <3>4, <1>13 DEF Releasing
    <3> QED BY <3>1, <3>3, <3>4 DEF Releasing
  <2>2. CASE p = e
    <3>1. for = "neutral" /\ p.id = sh.next
      BY <2>2, <1>3, <1>14 DEF IsRelease
    <3>2. op = "neutralize"
      BY <3>1 DEF MayPost
    <3>3. ASSUME NEW i \in 1..Len(t), t[i].id = p.id
          PROVE  /\ t[i].op = "neutralize"
                 /\ \A j \in 1..Len(t) : i < j => t[j].op # "input"
      <4>1. i = Len(in) + 1 /\ t[i].op = "neutralize"
        BY <3>1, <3>2, <3>3, <1>2, <1>5, <1>6, <1>7
      <4>2. \A j \in 1..Len(t) : ~(i < j)
        BY <4>1, <1>5
      <4> QED BY <4>1, <4>2
    <3> QED BY <3>1, <3>3, <1>7 DEF Releasing
  <2> QED BY <2>1, <2>2, <1>3, <1>14
<1>15. s.neutral /\ ~s.ingress => ~w.held /\ NoInput(t)
  BY <1>1, <1>3, <1>13 DEF Releases
<1>16. Releases(s, out, w, t)
  BY <1>12, <1>14, <1>15 DEF Releases
<1>17. Page(s, out, w, t)
  BY <1>3, <1>7, <1>10, <1>11, <1>16 DEF Page
<1> QED BY <1>3, <1>17

\* releaseInput: the fence before the release is posted.
LEMMA ReleasedPage ==
  ASSUME Page(shell, outbox, worker, inbox), ~shell.terminal
  PROVE  /\ Page(Released, outbox, worker, inbox)
         /\ Fenced(Released) /\ Released.terminal = shell.terminal
         /\ Released.next = shell.next /\ Released.failed = shell.failed
         /\ Released.pending = {[p EXCEPT !.fresh = FALSE] : p \in shell.pending}
         /\ Released.ingress = FALSE /\ Released.neutral = FALSE
<1> DEFINE stale(p) == [p EXCEPT !.fresh = FALSE]
<1>1. /\ ShellType(shell) /\ Lines(outbox, worker, inbox) /\ OneReset(worker, inbox)
      /\ Order(shell, outbox, worker, inbox)
      /\ Releases(shell, outbox, worker, inbox)
  BY DEF Page
<1>2. \A p \in shell.pending : /\ stale(p) \in Entries /\ stale(p).fresh = FALSE
                               /\ stale(p).id = p.id /\ stale(p).for = p.for
  <2> SUFFICES ASSUME NEW p \in Entries
               PROVE  /\ stale(p) \in Entries /\ stale(p).fresh = FALSE
                      /\ stale(p).id = p.id /\ stale(p).for = p.for
    BY <1>1, ShellFields
  <2> QED BY DEF Entries
<1>3. /\ Released.next = shell.next /\ Released.terminal = shell.terminal
      /\ Released.ingress = FALSE /\ Released.neutral = FALSE
      /\ Released.failed = shell.failed
      /\ Released.pending = {stale(p) : p \in shell.pending}
  BY <1>1 DEF Released, ShellType
<1>4. ShellType(Released)
  <2>1. {stale(p) : p \in shell.pending} \subseteq Entries
    BY <1>2
  <2> HIDE DEF stale
  <2>2. Released = [shell EXCEPT !.ingress = FALSE, !.neutral = FALSE,
                                 !.pending = {stale(p) : p \in shell.pending}]
    BY <1>1 DEF Released, ShellType, stale
  <2> QED BY <1>1, <2>1, <2>2 DEF ShellType
<1> HIDE DEF stale
<1>5. Fenced(Released)
  BY <1>2, <1>3 DEF Fenced
<1>6. Order(Released, outbox, worker, inbox)
  <2>1. PICK a \in Ids : /\ InTurn(a, outbox, worker, inbox, shell.next)
                         /\ Awaited(a, shell, Flight(outbox, worker, inbox))
    BY <1>1 DEF Order
  <2>2. Awaited(a, Released, Flight(outbox, worker, inbox))
    BY <2>1, <1>2, <1>3 DEF Awaited
  <2> QED BY <2>1, <2>2, <1>3 DEF Order
<1>7. Releases(Released, outbox, worker, inbox)
  <2>1. \A p \in Released.pending : ~IsRelease(p)
    BY <1>5 DEF Fenced, IsRelease
  <2>2. Fences(shell)
    BY <1>1 DEF Releases
  <2>3. Fences(Released)
    BY <2>1, <2>2, <1>2, <1>3 DEF Fences
  <2> QED BY <2>1, <2>3, <1>3 DEF Releases
<1>8. Page(Released, outbox, worker, inbox)
  BY <1>1, <1>4, <1>6, <1>7 DEF Page
<1> QED BY <1>3, <1>5, <1>8 DEF stale

\* The page takes the first reply and settles its entry.
LEMMA TakePage ==
  ASSUME NEW sh, NEW out, NEW w, NEW in, Page(sh, out, w, in), ~sh.terminal,
         out # <<>>, NEW p \in sh.pending, p.id = Head(out).id,
         NEW s, ShellType(s), s.next = sh.next, ~s.terminal,
         s.pending = sh.pending \ {p},
         \/ (s.neutral <=> sh.neutral) /\ (s.ingress <=> sh.ingress)
         \/ /\ IsRelease(p) /\ Head(out).status = "OK"
            /\ s.neutral /\ (s.ingress <=> sh.ingress)
         \/ /\ p.for = "restore" /\ p.fresh
            /\ (s.neutral <=> sh.neutral) /\ s.ingress
  PROVE  /\ Page(s, Tail(out), w, in)
         /\ Flight(Tail(out), w, in) < MaxFlight
<1>1. /\ Lines(out, w, in) /\ OneReset(w, in)
      /\ Order(sh, out, w, in) /\ Releases(sh, out, w, in) /\ Fences(sh)
  BY DEF Page, Releases
<1>2. PICK a \in Ids : /\ InTurn(a, out, w, in, sh.next)
                       /\ Awaited(a, sh, Flight(out, w, in))
  BY <1>1 DEF Order
<1>3. /\ Lines(Tail(out), w, in)
      /\ InTurn(Succ(a), Tail(out), w, in, sh.next)
      /\ Flight(Tail(out), w, in) < MaxFlight
      /\ Flight(Tail(out), w, in) = Flight(out, w, in) - 1
      /\ Flight(out, w, in) \in 1..MaxFlight
      /\ Head(out).id = Wrap(a, 0)
      /\ 1 \in 1..Len(out) /\ Head(out) = out[1]
  BY <1>1, <1>2, TakeLine
<1>4. /\ Len(Tail(out)) = Len(out) - 1 /\ Len(out) \in Nat
      /\ \A i \in 1..Len(Tail(out)) : Tail(out)[i] = out[i + 1]
  BY <1>1, LineTypes, HeadTailProperties
<1>5. Awaited(Succ(a), s, Flight(Tail(out), w, in))
  <2>1. ASSUME NEW r \in s.pending
        PROVE  \E m \in 0..Flight(Tail(out), w, in) - 1 : r.id = Wrap(Succ(a), m)
    <3>1. PICK m \in 0..Flight(out, w, in) - 1 : r.id = Wrap(a, m)
      BY <1>2 DEF Awaited
    <3>2. r \in sh.pending /\ r # p
      OBVIOUS
    <3>3. r.id # p.id
      BY <3>2, <1>2 DEF Awaited
    <3>4. m # 0
      BY <3>1, <3>3, <1>3
    <3>5. m \in 0..MaxFlight /\ m > 0 /\ m - 1 \in 0..Flight(Tail(out), w, in) - 1
      BY <3>4, <1>3, Bounds
    <3>6. r.id = Wrap(Succ(a), m - 1)
      BY <3>1, <3>5, WrapId
    <3> QED BY <3>5, <3>6
  <2>2. \A q, r \in s.pending : q.id = r.id => q = r
    BY <1>2 DEF Awaited
  <2> QED BY <2>1, <2>2 DEF Awaited
<1>6. Order(s, Tail(out), w, in)
  <2>1. Succ(a) \in Ids
    BY SuccId
  <2> QED BY <2>1, <1>3, <1>5 DEF Order
<1>7. Fences(s)
  <2>1. ASSUME NEW q \in s.pending, IsRelease(q)
        PROVE  /\ ~s.ingress /\ ~s.neutral
               /\ \A r \in s.pending : IsRelease(r) => r = q
    <3>1. q \in sh.pending /\ q # p
      OBVIOUS
    <3>2. /\ ~sh.ingress /\ ~sh.neutral
          /\ \A r \in sh.pending : IsRelease(r) => r = q
      BY <3>1, <2>1, <1>1 DEF Fences
    <3>3. ~IsRelease(p) /\ ~(p.for = "restore" /\ p.fresh)
      BY <3>1, <3>2, <1>1 DEF Fences
    <3> QED BY <3>2, <3>3
  <2>2. ASSUME NEW q \in s.pending, q.for = "restore"
        PROVE  /\ q.fresh => s.neutral /\ ~s.ingress
               /\ \A r \in s.pending : r.for = "restore" => r = q
    <3>1. q \in sh.pending /\ q # p
      OBVIOUS
    <3>2. /\ q.fresh => sh.neutral /\ ~sh.ingress
          /\ \A r \in sh.pending : r.for = "restore" => r = q
      BY <3>1, <2>2, <1>1 DEF Fences
    <3>3. p.for # "restore"
      BY <3>1, <3>2
    <3>4. q.fresh => ~IsRelease(p)
      BY <3>2, <1>1 DEF Fences
    <3> QED BY <3>2, <3>3, <3>4
  <2> QED BY <2>1, <2>2 DEF Fences
<1>8. ASSUME NEW q \in s.pending, IsRelease(q) PROVE Releasing(q, Tail(out), w, in)
  <2>1. Releasing(q, out, w, in)
    BY <1>1, <1>8 DEF Releases
  <2>2. ASSUME NEW i \in 1..Len(Tail(out)), Tail(out)[i].id = q.id,
               Tail(out)[i].status = "OK"
        PROVE  ~w.held /\ NoInput(in)
    <3>1. i + 1 \in 1..Len(out) /\ Tail(out)[i] = out[i + 1]
      BY <1>4
    <3> QED BY <3>1, <2>1, <2>2 DEF Releasing
  <2> QED BY <2>1, <2>2 DEF Releasing
<1>9. s.neutral /\ ~s.ingress => ~w.held /\ NoInput(in)
  <2>1. CASE (s.neutral <=> sh.neutral) /\ (s.ingress <=> sh.ingress)
    BY <2>1, <1>1 DEF Releases
  <2>2. CASE IsRelease(p) /\ Head(out).status = "OK"
    <3>1. Releasing(p, out, w, in)
      BY <2>2, <1>1 DEF Releases
    <3>2. out[1].id = p.id /\ out[1].status = "OK"
      BY <2>2, <1>3
    <3> QED BY <3>1, <3>2, <1>3 DEF Releasing
  <2>3. CASE s.ingress
    BY <2>3
  <2> QED BY <2>1, <2>2, <2>3
<1>10. Releases(s, Tail(out), w, in)
  BY <1>7, <1>8, <1>9 DEF Releases
<1> QED BY <1>1, <1>3, <1>6, <1>10 DEF Page

\* An entry is dropped before its reply has come.
LEMMA DropPage ==
  ASSUME NEW sh, NEW out, NEW w, NEW in, Page(sh, out, w, in), ~sh.terminal,
         NEW s, ShellType(s), s.next = sh.next, ~s.terminal,
         s.pending \subseteq sh.pending,
         s.neutral <=> sh.neutral, s.ingress <=> sh.ingress
  PROVE  Page(s, out, w, in)
<1>1. /\ Lines(out, w, in) /\ OneReset(w, in)
      /\ Order(sh, out, w, in) /\ Releases(sh, out, w, in)
  BY DEF Page
<1>2. Order(s, out, w, in)
  <2>1. PICK a \in Ids : /\ InTurn(a, out, w, in, sh.next)
                         /\ Awaited(a, sh, Flight(out, w, in))
    BY <1>1 DEF Order
  <2>2. Awaited(a, s, Flight(out, w, in))
    BY <2>1 DEF Awaited
  <2> QED BY <2>1, <2>2 DEF Order
<1>3. Fences(s)
  BY <1>1 DEF Releases, Fences
<1>4. Releases(s, out, w, in)
  BY <1>1, <1>3 DEF Releases
<1> QED BY <1>1, <1>2, <1>4 DEF Page

\* The session is over: nothing is under way and nothing is waited for.
LEMMA ClosePage ==
  ASSUME NEW w \in Workers, w.run = None, w.deferred = <<>>,
         NEW s, ShellType(s), s.terminal, s.pending = {}, ~s.neutral, ~s.ingress
  PROVE  Page(s, <<>>, w, <<>>) /\ Over(s, <<>>, w, <<>>)
<1>1. /\ <<>> \in Seq(Messages) /\ <<>> \in Seq(Responses)
      /\ Len(<<>>) = 0 /\ Len(w.deferred) = 0 /\ RunLen(w) = 0
  BY DEF RunLen
<1>2. Lines(<<>>, w, <<>>)
  <2>1. 0 + 0 + 0 + 0 <= MaxFlight /\ 0 \in Nat
    BY Bounds
  <2> QED BY <1>1, <2>1 DEF Lines
<1>3. OneReset(w, <<>>)
  BY <1>1 DEF OneReset
<1>4. Over(s, <<>>, w, <<>>)
  BY DEF Over
<1>5. Order(s, <<>>, w, <<>>)
  BY <1>4 DEF Order
<1>6. Releases(s, <<>>, w, <<>>)
  BY DEF Releases, Fences
<1> QED BY <1>2, <1>3, <1>4, <1>5, <1>6 DEF Page

-----------------------------------------------------------------------------
\* What a step of the worker does to the line the page reads

LEMMA LiveLine ==
  ASSUME NEW sh, NEW out, NEW w, NEW in, Page(sh, out, w, in),
         in # <<>> \/ w.run # None \/ w.deferred # <<>>
  PROVE  /\ ~sh.terminal
         /\ \E a \in Ids : /\ InTurn(a, out, w, in, sh.next)
                           /\ Awaited(a, sh, Flight(out, w, in))
BY DEF Page, Order, Over

\* Taking the first request leaves the rest as it was behind a release.
LEMMA TailReleasing ==
  ASSUME NEW out, NEW w, NEW in, NEW a \in Ids, NEW nx, NEW p,
         Lines(out, w, in), InTurn(a, out, w, in, nx), in # <<>>,
         Releasing(p, out, w, in)
  PROVE  /\ \A i \in 1..Len(Tail(in)) : Tail(in)[i].id = p.id =>
              /\ Tail(in)[i].op = "neutralize"
              /\ \A j \in 1..Len(Tail(in)) : i < j => Tail(in)[j].op # "input"
         /\ Head(in).id = p.id => Head(in).op = "neutralize" /\ NoInput(Tail(in))
<1>1. /\ Len(Tail(in)) = Len(in) - 1 /\ Len(in) \in Nat
      /\ \A k \in 1..Len(Tail(in)) :
           k + 1 \in 1..Len(in) /\ 1 < k + 1 /\ Tail(in)[k] = in[k + 1]
      /\ 1 \in 1..Len(in) /\ Head(in) = in[1]
  BY HeadExpected, LineTypes
<1>2. ASSUME NEW i \in 1..Len(Tail(in)), Tail(in)[i].id = p.id
      PROVE  /\ Tail(in)[i].op = "neutralize"
             /\ \A j \in 1..Len(Tail(in)) : i < j => Tail(in)[j].op # "input"
  <2>1. i + 1 \in 1..Len(in) /\ in[i + 1].id = p.id
    BY <1>1, <1>2
  <2>2. /\ in[i + 1].op = "neutralize"
        /\ \A j \in 1..Len(in) : i + 1 < j => in[j].op # "input"
    BY <2>1 DEF Releasing
  <2>3. ASSUME NEW j \in 1..Len(Tail(in)), i < j PROVE Tail(in)[j].op # "input"
    <3>1. j + 1 \in 1..Len(in) /\ i + 1 < j + 1
      BY <1>1, <2>3
    <3> QED BY <3>1, <2>2, <1>1
  <2> QED BY <2>2, <2>3, <1>1
<1>3. ASSUME Head(in).id = p.id
      PROVE  Head(in).op = "neutralize" /\ NoInput(Tail(in))
  <2>1. /\ in[1].op = "neutralize"
        /\ \A j \in 1..Len(in) : 1 < j => in[j].op # "input"
    BY <1>1, <1>3 DEF Releasing
  <2> QED BY <2>1, <1>1 DEF NoInput
<1> QED BY <1>2, <1>3

LEMMA TailNoInput ==
  ASSUME NEW out, NEW w, NEW in, NEW a \in Ids, NEW nx,
         Lines(out, w, in), InTurn(a, out, w, in, nx), in # <<>>
  PROVE  /\ NoInput(in) => NoInput(Tail(in)) /\ Head(in).op # "input"
         /\ OneReset(w, in) =>
              /\ OneReset(w, Tail(in))
              /\ Head(in).op = "reset" => NoReset(Tail(in)) /\ w.gen < MaxReset
<1>1. /\ \A k \in 1..Len(Tail(in)) :
           k + 1 \in 1..Len(in) /\ 1 # k + 1 /\ Tail(in)[k] = in[k + 1]
      /\ 1 \in 1..Len(in) /\ Head(in) = in[1]
  BY HeadExpected, LineTypes
<1>2. NoInput(in) => NoInput(Tail(in)) /\ Head(in).op # "input"
  BY <1>1 DEF NoInput
<1>3. ASSUME OneReset(w, in) PROVE OneReset(w, Tail(in))
  <2>1. ASSUME NEW i \in 1..Len(Tail(in)), Tail(in)[i].op = "reset"
        PROVE  w.gen < MaxReset
    BY <1>1, <1>3, <2>1 DEF OneReset
  <2>2. ASSUME NEW i \in 1..Len(Tail(in)), NEW j \in 1..Len(Tail(in)),
               Tail(in)[i].op = "reset", Tail(in)[j].op = "reset"
        PROVE  i = j
    <3>1. i + 1 = j + 1
      BY <1>1, <1>3, <2>2 DEF OneReset
    <3> QED BY <3>1
  <2> QED BY <2>1, <2>2 DEF OneReset
<1>4. ASSUME OneReset(w, in), Head(in).op = "reset"
      PROVE  NoReset(Tail(in)) /\ w.gen < MaxReset
  BY <1>1, <1>4 DEF OneReset, NoReset
<1> QED BY <1>2, <1>3, <1>4

\* The first request is answered.
LEMMA HandlePage ==
  ASSUME NEW sh, NEW out, NEW w, NEW in, Page(sh, out, w, in),
         w.run = None, w.deferred = <<>>, in # <<>>,
         NEW v \in Workers, v.run = None, v.deferred = <<>>,
         v.expected = Succ(w.expected),
         v.gen = w.gen \/ (Head(in).op = "reset" /\ v.gen = w.gen + 1),
         v.held => w.held \/ Head(in).op = "input",
         NEW x \in Responses, x.id = Head(in).id,
         Head(in).op = "neutralize" /\ x.status = "OK" => ~v.held
  PROVE  Page(sh, Append(out, x), v, Tail(in))
<1>1. /\ ShellType(sh) /\ Lines(out, w, in) /\ OneReset(w, in)
      /\ Releases(sh, out, w, in)
  BY DEF Page
<1>2. PICK a \in Ids : /\ InTurn(a, out, w, in, sh.next)
                       /\ Awaited(a, sh, Flight(out, w, in))
  BY LiveLine
<1>3. ~sh.terminal
  BY LiveLine
<1>4. /\ Lines(Append(out, x), v, Tail(in))
      /\ InTurn(a, Append(out, x), v, Tail(in), sh.next)
      /\ Flight(Append(out, x), v, Tail(in)) = Flight(out, w, in)
  BY <1>1, <1>2, HandleLine
<1>5. Order(sh, Append(out, x), v, Tail(in))
  BY <1>2, <1>3, <1>4 DEF Order
<1>6. /\ NoInput(in) => NoInput(Tail(in)) /\ Head(in).op # "input"
      /\ OneReset(w, Tail(in))
      /\ Head(in).op = "reset" => NoReset(Tail(in))
  BY <1>1, <1>2, TailNoInput
<1>7. OneReset(v, Tail(in))
  BY <1>6 DEF OneReset, NoReset
<1>8. /\ Len(Append(out, x)) = Len(out) + 1 /\ Len(out) \in Nat
      /\ \A i \in 1..Len(out) : Append(out, x)[i] = out[i]
      /\ Append(out, x)[Len(out) + 1] = x
  BY <1>1, LineTypes, AppendProperties
<1>9. \A i \in 1..Len(Append(out, x)) : i \in 1..Len(out) \/ i = Len(out) + 1
  BY <1>8
<1>10. ASSUME NEW p \in sh.pending, IsRelease(p)
       PROVE  Releasing(p, Append(out, x), v, Tail(in))
  <2>1. Releasing(p, out, w, in)
    BY <1>1, <1>10 DEF Releases
  <2>2. /\ \A i \in 1..Len(Tail(in)) : Tail(in)[i].id = p.id =>
             /\ Tail(in)[i].op = "neutralize"
             /\ \A j \in 1..Len(Tail(in)) : i < j => Tail(in)[j].op # "input"
        /\ Head(in).id = p.id => Head(in).op = "neutralize" /\ NoInput(Tail(in))
    BY <2>1, <1>1, <1>2, TailReleasing
  <2>3. ASSUME NEW i \in 1..Len(Append(out, x)), Append(out, x)[i].id = p.id,
               Append(out, x)[i].status = "OK"
        PROVE  ~v.held /\ NoInput(Tail(in))
    <3>1. CASE i \in 1..Len(out)
      <4>1. ~w.held /\ NoInput(in)
        BY <3>1, <2>1, <2>3, <1>8 DEF Releasing
      <4> QED BY <4>1, <1>6
    <3>2. CASE i = Len(out) + 1
      BY <3>2, <2>2, <2>3, <1>8
    <3> QED BY <3>1, <3>2, <1>9
  <2>4. \A k \in 1..Len(v.deferred) : v.deferred[k].id # p.id
    OBVIOUS
  <2> QED BY <2>2, <2>3, <2>4 DEF Releasing
<1>11. sh.neutral /\ ~sh.ingress => ~v.held /\ NoInput(Tail(in))
  BY <1>1, <1>6 DEF Releases
<1>12. Releases(sh, Append(out, x), v, Tail(in))
  BY <1>1, <1>10, <1>11 DEF Releases
<1> QED BY <1>1, <1>4, <1>5, <1>7, <1>12 DEF Page

\* The first request, a run, becomes the slice.
LEMMA BeginPage ==
  ASSUME NEW sh, NEW out, NEW w, NEW in, Page(sh, out, w, in),
         w.run = None, w.deferred = <<>>, in # <<>>, Head(in).op = "run",
         NEW v \in Workers, v.run # None, v.run.id = Head(in).id,
         v.deferred = <<>>, v.expected = Succ(w.expected),
         v.gen = w.gen, v.held <=> w.held
  PROVE  Page(sh, out, v, Tail(in))
<1>1. /\ ShellType(sh) /\ Lines(out, w, in) /\ OneReset(w, in)
      /\ Releases(sh, out, w, in)
  BY DEF Page
<1>2. PICK a \in Ids : /\ InTurn(a, out, w, in, sh.next)
                       /\ Awaited(a, sh, Flight(out, w, in))
  BY LiveLine
<1>3. ~sh.terminal
  BY LiveLine
<1>4. /\ Lines(out, v, Tail(in))
      /\ InTurn(a, out, v, Tail(in), sh.next)
      /\ Flight(out, v, Tail(in)) = Flight(out, w, in)
  BY <1>1, <1>2, BeginLine
<1>5. Order(sh, out, v, Tail(in))
  BY <1>2, <1>3, <1>4 DEF Order
<1>6. /\ NoInput(in) => NoInput(Tail(in))
      /\ OneReset(w, Tail(in))
  BY <1>1, <1>2, TailNoInput
<1>7. OneReset(v, Tail(in))
  BY <1>6 DEF OneReset
<1>8. ASSUME NEW p \in sh.pending, IsRelease(p)
      PROVE  Releasing(p, out, v, Tail(in))
  <2>1. Releasing(p, out, w, in)
    BY <1>1, <1>8 DEF Releases
  <2>2. /\ \A i \in 1..Len(Tail(in)) : Tail(in)[i].id = p.id =>
             /\ Tail(in)[i].op = "neutralize"
             /\ \A j \in 1..Len(Tail(in)) : i < j => Tail(in)[j].op # "input"
        /\ Head(in).id = p.id => Head(in).op = "neutralize"
    BY <2>1, <1>1, <1>2, TailReleasing
  <2>3. \A k \in 1..Len(v.deferred) : v.deferred[k].id # p.id
    OBVIOUS
  <2>4. v.run.id # p.id
    BY <2>2
  <2>5. \A i \in 1..Len(out) : out[i].id = p.id /\ out[i].status = "OK" =>
          ~v.held /\ NoInput(Tail(in))
    BY <2>1, <1>6 DEF Releasing
  <2> QED BY <2>2, <2>3, <2>4, <2>5 DEF Releasing
<1>9. sh.neutral /\ ~sh.ingress => ~v.held /\ NoInput(Tail(in))
  BY <1>1, <1>6 DEF Releases
<1>10. Releases(sh, out, v, Tail(in))
  BY <1>1, <1>8, <1>9 DEF Releases
<1> QED BY <1>1, <1>4, <1>5, <1>7, <1>10 DEF Page

\* The first request, a control, is captured under the slice.
LEMMA CapturePage ==
  ASSUME NEW sh, NEW out, NEW w, NEW in, Page(sh, out, w, in),
         w.run # None, in # <<>>, Head(in) \in Deferrals,
         NEW v \in Workers, v.run = w.run,
         v.deferred = Append(w.deferred, Head(in)),
         v.expected = Succ(w.expected),
         v.gen = w.gen, v.held <=> w.held
  PROVE  Page(sh, out, v, Tail(in))
<1>1. /\ ShellType(sh) /\ Lines(out, w, in) /\ OneReset(w, in)
      /\ Releases(sh, out, w, in)
  BY DEF Page
<1>2. PICK a \in Ids : /\ InTurn(a, out, w, in, sh.next)
                       /\ Awaited(a, sh, Flight(out, w, in))
  BY LiveLine
<1>3. ~sh.terminal
  BY LiveLine
<1>4. /\ Lines(out, v, Tail(in))
      /\ InTurn(a, out, v, Tail(in), sh.next)
      /\ Flight(out, v, Tail(in)) = Flight(out, w, in)
  BY <1>1, <1>2, CaptureLine
<1>5. Order(sh, out, v, Tail(in))
  BY <1>2, <1>3, <1>4 DEF Order
<1>6. /\ NoInput(in) => NoInput(Tail(in))
      /\ OneReset(w, Tail(in))
  BY <1>1, <1>2, TailNoInput
<1>7. OneReset(v, Tail(in))
  BY <1>6 DEF OneReset
<1>8. /\ Len(v.deferred) = Len(w.deferred) + 1 /\ Len(w.deferred) \in Nat
      /\ \A k \in 1..Len(w.deferred) : v.deferred[k] = w.deferred[k]
      /\ v.deferred[Len(w.deferred) + 1] = Head(in)
  BY <1>1, LineTypes, AppendProperties
<1>9. \A k \in 1..Len(v.deferred) : k \in 1..Len(w.deferred) \/ k = Len(w.deferred) + 1
  BY <1>8
<1>10. ASSUME NEW p \in sh.pending, IsRelease(p)
       PROVE  Releasing(p, out, v, Tail(in))
  <2>1. Releasing(p, out, w, in)
    BY <1>1, <1>10 DEF Releases
  <2>2. /\ \A i \in 1..Len(Tail(in)) : Tail(in)[i].id = p.id =>
             /\ Tail(in)[i].op = "neutralize"
             /\ \A j \in 1..Len(Tail(in)) : i < j => Tail(in)[j].op # "input"
        /\ Head(in).id = p.id => Head(in).op = "neutralize"
    BY <2>1, <1>1, <1>2, TailReleasing
  <2>3. Head(in).id # p.id
    BY <2>2 DEF Deferrals, Controls
  <2>4. ASSUME NEW k \in 1..Len(v.deferred) PROVE v.deferred[k].id # p.id
    <3>1. CASE k \in 1..Len(w.deferred)
      BY <3>1, <2>1, <1>8 DEF Releasing
    <3>2. CASE k = Len(w.deferred) + 1
      BY <3>2, <2>3, <1>8
    <3> QED BY <3>1, <3>2, <1>9
  <2>5. v.run.id # p.id
    BY <2>1 DEF Releasing
  <2>6. \A i \in 1..Len(out) : out[i].id = p.id /\ out[i].status = "OK" =>
          ~v.held /\ NoInput(Tail(in))
    BY <2>1, <1>6 DEF Releasing
  <2> QED BY <2>2, <2>4, <2>5, <2>6 DEF Releasing
<1>11. sh.neutral /\ ~sh.ingress => ~v.held /\ NoInput(Tail(in))
  BY <1>1, <1>6 DEF Releases
<1>12. Releases(sh, out, v, Tail(in))
  BY <1>1, <1>10, <1>11 DEF Releases
<1> QED BY <1>1, <1>4, <1>5, <1>7, <1>12 DEF Page

\* A reply to something other than a release changes nothing for one.
LEMMA RepliedReleasing ==
  ASSUME NEW out \in Seq(Responses), NEW w, NEW in, NEW p, Releasing(p, out, w, in),
         NEW x \in Responses, x.id # p.id, NEW v, v.held => w.held,
         v.run # None => v.run.id # p.id,
         \A k \in 1..Len(v.deferred) : v.deferred[k].id # p.id
  PROVE  Releasing(p, Append(out, x), v, in)
<1>1. /\ Len(Append(out, x)) = Len(out) + 1 /\ Len(out) \in Nat
      /\ \A i \in 1..Len(out) : Append(out, x)[i] = out[i]
      /\ Append(out, x)[Len(out) + 1] = x
  BY AppendProperties
<1>2. ASSUME NEW i \in 1..Len(Append(out, x)), Append(out, x)[i].id = p.id,
             Append(out, x)[i].status = "OK"
      PROVE  ~v.held /\ NoInput(in)
  <2>1. i \in 1..Len(out) \/ i = Len(out) + 1
    BY <1>1
  <2>2. i \in 1..Len(out)
    BY <2>1, <1>1, <1>2
  <2> QED BY <2>2, <1>1, <1>2 DEF Releasing
<1> QED BY <1>2 DEF Releasing

\* The slice is answered.
LEMMA FinishPage ==
  ASSUME NEW sh, NEW out, NEW w, NEW in, Page(sh, out, w, in), w.run # None,
         NEW v \in Workers, v.run = None, v.deferred = w.deferred,
         v.expected = w.expected, v.gen = w.gen, v.held <=> w.held,
         NEW x \in Responses, x.id = w.run.id
  PROVE  Page(sh, Append(out, x), v, in)
<1>1. /\ ShellType(sh) /\ Lines(out, w, in) /\ OneReset(w, in)
      /\ Releases(sh, out, w, in) /\ out \in Seq(Responses)
  BY LineTypes DEF Page
<1>2. PICK a \in Ids : /\ InTurn(a, out, w, in, sh.next)
                       /\ Awaited(a, sh, Flight(out, w, in))
  BY LiveLine
<1>3. ~sh.terminal
  BY LiveLine
<1>4. /\ Lines(Append(out, x), v, in)
      /\ InTurn(a, Append(out, x), v, in, sh.next)
      /\ Flight(Append(out, x), v, in) = Flight(out, w, in)
  BY <1>1, <1>2, FinishLine
<1>5. Order(sh, Append(out, x), v, in)
  BY <1>2, <1>3, <1>4 DEF Order
<1>6. OneReset(v, in)
  BY <1>1 DEF OneReset
<1>7. ASSUME NEW p \in sh.pending, IsRelease(p)
      PROVE  Releasing(p, Append(out, x), v, in)
  <2>1. Releasing(p, out, w, in)
    BY <1>1, <1>7 DEF Releases
  <2>2. /\ x.id # p.id
        /\ \A k \in 1..Len(v.deferred) : v.deferred[k].id # p.id
    BY <2>1 DEF Releasing
  <2> QED BY <2>1, <2>2, <1>1, RepliedReleasing
<1>8. Releases(sh, Append(out, x), v, in)
  BY <1>1, <1>7 DEF Releases
<1> QED BY <1>1, <1>4, <1>5, <1>6, <1>8 DEF Page

\* A deferred control is answered; it neither opens nor resets anything.
LEMMA ApplyPage ==
  ASSUME NEW sh, NEW out, NEW w, NEW in, Page(sh, out, w, in),
         w.run = None, w.deferred # <<>>,
         NEW v \in Workers, v.run = None, v.deferred = Tail(w.deferred),
         v.expected = w.expected, v.gen = w.gen, v.held <=> w.held,
         NEW x \in Responses, x.id = Head(w.deferred).id
  PROVE  Page(sh, Append(out, x), v, in)
<1>1. /\ ShellType(sh) /\ Lines(out, w, in) /\ OneReset(w, in)
      /\ Releases(sh, out, w, in) /\ out \in Seq(Responses)
      /\ w.deferred \in Seq(Deferrals)
  BY LineTypes DEF Page
<1>2. PICK a \in Ids : /\ InTurn(a, out, w, in, sh.next)
                       /\ Awaited(a, sh, Flight(out, w, in))
  BY LiveLine
<1>3. ~sh.terminal
  BY LiveLine
<1>4. /\ Lines(Append(out, x), v, in)
      /\ InTurn(a, Append(out, x), v, in, sh.next)
      /\ Flight(Append(out, x), v, in) = Flight(out, w, in)
  BY <1>1, <1>2, ApplyLine
<1>5. Order(sh, Append(out, x), v, in)
  BY <1>2, <1>3, <1>4 DEF Order
<1>6. OneReset(v, in)
  BY <1>1 DEF OneReset
<1>7. /\ Len(w.deferred) \in Nat \ {0} /\ Head(w.deferred) = w.deferred[1]
      /\ Len(v.deferred) = Len(w.deferred) - 1
      /\ \A k \in 1..Len(v.deferred) : v.deferred[k] = w.deferred[k + 1]
  BY <1>1, HeadTailProperties, EmptySeq
<1>8. 1 \in 1..Len(w.deferred) /\ \A k \in 1..Len(v.deferred) : k + 1 \in 1..Len(w.deferred)
  BY <1>7
<1>9. ASSUME NEW p \in sh.pending, IsRelease(p)
      PROVE  Releasing(p, Append(out, x), v, in)
  <2>1. Releasing(p, out, w, in)
    BY <1>1, <1>9 DEF Releases
  <2>2. x.id # p.id
    BY <2>1, <1>7, <1>8 DEF Releasing
  <2>3. \A k \in 1..Len(v.deferred) : v.deferred[k].id # p.id
    BY <2>1, <1>7, <1>8 DEF Releasing
  <2> QED BY <2>1, <2>2, <2>3, <1>1, RepliedReleasing
<1>10. Releases(sh, Append(out, x), v, in)
  BY <1>1, <1>9 DEF Releases
<1> QED BY <1>1, <1>4, <1>5, <1>6, <1>10 DEF Page

-----------------------------------------------------------------------------
\* What an answer does to the worker

LEMMA WorkerFields ==
  ASSUME NEW w \in Workers
  PROVE  /\ w.life \in {"RUNNING", "WAITING", "STOPPED", "FAILED", "PAUSED"}
         /\ w.hidden \in BOOLEAN /\ w.core \in BOOLEAN /\ w.held \in BOOLEAN
         /\ w.host \in {"none", "asked", "failed"} /\ w.gen \in 0..MaxReset
         /\ w.run \in {None} \cup Slices(Ids)
         /\ w.deferred \in Seq(Deferrals) /\ w.expected \in Ids
BY DEF Workers

\* The scheduler's part of the worker, which no request touches.
SameTurn(v, w) ==
  v.run = w.run /\ v.deferred = w.deferred /\ v.expected = w.expected

LEMMA PausedWorker ==
  ASSUME NEW w \in Workers
  PROVE  /\ Paused(w) \in Workers /\ SameTurn(Paused(w), w)
         /\ Paused(w).life \notin {"RUNNING", "WAITING"}
         /\ Paused(w).gen = w.gen /\ (Paused(w).held <=> w.held)
BY DEF Paused, Workers, SameTurn, Moving

LEMMA WokenWorker ==
  ASSUME NEW w \in Workers
  PROVE  /\ Woken(w) \in Workers /\ SameTurn(Woken(w), w)
         /\ w.life \notin {"RUNNING", "WAITING"} =>
              Woken(w).life \notin {"RUNNING", "WAITING"}
         /\ Woken(w).gen = w.gen /\ (Woken(w).held <=> w.held)
BY DEF Woken, Workers, SameTurn

\* Only input makes the worker hold, only a reset counts, and only a start or
\* a boot leaves a halted guest other than halted.
Effective(v, w, op) ==
  /\ v \in Workers /\ SameTurn(v, w)
  /\ v.gen = w.gen \/ (op = "reset" /\ v.gen = w.gen + 1)
  /\ v.held => w.held \/ op = "input"
  /\ op \notin InputOps => (v.held <=> w.held)
  /\ op = "neutralize" => ~v.held
  /\ op # "start" /\ w.life \notin {"RUNNING", "WAITING"} =>
       v.life \notin {"RUNNING", "WAITING"}
  /\ op \in {"pause", "hide", "stop"} => v.life \notin {"RUNNING", "WAITING"}

LEMMA EffectWorker ==
  ASSUME NEW w \in Workers, NEW q \in Messages, q.op = "reset" => w.gen < MaxReset
  PROVE  Effective(Effect(w, q), w, q.op)
<1>1. CASE q.op = "input"
  <2>1. Effect(w, q) = [w EXCEPT !.held = TRUE]
    BY <1>1 DEF Effect
  <2> QED BY <1>1, <2>1 DEF Effective, Workers, SameTurn, InputOps
<1>2. CASE q.op = "neutralize"
  <2>1. Effect(w, q) = [w EXCEPT !.held = FALSE]
    BY <1>2 DEF Effect
  <2> QED BY <1>2, <2>1 DEF Effective, Workers, SameTurn, InputOps
<1>3. CASE q.op = "start"
  <2>1. Effect(w, q) = [w EXCEPT !.life = "RUNNING"]
    BY <1>3 DEF Effect
  <2> QED BY <1>3, <2>1 DEF Effective, Workers, SameTurn, InputOps
<1>4. CASE q.op = "pause"
  <2>1. Effect(w, q) = Paused(w)
    BY <1>4 DEF Effect
  <2> QED BY <1>4, <2>1, PausedWorker DEF Effective, InputOps
<1>5. CASE q.op = "show"
  <2>1. Effect(w, q) = [w EXCEPT !.hidden = FALSE]
    BY <1>5 DEF Effect
  <2> QED BY <1>5, <2>1 DEF Effective, Workers, SameTurn, InputOps
<1>6. CASE q.op = "hide"
  <2> DEFINE u == [w EXCEPT !.hidden = TRUE]
  <2>1. Effect(w, q) = Paused(u)
    BY <1>6 DEF Effect
  <2>2. u \in Workers /\ SameTurn(u, w) /\ u.gen = w.gen /\ (u.held <=> w.held)
    BY DEF Workers, SameTurn
  <2> HIDE DEF u
  <2>3. /\ Paused(u) \in Workers /\ SameTurn(Paused(u), u)
        /\ Paused(u).life \notin {"RUNNING", "WAITING"}
        /\ Paused(u).gen = u.gen /\ (Paused(u).held <=> u.held)
    BY <2>2, PausedWorker
  <2> QED BY <1>6, <2>1, <2>2, <2>3 DEF Effective, InputOps, SameTurn
<1>7. CASE q.op = "stop"
  <2>1. Effect(w, q) = [w EXCEPT !.life = "STOPPED"]
    BY <1>7 DEF Effect
  <2> QED BY <1>7, <2>1 DEF Effective, Workers, SameTurn, InputOps
<1>8. CASE q.op = "reset"
  <2>1. Effect(w, q) = [w EXCEPT !.core = FALSE, !.host = "none", !.gen = @ + 1]
    BY <1>8 DEF Effect
  <2>2. w.gen + 1 \in 0..MaxReset
    BY <1>8, WorkerFields, Bounds
  <2>3. [w EXCEPT !.core = FALSE, !.host = "none", !.gen = @ + 1].gen = w.gen + 1
    BY DEF Workers
  <2> QED BY <1>8, <2>1, <2>2, <2>3 DEF Effective, Workers, SameTurn, InputOps
<1>9. CASE q.op = "boot"
  <2>1. Effect(w, q) = [w EXCEPT !.core = TRUE, !.life = "PAUSED"]
    BY <1>9 DEF Effect
  <2> QED BY <1>9, <2>1 DEF Effective, Workers, SameTurn, InputOps
<1>10. ASSUME q.op \in {"complete", "fail"}, NEW h \in {"none", "failed"},
              Effect(w, q) = Woken([w EXCEPT !.host = h])
       PROVE  Effective(Effect(w, q), w, q.op)
  <2> DEFINE u == [w EXCEPT !.host = h]
  <2>1. /\ u \in Workers /\ SameTurn(u, w) /\ u.gen = w.gen /\ (u.held <=> w.held)
        /\ u.life = w.life
    BY DEF Workers, SameTurn
  <2>2. Effect(w, q) = Woken(u)
    BY <1>10
  <2> HIDE DEF u
  <2>3. /\ Woken(u) \in Workers /\ SameTurn(Woken(u), u)
        /\ u.life \notin {"RUNNING", "WAITING"} =>
             Woken(u).life \notin {"RUNNING", "WAITING"}
        /\ Woken(u).gen = u.gen /\ (Woken(u).held <=> u.held)
    BY <2>1, WokenWorker
  <2> QED BY <1>10, <2>1, <2>2, <2>3 DEF Effective, InputOps, SameTurn
<1>11. CASE q.op = "complete"
  <2>1. Effect(w, q) = Woken([w EXCEPT !.host = "none"])
    BY <1>11 DEF Effect
  <2> QED BY <1>10, <1>11, <2>1
<1>12. CASE q.op = "fail"
  <2>1. Effect(w, q) = Woken([w EXCEPT !.host = "failed"])
    BY <1>12 DEF Effect
  <2> QED BY <1>10, <1>12, <2>1
<1>13. CASE q.op \in {"run", "display", "next"}
  <2>1. Effect(w, q) = w
    BY <1>13 DEF Effect
  <2> QED BY <1>13, <2>1 DEF Effective, SameTurn, InputOps
<1>14. q.op \in PublicOps \cup {"neutralize", "display", "next", "complete", "fail"}
  BY DEF Messages, Kinds
<1> QED BY <1>1, <1>2, <1>3, <1>4, <1>5, <1>6, <1>7, <1>8, <1>9, <1>11, <1>12,
           <1>13, <1>14 DEF PublicOps

\* The same of an answer, whether the request was accepted or not.
LEMMA AnswerWorker ==
  ASSUME NEW w \in Workers, NEW q \in Messages, q.op = "reset" => w.gen < MaxReset,
         NEW v, NEW st, v = Answer(w, q).w, st = Answer(w, q).status
  PROVE  /\ v \in Workers /\ SameTurn(v, w) /\ st \in {"OK", "NOTREADY"}
         /\ v.gen = w.gen \/ (q.op = "reset" /\ v.gen = w.gen + 1)
         /\ v.held => w.held \/ q.op = "input"
         /\ q.op \notin InputOps => (v.held <=> w.held)
         /\ q.op = "neutralize" /\ st = "OK" => ~v.held
         /\ \A ba \in BOOLEAN : Halts(w, ba) => Halts(v, Barred(ba, q, st))
<1>1. CASE Accepts(w, q)
  <2>1. v = Effect(w, q) /\ st = "OK"
    BY <1>1 DEF Answer
  <2>2. Effective(v, w, q.op)
    BY <2>1, EffectWorker
  <2>3. ASSUME NEW ba \in BOOLEAN, Halts(w, ba) PROVE Halts(v, Barred(ba, q, st))
    BY <2>1, <2>2, <2>3 DEF Effective, Halts, Barred
  <2> QED BY <2>1, <2>2, <2>3 DEF Effective
<1>2. CASE ~Accepts(w, q)
  <2>1. v = w /\ st = "NOTREADY"
    BY <1>2 DEF Answer
  <2> QED BY <2>1 DEF SameTurn, Halts, Barred
<1> QED BY <1>1, <1>2

-----------------------------------------------------------------------------
\* The steps of the worker

\* What the line and the halting promise become in a step of the worker.
Lasting ==
  /\ Page(shell, outbox', worker', inbox')
  /\ Halts(worker', barred') /\ barred' \in BOOLEAN

LEMMA PageTypes ==
  ASSUME SInv
  PROVE  /\ Page(shell, outbox, worker, inbox) /\ Lines(outbox, worker, inbox)
         /\ ShellType(shell) /\ OneReset(worker, inbox)
         /\ worker \in Workers /\ inbox \in Seq(Messages)
         /\ outbox \in Seq(Responses) /\ barred \in BOOLEAN
         /\ Halts(worker, barred)
BY LineTypes DEF SInv, Page

LEMMA ReplyType ==
  ASSUME worker \in Workers, NEW q, q.id \in Ids, NEW st \in Statuses
  PROVE  Reply(q, st) \in Responses /\ Reply(q, st).id = q.id /\ Reply(q, st).status = st
BY WorkerFields DEF Reply, Responses

\* The first request is the expected one.
LEMMA FirstRequest ==
  ASSUME SInv, inbox # <<>>
  PROVE  /\ Head(inbox) \in Messages /\ Head(inbox).id = worker.expected
         /\ Head(inbox) = inbox[1] /\ 1 \in 1..Len(inbox)
         /\ Head(inbox).op = "reset" => worker.gen < MaxReset
         /\ \A k \in 1..Len(inbox) : inbox[k].id = worker.expected => k = 1
<1>1. Lines(outbox, worker, inbox) /\ OneReset(worker, inbox)
  BY PageTypes
<1>2. PICK a \in Ids : InTurn(a, outbox, worker, inbox, shell.next)
  BY LiveLine, PageTypes
<1>3. /\ Head(inbox) \in Messages /\ Head(inbox).id = worker.expected
      /\ Head(inbox) = inbox[1] /\ 1 \in 1..Len(inbox)
      /\ \A k \in 1..Len(inbox) : inbox[k].id = worker.expected => k = 1
  BY <1>1, <1>2, HeadExpected
<1> QED BY <1>1, <1>3 DEF OneReset

\* The worker that has taken the first request into its turn.
Known == [worker EXCEPT !.expected = Succ(worker.expected)]

LEMMA KnownWorker ==
  ASSUME worker \in Workers
  PROVE  /\ Known \in Workers /\ Known.expected = Succ(worker.expected)
         /\ Known.run = worker.run /\ Known.deferred = worker.deferred
         /\ Known.gen = worker.gen /\ Known.held = worker.held
         /\ Known.life = worker.life
BY SuccId DEF Known, Workers

LEMMA HandleStep ==
  ASSUME SInv, NEW faulty, Handle(faulty)
  PROVE  Lasting /\ worker'.run = None
<1> DEFINE q == Head(inbox)
<1>1. worker.run = None /\ worker.deferred = <<>> /\ inbox # <<>>
  BY DEF Handle, Free
<1>2. q \in Messages /\ q.id = worker.expected /\ (q.op = "reset" => worker.gen < MaxReset)
  BY <1>1, FirstRequest
<1>3. /\ worker \in Workers /\ Page(shell, outbox, worker, inbox)
      /\ barred \in BOOLEAN /\ Halts(worker, barred)
  BY PageTypes
<1>4. /\ Known \in Workers /\ Known.expected = Succ(worker.expected)
      /\ Known.run = worker.run /\ Known.deferred = worker.deferred
      /\ Known.gen = worker.gen /\ Known.held = worker.held
      /\ Known.life = worker.life
  BY <1>3, KnownWorker
<1>5. PICK x \in Answers(q, faulty) :
        /\ worker' = x.w
        /\ outbox' = Append(outbox, Reply(q, x.status))
        /\ barred' = Barred(barred, q, x.status)
  BY DEF Handle
<1>6. inbox' = Tail(inbox)
  BY DEF Handle
<1> HIDE DEF q
<1>7. \/ x.w = Answer(Known, q).w /\ x.status = Answer(Known, q).status
      \/ x.w = Known /\ x.status = "REFUSED"
  BY <1>2, <1>5 DEF Answers, Known
<1>8. /\ worker' \in Workers /\ SameTurn(worker', Known)
      /\ x.status \in {"OK", "NOTREADY", "REFUSED"}
      /\ worker'.gen = worker.gen \/ (q.op = "reset" /\ worker'.gen = worker.gen + 1)
      /\ worker'.held => worker.held \/ q.op = "input"
      /\ q.op = "neutralize" /\ x.status = "OK" => ~worker'.held
      /\ Halts(worker', barred')
  <2>1. Halts(Known, barred)
    BY <1>3, <1>4 DEF Halts
  <2>2. CASE x.w = Answer(Known, q).w /\ x.status = Answer(Known, q).status
    <3>1. /\ x.w \in Workers /\ SameTurn(x.w, Known) /\ x.status \in {"OK", "NOTREADY"}
          /\ x.w.gen = Known.gen \/ (q.op = "reset" /\ x.w.gen = Known.gen + 1)
          /\ x.w.held => Known.held \/ q.op = "input"
          /\ q.op = "neutralize" /\ x.status = "OK" => ~x.w.held
          /\ \A ba \in BOOLEAN : Halts(Known, ba) => Halts(x.w, Barred(ba, q, x.status))
      BY <2>2, <1>2, <1>4, AnswerWorker
    <3> QED BY <3>1, <2>1, <1>3, <1>4, <1>5
  <2>3. CASE x.w = Known /\ x.status = "REFUSED"
    <3>1. Barred(barred, q, x.status) = barred
      BY <2>3 DEF Barred
    <3> QED BY <3>1, <2>1, <2>3, <1>4, <1>5 DEF SameTurn
  <2> QED BY <2>2, <2>3, <1>7
<1>9. /\ Reply(q, x.status) \in Responses /\ Reply(q, x.status).id = q.id
      /\ Reply(q, x.status).status = x.status
  <2>1. q.id \in Ids /\ x.status \in Statuses
    BY <1>2, <1>8 DEF Messages, Statuses
  <2> QED BY <2>1, <1>3, ReplyType
<1>10. /\ Page(shell, Append(outbox, Reply(q, x.status)), worker', Tail(inbox))
       /\ worker'.run = None
  <2>1. /\ worker'.run = None /\ worker'.deferred = <<>>
        /\ worker'.expected = Succ(worker.expected)
    BY <1>1, <1>4, <1>8 DEF SameTurn
  <2> QED BY <2>1, <1>1, <1>3, <1>8, <1>9, HandlePage DEF q
<1>11. barred' \in BOOLEAN
  BY <1>3, <1>5 DEF Barred
<1> QED BY <1>5, <1>6, <1>8, <1>10, <1>11 DEF Lasting

LEMMA BeginStep ==
  ASSUME SInv, BeginRun
  PROVE  Lasting
<1> DEFINE q == Head(inbox)
<1>1. /\ worker.run = None /\ worker.deferred = <<>> /\ inbox # <<>>
      /\ q.op = "run" /\ inbox' = Tail(inbox) /\ barred' = barred
  BY DEF BeginRun, Free
<1>2. q \in Messages /\ q.id \in Ids
  BY <1>1, FirstRequest DEF Messages
<1>3. /\ worker \in Workers /\ Page(shell, outbox, worker, inbox)
      /\ barred \in BOOLEAN /\ Halts(worker, barred)
  BY PageTypes
<1>4. /\ Known \in Workers /\ Known.expected = Succ(worker.expected)
      /\ Known.run = worker.run /\ Known.deferred = worker.deferred
      /\ Known.gen = worker.gen /\ Known.held = worker.held
      /\ Known.life = worker.life
  BY <1>3, KnownWorker
<1>5. CASE worker' = Known /\ outbox' = Append(outbox, Reply(q, "NOTREADY"))
  <2>1. /\ Reply(q, "NOTREADY") \in Responses /\ Reply(q, "NOTREADY").id = q.id
        /\ Reply(q, "NOTREADY").status = "NOTREADY"
    BY <1>2, <1>3, ReplyType DEF Statuses
  <2> HIDE DEF q
  <2>2. Page(shell, Append(outbox, Reply(q, "NOTREADY")), worker', Tail(inbox))
    BY <2>1, <1>1, <1>3, <1>4, <1>5, HandlePage DEF q
  <2>3. Halts(worker', barred')
    BY <1>1, <1>3, <1>4, <1>5 DEF Halts
  <2> QED BY <2>2, <2>3, <1>1, <1>3, <1>5 DEF Lasting
<1>6. ASSUME Runnable(worker), outbox' = outbox, NEW st \in SliceEnds(worker),
             worker' = [Known EXCEPT
                          !.run = [id |-> q.id, status |-> st],
                          !.life = IF st = "WAITING" THEN "WAITING" ELSE @,
                          !.host = IF st = "WAITING" THEN "asked" ELSE @]
      PROVE  Lasting
  <2> DEFINE slice == [id |-> q.id, status |-> st]
  <2>1. st \in {"OK", "WAITING", "FAILED"}
    BY <1>6 DEF SliceEnds
  <2>2. slice \in Slices(Ids) /\ slice.id = q.id
    BY <1>2, <2>1 DEF Slices
  <2>3. slice # None
    BY <2>2, NoneAssumption DEF Ids
  <2> HIDE DEF slice, q
  <2>4. worker' = [Known EXCEPT
                     !.run = slice,
                     !.life = IF st = "WAITING" THEN "WAITING" ELSE @,
                     !.host = IF st = "WAITING" THEN "asked" ELSE @]
    BY <1>6 DEF slice
  <2>5. /\ worker' \in Workers /\ worker'.run = slice
        /\ worker'.deferred = Known.deferred /\ worker'.expected = Known.expected
        /\ worker'.gen = Known.gen /\ worker'.held = Known.held
    BY <2>2, <2>4, <1>4 DEF Workers
  <2>6. Page(shell, outbox, worker', Tail(inbox))
    BY <2>2, <2>3, <2>5, <1>1, <1>3, <1>4, BeginPage DEF q
  <2>7. ~barred
    BY <1>3, <1>6 DEF Halts, Runnable
  <2> QED BY <2>6, <2>7, <1>1, <1>3, <1>6 DEF Lasting, Halts
<1> QED BY <1>5, <1>6 DEF BeginRun, Known

LEMMA RemoveHead ==
  ASSUME NEW S, NEW s \in Seq(S), s # <<>>
  PROVE  RemoveAt(s, 1) = Tail(s)
<1>1. Len(s) \in Nat \ {0}
  BY EmptySeq
<1>2. SubSeq(s, 1, 1 - 1) = <<>>
  BY <1>1, SubSeqEmpty
<1>3. SubSeq(s, 1 + 1, Len(s)) = Tail(s)
  BY <1>1, TailIsSubSeq
<1>4. Tail(s) \in Seq(S)
  BY HeadTailProperties
<1>5. <<>> \o Tail(s) = Tail(s)
  BY <1>4, ConcatEmptySeq
<1> QED BY <1>2, <1>3, <1>5 DEF RemoveAt

LEMMA CaptureStep ==
  ASSUME SInv, Capture
  PROVE  Lasting
<1>1. PICK i \in DOMAIN inbox :
        /\ Captured(inbox[i])
        /\ inbox' = RemoveAt(inbox, i)
        /\ worker' = [worker EXCEPT !.deferred = Append(@, inbox[i]),
                                    !.expected = Succ(@)]
  BY DEF Capture
<1>2. /\ worker \in Workers /\ Page(shell, outbox, worker, inbox)
      /\ barred \in BOOLEAN /\ Halts(worker, barred) /\ inbox \in Seq(Messages)
  BY PageTypes
<1>3. /\ worker.run # None /\ outbox' = outbox /\ barred' = barred
  BY DEF Capture
<1>4. DOMAIN inbox = 1..Len(inbox)
  BY <1>2
<1>5. inbox # <<>>
  BY <1>4
<1>6. /\ i = 1 /\ inbox[i] = Head(inbox) /\ Head(inbox) \in Messages
  BY <1>1, <1>4, <1>5, FirstRequest DEF Captured
<1>7. Head(inbox) \in Deferrals
  BY <1>1, <1>6 DEF Captured, Deferrals
<1>8. inbox' = Tail(inbox)
  BY <1>1, <1>2, <1>5, <1>6, RemoveHead
<1>9. /\ worker' \in Workers /\ worker'.run = worker.run
      /\ worker'.deferred = Append(worker.deferred, Head(inbox))
      /\ worker'.expected = Succ(worker.expected)
      /\ worker'.gen = worker.gen /\ worker'.held = worker.held
      /\ worker'.life = worker.life
  <2>1. Append(worker.deferred, Head(inbox)) \in Seq(Deferrals)
    BY <1>2, <1>7, WorkerFields, AppendProperties
  <2>2. Succ(worker.expected) \in Ids
    BY <1>2, WorkerFields, SuccId
  <2>3. worker' = [worker EXCEPT !.deferred = Append(worker.deferred, Head(inbox)),
                                 !.expected = Succ(worker.expected)]
    BY <1>1, <1>6
  <2> QED BY <2>1, <2>2, <2>3, <1>2 DEF Workers
<1>10. Page(shell, outbox, worker', Tail(inbox))
  BY <1>2, <1>3, <1>5, <1>7, <1>9, CapturePage
<1> QED BY <1>2, <1>3, <1>8, <1>9, <1>10 DEF Lasting, Halts

LEMMA FinishStep ==
  ASSUME SInv, FinishRun
  PROVE  Lasting /\ worker'.run = None
<1>1. /\ worker \in Workers /\ Page(shell, outbox, worker, inbox)
      /\ barred \in BOOLEAN /\ Halts(worker, barred)
  BY PageTypes
<1>2. /\ worker.run # None /\ inbox' = inbox /\ barred' = barred
      /\ worker' = [worker EXCEPT !.run = None,
                      !.life = IF worker.run.status = "FAILED" THEN "FAILED" ELSE @]
      /\ outbox' = Append(outbox, Reply(worker.run, worker.run.status))
  BY DEF FinishRun
<1>3. worker.run \in Slices(Ids)
  BY <1>1, <1>2, WorkerFields
<1>4. worker.run.id \in Ids /\ worker.run.status \in Statuses
  BY <1>3 DEF Slices, Statuses
<1>5. /\ Reply(worker.run, worker.run.status) \in Responses
      /\ Reply(worker.run, worker.run.status).id = worker.run.id
  BY <1>1, <1>4, ReplyType
<1>6. /\ worker' \in Workers /\ worker'.run = None
      /\ worker'.deferred = worker.deferred /\ worker'.expected = worker.expected
      /\ worker'.gen = worker.gen /\ worker'.held = worker.held
      /\ worker'.life \in {"FAILED", worker.life}
  BY <1>1, <1>2 DEF Workers
<1>7. Page(shell, outbox', worker', inbox)
  BY <1>1, <1>2, <1>5, <1>6, FinishPage
<1>8. Halts(worker', barred')
  BY <1>1, <1>2, <1>6 DEF Halts
<1> QED BY <1>1, <1>2, <1>6, <1>7, <1>8 DEF Lasting

LEMMA ApplyStep ==
  ASSUME SInv, ApplyDeferred
  PROVE  Lasting /\ worker'.run = None
<1> DEFINE q == Head(worker.deferred)
           u == [worker EXCEPT !.deferred = Tail(@)]
           x == Answer(u, q)
<1>1. /\ worker \in Workers /\ Page(shell, outbox, worker, inbox)
      /\ barred \in BOOLEAN /\ Halts(worker, barred)
  BY PageTypes
<1>2. /\ worker.run = None /\ worker.deferred # <<>> /\ inbox' = inbox
      /\ worker' = x.w /\ outbox' = Append(outbox, Reply(q, x.status))
      /\ barred' = Barred(barred, q, x.status)
  BY DEF ApplyDeferred
<1>3. /\ Tail(worker.deferred) \in Seq(Deferrals) /\ q \in Deferrals
  BY <1>1, <1>2, WorkerFields, HeadTailProperties
<1>4. /\ u \in Workers /\ u.run = worker.run /\ u.deferred = Tail(worker.deferred)
      /\ u.expected = worker.expected /\ u.gen = worker.gen /\ u.held = worker.held
      /\ u.life = worker.life
  BY <1>1, <1>3 DEF Workers
<1>5. q \in Messages /\ q.op \in Controls /\ q.id \in Ids
  BY <1>3 DEF Deferrals, Messages
<1> HIDE DEF q, u
<1>6. /\ worker' \in Workers /\ SameTurn(worker', u) /\ x.status \in {"OK", "NOTREADY"}
      /\ worker'.gen = u.gen \/ (q.op = "reset" /\ worker'.gen = u.gen + 1)
      /\ q.op \notin InputOps => (worker'.held <=> u.held)
      /\ \A ba \in BOOLEAN : Halts(u, ba) => Halts(worker', Barred(ba, q, x.status))
  <2>1. q.op # "reset"
    BY <1>5 DEF Controls
  <2> QED BY <2>1, <1>2, <1>4, <1>5, AnswerWorker
<1>7. worker'.gen = worker.gen /\ (worker'.held <=> worker.held)
  BY <1>4, <1>5, <1>6 DEF Controls, InputOps
<1>8. /\ Reply(q, x.status) \in Responses /\ Reply(q, x.status).id = q.id
  <2>1. x.status \in Statuses
    BY <1>6 DEF Statuses
  <2> QED BY <2>1, <1>1, <1>5, ReplyType
<1>9. Halts(worker', barred')
  <2>1. Halts(u, barred)
    BY <1>1, <1>4 DEF Halts
  <2> QED BY <2>1, <1>1, <1>2, <1>6
<1>10. /\ Page(shell, Append(outbox, Reply(q, x.status)), worker', inbox)
       /\ worker'.run = None
  <2>1. /\ worker'.run = None /\ worker'.deferred = Tail(worker.deferred)
        /\ worker'.expected = worker.expected
    BY <1>2, <1>4, <1>6 DEF SameTurn
  <2> HIDE DEF x
  <2> QED BY <2>1, <1>1, <1>2, <1>6, <1>7, <1>8, ApplyPage DEF q
<1>11. barred' \in BOOLEAN
  BY <1>1, <1>2 DEF Barred
<1> QED BY <1>2, <1>9, <1>10, <1>11 DEF Lasting

-----------------------------------------------------------------------------
\* The application's FIFO

LEMMA Begun ==
  ASSUME NEW P, P \subseteq Entries, NEW t, Alone(P, t),
         t = <<>> \/ Head(t).pc = "queued"
  PROVE  \A p \in P : p.for = "neutral"
BY EntryFields DEF Alone, HeadAt

\* Nothing but releases is left when the one other entry is settled.
LEMMA LeftOver ==
  ASSUME NEW P, P \subseteq Entries, NEW t, Alone(P, t),
         NEW p \in P, p.for # "neutral"
  PROVE  \A q \in P \ {p} : q.for = "neutral"
BY DEF Alone

LEMMA AloneFewer ==
  ASSUME NEW P, NEW t, Alone(P, t), NEW Q, Q \subseteq P
  PROVE  Alone(Q, t)
BY DEF Alone

\* An operation is queued.
LEMMA AloneQueue ==
  ASSUME NEW P, NEW t \in Seq(Operations), Alone(P, t),
         NEW x \in Operations, x.pc = "queued"
  PROVE  Alone(P, Append(t, x)) /\ Append(t, x) \in Seq(Operations)
         /\ Len(Append(t, x)) = Len(t) + 1
<1> DEFINE u == Append(t, x)
<1>1. /\ u \in Seq(Operations) /\ Len(u) = Len(t) + 1 /\ Len(t) \in Nat
      /\ \A i \in 1..Len(t) : u[i] = t[i]
      /\ u[Len(t) + 1] = x
  BY AppendProperties
<1>2. u # <<>> /\ Head(u) = u[1]
  BY <1>1, EmptySeq
<1>3. t # <<>> => Head(u) = Head(t)
  <2> SUFFICES ASSUME t # <<>> PROVE Head(u) = Head(t)
    OBVIOUS
  <2>1. Len(t) \in Nat \ {0} /\ Head(t) = t[1]
    BY EmptySeq
  <2>2. 1 \in 1..Len(t)
    BY <2>1
  <2> QED BY <2>1, <2>2, <1>1, <1>2
<1>4. t = <<>> => Head(u) = x
  BY <1>1, <1>2, EmptySeq
<1> HIDE DEF u
<1>5. \A i \in 2..Len(u) : u[i].pc = "queued"
  <2> SUFFICES ASSUME NEW i \in 2..Len(u) PROVE u[i].pc = "queued"
    OBVIOUS
  <2>1. i \in 2..Len(t) \/ i = Len(t) + 1
    BY <1>1
  <2>2. i \in 2..Len(t) => u[i] = t[i]
    BY <1>1
  <2> QED BY <2>1, <2>2, <1>1 DEF Alone
<1>6. \A p \in P : p.for \in {"public", "restore"} => t # <<>>
  BY DEF Alone, HeadAt
<1>7. HeadAt(u, "restore") => Head(u).op = "resume"
  BY <1>3, <1>4 DEF Alone, HeadAt
<1>8. Alone(P, u)
  BY <1>2, <1>3, <1>5, <1>6, <1>7 DEF Alone, HeadAt
<1> QED BY <1>1, <1>8 DEF u

\* A fence makes what is pending and what is queued stale alike.
StaleEntries(P) == {[p EXCEPT !.fresh = FALSE] : p \in P}
StaleTail(t) == [i \in DOMAIN t |-> [t[i] EXCEPT !.fresh = FALSE]]

LEMMA AloneFence ==
  ASSUME NEW P, NEW t \in Seq(Operations), Alone(P, t), P \subseteq Entries,
         NEW Q, Q = StaleEntries(P), NEW u, u = StaleTail(t)
  PROVE  u \in Seq(Operations) /\ Len(u) = Len(t) /\ Alone(Q, u)
<1>a. u = [i \in DOMAIN t |-> [t[i] EXCEPT !.fresh = FALSE]]
  BY DEF StaleTail
<1>b. \A q \in Q : \E p \in P : q = [p EXCEPT !.fresh = FALSE]
  BY DEF StaleEntries
<1>1. /\ Len(t) \in Nat /\ DOMAIN t = 1..Len(t)
      /\ \A i \in 1..Len(t) : t[i] \in Operations
  OBVIOUS
<1>2. ASSUME NEW o \in Operations
      PROVE  /\ [o EXCEPT !.fresh = FALSE] \in Operations
             /\ [o EXCEPT !.fresh = FALSE].pc = o.pc
             /\ [o EXCEPT !.fresh = FALSE].op = o.op
             /\ [o EXCEPT !.fresh = FALSE].fresh = FALSE
  BY DEF Operations
<1>3. ASSUME NEW p \in P
      PROVE  /\ [p EXCEPT !.fresh = FALSE].for = p.for
             /\ [p EXCEPT !.fresh = FALSE].fresh = FALSE
  <2>1. p \in Entries
    OBVIOUS
  <2> QED BY <2>1 DEF Entries
<1>4. \A i \in 1..Len(t) : /\ u[i] \in Operations /\ u[i].pc = t[i].pc
                           /\ u[i].op = t[i].op /\ u[i].fresh = FALSE
  <2> SUFFICES ASSUME NEW i \in 1..Len(t)
               PROVE  /\ u[i] \in Operations /\ u[i].pc = t[i].pc
                      /\ u[i].op = t[i].op /\ u[i].fresh = FALSE
    OBVIOUS
  <2>1. u[i] = [t[i] EXCEPT !.fresh = FALSE]
    BY <1>1, <1>a
  <2> QED BY <2>1, <1>1, <1>2
<1>5. u \in Seq(Operations) /\ Len(u) = Len(t)
  BY <1>1, <1>4, <1>a
<1>6. t # <<>> => /\ u # <<>> /\ 1 \in 1..Len(t)
                  /\ Head(u) = u[1] /\ Head(t) = t[1]
  <2> SUFFICES ASSUME t # <<>>
               PROVE  /\ u # <<>> /\ 1 \in 1..Len(t)
                      /\ Head(u) = u[1] /\ Head(t) = t[1]
    OBVIOUS
  <2>1. Len(t) \in Nat \ {0}
    BY EmptySeq
  <2>2. u # <<>>
    BY <2>1, <1>5
  <2> QED BY <2>1, <2>2, <1>5
<1>7. u # <<>> => t # <<>>
  <2>1. t = <<>> => Len(u) = 0
    BY <1>5
  <2> QED BY <2>1, <1>5, EmptySeq
<1>8. ASSUME t # <<>>
      PROVE  /\ Head(u).pc = Head(t).pc /\ Head(u).op = Head(t).op
             /\ Head(u).fresh = FALSE /\ u # <<>>
  BY <1>4, <1>6, <1>8
<1>9. ASSUME NEW q \in Q
      PROVE  /\ q.for # "bridge"
             /\ q.for = "public" => HeadAt(u, "lower")
             /\ q.for = "restore" =>
                  HeadAt(u, "restore") /\ (Head(u).fresh <=> q.fresh)
  <2>1. PICK p \in P : q = [p EXCEPT !.fresh = FALSE]
    BY <1>b
  <2>2. q.for = p.for /\ q.fresh = FALSE
    BY <2>1, <1>3
  <2>3. /\ p.for # "bridge"
        /\ p.for = "public" => HeadAt(t, "lower")
        /\ p.for = "restore" => HeadAt(t, "restore")
    BY DEF Alone
  <2> QED BY <2>2, <2>3, <1>8 DEF HeadAt
<1>10. ASSUME NEW q \in Q, NEW r \in Q, q.for # "neutral", r.for # "neutral"
       PROVE  q = r
  <2>1. PICK p \in P : q = [p EXCEPT !.fresh = FALSE]
    BY <1>b
  <2>2. PICK s \in P : r = [s EXCEPT !.fresh = FALSE]
    BY <1>b
  <2>3. p.for # "neutral" /\ s.for # "neutral"
    BY <2>1, <2>2, <1>3, <1>10
  <2>4. p = s
    BY <2>3 DEF Alone
  <2> QED BY <2>1, <2>2, <2>4
<1>11. \A i \in 2..Len(u) : u[i].pc = "queued"
  <2> SUFFICES ASSUME NEW i \in 2..Len(u) PROVE u[i].pc = "queued"
    OBVIOUS
  <2>1. i \in 1..Len(t) /\ i \in 2..Len(t)
    BY <1>5
  <2> QED BY <2>1, <1>4 DEF Alone
<1>12. HeadAt(u, "restore") => Head(u).op = "resume"
  BY <1>7, <1>8 DEF HeadAt, Alone
<1>13. Alone(Q, u)
  BY <1>9, <1>10, <1>11, <1>12 DEF Alone
<1> QED BY <1>5, <1>13

\* A release joins what is pending.
LEMMA AloneRelease ==
  ASSUME NEW P, NEW t, Alone(P, t), NEW e, e.for = "neutral"
  PROVE  Alone(P \cup {e}, t)
BY DEF Alone

\* The first operation is done with.
LEMMA AloneDrop ==
  ASSUME NEW P, NEW t \in Seq(Operations), Alone(P, t), t # <<>>,
         NEW Q, \A q \in Q : q.for = "neutral"
  PROVE  Tail(t) \in Seq(Operations) /\ Len(Tail(t)) < Len(t) /\ Alone(Q, Tail(t))
<1> DEFINE u == Tail(t)
<1>1. /\ u \in Seq(Operations) /\ Len(u) = Len(t) - 1 /\ Len(t) \in Nat
      /\ \A i \in 1..Len(u) : u[i] = t[i + 1]
  BY HeadTailProperties
<1>2. u # <<>> => Head(u) = u[1] /\ Len(u) \in Nat \ {0}
  BY <1>1, EmptySeq
<1> HIDE DEF u
<1>3. \A i \in 1..Len(u) : u[i].pc = "queued"
  <2> SUFFICES ASSUME NEW i \in 1..Len(u) PROVE u[i].pc = "queued"
    OBVIOUS
  <2>1. i + 1 \in 2..Len(t) /\ u[i] = t[i + 1]
    BY <1>1
  <2> QED BY <2>1 DEF Alone
<1>4. u # <<>> => Head(u).pc = "queued"
  <2> SUFFICES ASSUME u # <<>> PROVE Head(u).pc = "queued"
    OBVIOUS
  <2>1. 1 \in 1..Len(u)
    BY <1>2
  <2> QED BY <2>1, <1>2, <1>3
<1>5. \A i \in 2..Len(u) : u[i].pc = "queued"
  BY <1>3
<1>6. Alone(Q, u)
  BY <1>4, <1>5 DEF Alone, HeadAt
<1> QED BY <1>1, <1>6 DEF u

\* The first operation moves on and waits for the entry e.
LEMMA AloneMove ==
  ASSUME NEW P, NEW t \in Seq(Operations), Alone(P, t), t # <<>>,
         NEW Q, \A q \in Q : q.for = "neutral",
         NEW e, NEW pc \in {"restore", "lower"},
         \/ e.for = "public" /\ pc = "lower"
         \/ /\ e.for = "restore" /\ pc = "restore" /\ e.fresh /\ Head(t).fresh
            /\ Head(t).op = "resume",
         NEW u, u = <<[Head(t) EXCEPT !.pc = pc]>> \o Tail(t)
  PROVE  u \in Seq(Operations) /\ Len(u) = Len(t) /\ Alone(Q \cup {e}, u)
<1> DEFINE h == [Head(t) EXCEPT !.pc = pc]
<1>1. /\ Tail(t) \in Seq(Operations) /\ Head(t) \in Operations
      /\ Len(Tail(t)) = Len(t) - 1 /\ Len(t) \in Nat \ {0}
      /\ \A i \in 1..Len(Tail(t)) : Tail(t)[i] = t[i + 1]
  BY HeadTailProperties, EmptySeq
<1>2. h \in Operations /\ h.pc = pc /\ h.op = Head(t).op /\ (h.fresh <=> Head(t).fresh)
  BY <1>1 DEF Operations
<1> HIDE DEF h
<1>3. <<h>> \in Seq(Operations) /\ Len(<<h>>) = 1 /\ <<h>>[1] = h
  BY <1>2
<1>4. /\ u \in Seq(Operations) /\ Len(u) = 1 + Len(Tail(t))
      /\ \A i \in 1..Len(u) :
           u[i] = IF i <= 1 THEN <<h>>[i] ELSE Tail(t)[i - 1]
  <2>1. u = <<h>> \o Tail(t)
    BY DEF h
  <2> QED BY <2>1, <1>1, <1>3, ConcatProperties
<1>5. Len(u) = Len(t) /\ u # <<>>
  BY <1>1, <1>4
<1>6. Head(u) = h
  <2>1. Head(u) = u[1] /\ 1 \in 1..Len(u)
    BY <1>1, <1>4, <1>5
  <2> QED BY <2>1, <1>3, <1>4
<1>7. \A i \in 2..Len(u) : u[i].pc = "queued"
  <2> SUFFICES ASSUME NEW i \in 2..Len(u) PROVE u[i].pc = "queued"
    OBVIOUS
  <2>1. /\ i \in 1..Len(u) /\ ~(i <= 1) /\ i - 1 \in 1..Len(Tail(t))
        /\ (i - 1) + 1 = i /\ i \in 2..Len(t)
    BY <1>1, <1>4, <1>5
  <2>2. u[i] = t[i]
    BY <2>1, <1>1, <1>4
  <2> QED BY <2>1, <2>2 DEF Alone
<1>8. HeadAt(u, "restore") => Head(u).op = "resume"
  BY <1>2, <1>6 DEF HeadAt
<1>9. Alone(Q \cup {e}, u)
  BY <1>2, <1>5, <1>6, <1>7, <1>8 DEF Alone, HeadAt
<1> QED BY <1>4, <1>5, <1>9

-----------------------------------------------------------------------------
\* The steps of the page

\* What a step leaves true of everything but the application.
Onward ==
  /\ env' = env /\ crossed' \in BOOLEAN /\ barred' \in BOOLEAN
  /\ BridgeType(bridge') /\ Page(shell', outbox', worker', inbox')
  /\ Halts(worker', barred')

LEMMA Onwards ==
  ASSUME SInv, Onward, AppType(app'), Shape(env, shell', bridge', app')
  PROVE  SInv'
BY DEF SInv, Onward

LEMMA DriverOnwards ==
  ASSUME SInv, Onward, env.client # "app", app' = app
  PROVE  SInv'
BY DEF SInv, Onward, Shape

LEMMA Parts ==
  ASSUME SInv
  PROVE  /\ env \in Sessions /\ crossed \in BOOLEAN /\ barred \in BOOLEAN
         /\ BridgeType(bridge) /\ AppType(app) /\ Halts(worker, barred)
         /\ Page(shell, outbox, worker, inbox) /\ Shape(env, shell, bridge, app)
         /\ ShellType(shell) /\ shell.pending \subseteq Entries
         /\ Lines(outbox, worker, inbox)
BY ShellFields DEF SInv, Page

LEMMA SessionFields ==
  ASSUME SInv
  PROVE  env.client \in {"app", "driver"} /\ env.ops \subseteq PublicOps
BY QueueAssumption DEF SInv

LEMMA BridgeFields ==
  ASSUME NEW br, BridgeType(br)
  PROVE  br.gen \in 0..MaxReset
BY DEF BridgeType

LEMMA NextBridge ==
  ASSUME NEW br, BridgeType(br),
         NEW ph \in {"idle", "next", "serve", "complete", "failing"}
  PROVE  BridgeType([br EXCEPT !.phase = ph])
BY DEF BridgeType

LEMMA IdleBridge == BridgeType(Idle)
BY Bounds DEF BridgeType, Idle

\* The bound of the model is on what the line holds.
LEMMA FlightIs ==
  ASSUME SInv
  PROVE  InFlight = Flight(outbox, worker, inbox)
<1>1. Lines(outbox, worker, inbox)
  BY Parts
<1>2. /\ Len(outbox) \in Nat /\ RunLen(worker) \in Nat
      /\ Len(worker.deferred) \in Nat /\ Len(inbox) \in Nat
      /\ Flight(outbox, worker, inbox)
           = Len(outbox) + RunLen(worker) + Len(worker.deferred) + Len(inbox)
  BY <1>1, LineLengths
<1>3. InFlight = Len(inbox) + Len(outbox) + Len(worker.deferred) + RunLen(worker)
  BY DEF InFlight, RunLen
<1> DEFINE o == Len(outbox)
           r == RunLen(worker)
           d == Len(worker.deferred)
           n == Len(inbox)
<1>4. /\ o \in Nat /\ r \in Nat /\ d \in Nat /\ n \in Nat
      /\ Flight(outbox, worker, inbox) = o + r + d + n
      /\ InFlight = n + o + d + r
  BY <1>2, <1>3
<1> HIDE DEF o, r, d, n
<1> QED BY <1>4

LEMMA RoomIs ==
  ASSUME SInv, Room
  PROVE  Flight(outbox, worker, inbox) < MaxFlight
<1>1. Flight(outbox, worker, inbox) \in Int
  BY Parts, LineLengths
<1> QED BY <1>1, FlightIs, Bounds DEF Room

\* A caller posts while the replies that are left are out.
LEMMA PostStep ==
  ASSUME NEW sh, NEW out, Page(sh, out, worker, inbox), ~sh.terminal,
         Flight(out, worker, inbox) < MaxFlight,
         NEW for, NEW op, MayPost(sh, worker, inbox, for, op), NEW g \in 0..MaxReset,
         Post(sh, for, op, g)
  PROVE  /\ Page(shell', out, worker, inbox')
         /\ ShellType(shell') /\ ~shell'.terminal
         /\ shell'.pending = sh.pending \cup {Sent(sh, for)}
         /\ Sent(sh, for).for = for /\ Sent(sh, for).fresh
<1> DEFINE q == Request(sh.next, op, g)
<1>1. shell' = Sends(sh, for) /\ inbox' = Append(inbox, q)
  BY DEF Post, Sends, Sent
<1>2. q = Request(sh.next, op, g)
  OBVIOUS
<1> HIDE DEF q
<1>3. Page(shell', out, worker, inbox')
  BY <1>1, <1>2, PostPage
<1>4. ShellType(shell') /\ ~shell'.terminal
  BY <1>1, <1>2, PostPage
<1>5. shell'.pending = sh.pending \cup {Sent(sh, for)}
  BY <1>1, <1>2, PostPage
<1>6. Sent(sh, for).for = for /\ Sent(sh, for).fresh
  BY <1>1, <1>2, PostPage
<1> QED BY <1>3, <1>4, <1>5, <1>6

LEMMA SubmitStep ==
  ASSUME SInv, Submit
  PROVE  SInv'
<1>1. PICK op \in env.ops : /\ op = "input" => shell.ingress
                            /\ op = "reset" => MayReset
                            /\ Post(shell, "public", op, 0)
  BY DEF Submit
<1>2. /\ env.client # "app" /\ ~shell.terminal /\ Room
      /\ UNCHANGED <<outbox, worker, barred, bridge, app, env, crossed>>
  BY DEF Submit, Live
<1>3. op \in Kinds
  BY SessionFields DEF Kinds
<1>4. op = "reset" => worker.gen < MaxReset /\ NoReset(inbox)
  <2>1. DOMAIN inbox = 1..Len(inbox)
    BY Parts, LineTypes
  <2> QED BY <2>1, <1>1 DEF MayReset, NoReset
<1>5. MayPost(shell, worker, inbox, "public", op)
  BY <1>1, <1>3, <1>4 DEF MayPost, Callers
<1>6. Page(shell', outbox, worker, inbox')
  BY <1>1, <1>2, <1>5, Parts, Bounds, RoomIs, PostStep
<1>7. Onward
  BY <1>2, <1>6, Parts DEF Onward
<1> QED BY <1>2, <1>7, DriverOnwards

LEMMA ReleaseStep ==
  ASSUME SInv, Release
  PROVE  SInv'
<1>1. /\ env.client # "app" /\ ~shell.terminal /\ Room
      /\ Post(Released, "neutral", "neutralize", 0)
      /\ UNCHANGED <<outbox, worker, barred, bridge, app, env, crossed>>
  BY DEF Release, Live
<1>2. /\ Page(Released, outbox, worker, inbox) /\ Fenced(Released)
      /\ ~Released.terminal
  BY <1>1, Parts, ReleasedPage
<1>3. MayPost(Released, worker, inbox, "neutral", "neutralize")
  BY <1>2 DEF MayPost, Callers, Kinds
<1>4. Page(shell', outbox, worker, inbox')
  BY <1>1, <1>2, <1>3, Bounds, RoomIs, PostStep
<1>5. Onward
  BY <1>1, <1>4, Parts DEF Onward
<1> QED BY <1>1, <1>5, DriverOnwards

LEMMA RestoreStep ==
  ASSUME SInv, Restore
  PROVE  SInv'
<1>1. /\ env.client # "app" /\ ~shell.terminal /\ Room /\ Restorable
      /\ Post(shell, "restore", "display", 0)
      /\ UNCHANGED <<outbox, worker, barred, bridge, app, env, crossed>>
  BY DEF Restore, Live
<1>2. MayPost(shell, worker, inbox, "restore", "display")
  BY <1>1 DEF MayPost, Callers, Kinds, Restorable
<1>3. Page(shell', outbox, worker, inbox')
  BY <1>1, <1>2, Parts, Bounds, RoomIs, PostStep
<1>4. Onward
  BY <1>1, <1>3, Parts DEF Onward
<1> QED BY <1>1, <1>4, DriverOnwards

LEMMA TerminatedWorker ==
  /\ [Booted EXCEPT !.life = "STOPPED", !.core = FALSE] \in Workers
  /\ [Booted EXCEPT !.life = "STOPPED", !.core = FALSE].run = None
  /\ [Booted EXCEPT !.life = "STOPPED", !.core = FALSE].deferred = <<>>
  /\ Booted \in Workers /\ Booted.run = None /\ Booted.deferred = <<>>
  /\ Booted.expected = 0 /\ Booted.held = FALSE
<1>1. <<>> \in Seq(Deferrals)
  OBVIOUS
<1> QED BY <1>1, Bounds DEF Booted, Workers

LEMMA CloseStep ==
  ASSUME SInv, NEW phase \in {"STOPPED", "FAILED"}, NEW reason \in Reasons,
         Close(phase, reason)
  PROVE  SInv'
<1>1. /\ shell' = [shell EXCEPT !.terminal = TRUE, !.failed = TRUE, !.ingress = FALSE,
                                !.neutral = FALSE, !.pending = {}]
      /\ bridge' = Idle /\ env' = env /\ crossed' = crossed
      /\ app' = IF env.client = "app"
                  THEN [phase |-> phase, reason |-> reason, input |-> FALSE, tail |-> <<>>]
                  ELSE app
      /\ inbox' = <<>> /\ outbox' = <<>> /\ barred' = FALSE
      /\ worker' = [Booted EXCEPT !.life = "STOPPED", !.core = FALSE]
  BY DEF Close, Terminated, Rejected
<1>2. /\ ShellType(shell') /\ shell'.terminal /\ shell'.pending = {}
      /\ ~shell'.neutral /\ ~shell'.ingress
  BY <1>1, Parts DEF ShellType
<1>3. worker' \in Workers /\ worker'.run = None /\ worker'.deferred = <<>>
  BY <1>1, TerminatedWorker
<1>4. Page(shell', <<>>, worker', <<>>)
  BY <1>2, <1>3, ClosePage
<1>5. Onward
  BY <1>1, <1>4, Parts, IdleBridge DEF Onward, Halts
<1>6. CASE env.client = "app"
  <2>1. app' = [phase |-> phase, reason |-> reason, input |-> FALSE, tail |-> <<>>]
    BY <1>1, <1>6
  <2>2. AppType(app')
    <3>1. <<>> \in Seq(Operations) /\ Len(<<>>) <= MaxQueue
      BY Bounds
    <3> QED BY <2>1, <3>1 DEF AppType
  <2>3. Alone({}, <<>>)
    BY DEF Alone, HeadAt
  <2>4. Shape(env, shell', bridge', app')
    BY <1>1, <1>2, <1>6, <2>1, <2>3 DEF Shape
  <2> QED BY <1>5, <2>2, <2>4, Onwards
<1>7. CASE env.client # "app"
  BY <1>1, <1>5, <1>7, DriverOnwards
<1> QED BY <1>6, <1>7

LEMMA LoseStep ==
  ASSUME SInv, Lose
  PROVE  SInv'
BY CloseStep DEF Lose, Reasons

LEMMA StopStep ==
  ASSUME SInv, Stop
  PROVE  SInv'
BY CloseStep DEF Stop, Reasons

LEMMA ResumeOutsideStep ==
  ASSUME SInv, ResumeOutsidePaused
  PROVE  SInv'
BY CloseStep DEF ResumeOutsidePaused, Reasons

\* What is left of the shell when an entry is settled.
LEMMA WithoutFields ==
  ASSUME ShellType(shell), NEW p \in shell.pending
  PROVE  /\ ShellType(Without(p)) /\ Without(p).next = shell.next
         /\ Without(p).pending = shell.pending \ {p}
         /\ Without(p).terminal = shell.terminal
         /\ Without(p).neutral = shell.neutral /\ Without(p).ingress = shell.ingress
BY DEF Without, ShellType

LEMMA DroppedPage ==
  ASSUME SInv, Live, NEW p \in shell.pending
  PROVE  Page(Without(p), outbox, worker, inbox) /\ ~Without(p).terminal
<1>1. /\ Page(shell, outbox, worker, inbox) /\ ShellType(shell) /\ ~shell.terminal
  BY Parts DEF Live
<1>2. /\ ShellType(Without(p)) /\ Without(p).next = shell.next
      /\ Without(p).pending = shell.pending \ {p}
      /\ ~Without(p).terminal
      /\ (Without(p).neutral <=> shell.neutral)
      /\ (Without(p).ingress <=> shell.ingress)
  BY <1>1, WithoutFields
<1> HIDE DEF Without
<1>3. Without(p).pending \subseteq shell.pending
  BY <1>2
<1> QED BY <1>1, <1>2, <1>3, DropPage

\* The first reply settles the entry p and leaves the shell sh.
LEMMA SettledPage ==
  ASSUME SInv, NEW kind, NEW p \in shell.pending, Settles(p, kind),
         NEW sh, ShellType(sh), sh.next = shell.next, ~sh.terminal,
         sh.pending = shell.pending \ {p},
         \/ (sh.neutral <=> shell.neutral) /\ (sh.ingress <=> shell.ingress)
         \/ /\ IsRelease(p) /\ Head(outbox).status = "OK"
            /\ sh.neutral /\ (sh.ingress <=> shell.ingress)
         \/ /\ p.for = "restore" /\ p.fresh
            /\ (sh.neutral <=> shell.neutral) /\ sh.ingress
  PROVE  /\ Page(sh, Tail(outbox), worker, inbox)
         /\ Flight(Tail(outbox), worker, inbox) < MaxFlight
<1>1. /\ outbox # <<>> /\ ~shell.terminal /\ p.id = Head(outbox).id
      /\ Page(shell, outbox, worker, inbox)
  BY Parts DEF Settles, Live
<1> QED BY <1>1, TakePage

LEMMA SettledWithout ==
  ASSUME SInv, NEW kind, NEW p \in shell.pending, Settles(p, kind)
  PROVE  /\ Page(Without(p), Tail(outbox), worker, inbox) /\ ~Without(p).terminal
         /\ Flight(Tail(outbox), worker, inbox) < MaxFlight
<1>1. ShellType(shell) /\ ~shell.terminal
  BY Parts DEF Settles, Live
<1>2. /\ ShellType(Without(p)) /\ Without(p).next = shell.next
      /\ Without(p).pending = shell.pending \ {p}
      /\ ~Without(p).terminal
      /\ (Without(p).neutral <=> shell.neutral)
      /\ (Without(p).ingress <=> shell.ingress)
  BY <1>1, WithoutFields
<1> HIDE DEF Without
<1> QED BY <1>2, SettledPage

\* A step that leaves the worker alone and only takes away what is pending.
LEMMA FewerOnwards ==
  ASSUME SInv, Live, Onward, ~shell'.terminal, shell'.pending \subseteq shell.pending,
         bridge' = bridge, app' = app
  PROVE  SInv'
<1>1. Shape(env, shell, bridge, app) /\ AppType(app)
  BY Parts
<1>2. Shape(env, shell', bridge', app')
  BY <1>1, AloneFewer DEF Shape, Live
<1> QED BY <1>1, <1>2, Onwards

LEMMA ReceiveNeutralStep ==
  ASSUME SInv, ReceiveNeutral
  PROVE  SInv'
<1>1. PICK p \in shell.pending :
        /\ Settles(p, "neutral")
        /\ shell' = IF p.fresh THEN Confirmed(Without(p), Head(outbox).status)
                               ELSE Without(p)
  BY DEF ReceiveNeutral
<1>2. /\ inbox' = inbox /\ bridge' = bridge /\ app' = app /\ outbox' = Tail(outbox)
      /\ worker' = worker /\ barred' = barred /\ env' = env /\ crossed' = crossed
  BY DEF ReceiveNeutral, Taken
<1>3. /\ ShellType(shell) /\ ~shell.terminal /\ p.for = "neutral"
  BY <1>1, Parts DEF Settles, Live
<1> DEFINE sh == Without(p)
<1>4. /\ ShellType(sh) /\ sh.next = shell.next /\ sh.pending = shell.pending \ {p}
      /\ ~sh.terminal
      /\ (sh.neutral <=> shell.neutral) /\ (sh.ingress <=> shell.ingress)
  BY <1>3, WithoutFields
<1> HIDE DEF sh
<1>5. /\ ShellType(shell') /\ shell'.next = shell.next
      /\ shell'.pending = shell.pending \ {p} /\ ~shell'.terminal
      /\ (shell'.ingress <=> shell.ingress)
      /\ \/ shell'.neutral <=> shell.neutral
         \/ IsRelease(p) /\ Head(outbox).status = "OK" /\ shell'.neutral
  <2>1. CASE p.fresh /\ Head(outbox).status = "OK"
    <3>1. shell' = [sh EXCEPT !.neutral = TRUE]
      BY <2>1, <1>1 DEF Confirmed, sh
    <3>2. IsRelease(p)
      BY <2>1, <1>3 DEF IsRelease
    <3> QED BY <2>1, <3>1, <3>2, <1>4 DEF ShellType
  <2>2. CASE p.fresh /\ Head(outbox).status # "OK"
    <3>1. shell' = [sh EXCEPT !.failed = TRUE]
      BY <2>2, <1>1 DEF Confirmed, sh
    <3> QED BY <3>1, <1>4 DEF ShellType
  <2>3. CASE ~p.fresh
    <3>1. shell' = sh
      BY <2>3, <1>1 DEF sh
    <3> QED BY <3>1, <1>4
  <2> QED BY <2>1, <2>2, <2>3
<1>6. Page(shell', Tail(outbox), worker, inbox)
  BY <1>1, <1>5, SettledPage
<1>7. Onward
  BY <1>2, <1>6, Parts DEF Onward
<1> QED BY <1>1, <1>2, <1>5, <1>7, FewerOnwards DEF Settles

LEMMA TailType ==
  ASSUME NEW ap, AppType(ap)
  PROVE  /\ ap.tail \in Seq(Operations) /\ Len(ap.tail) <= MaxQueue
         /\ Len(ap.tail) \in Nat
         /\ ap.input \in BOOLEAN
         /\ ap.phase \in {"PAUSED", "RUNNING", "STOPPED", "FAILED"}
BY DEF AppType

LEMMA NextTail ==
  ASSUME NEW ap, AppType(ap), NEW t \in Seq(Operations), Len(t) <= MaxQueue
  PROVE  /\ AppType([ap EXCEPT !.tail = t])
         /\ [ap EXCEPT !.tail = t].tail = t
         /\ [ap EXCEPT !.tail = t].phase = ap.phase
BY DEF AppType

\* The application's first operation moves on to wait for a new entry.
LEMMA MoveOnwards ==
  ASSUME SInv, Live, Onward, env.client = "app", app.tail # <<>>, bridge' = bridge,
         ~shell'.terminal,
         NEW Q, \A q \in Q : q.for = "neutral",
         NEW e, shell'.pending = Q \cup {e},
         NEW pc \in {"restore", "lower"}, At(pc),
         \/ e.for = "public" /\ pc = "lower"
         \/ /\ e.for = "restore" /\ pc = "restore" /\ e.fresh /\ Head(app.tail).fresh
            /\ Head(app.tail).op = "resume"
  PROVE  SInv'
<1>1. /\ Shape(env, shell, bridge, app) /\ AppType(app)
      /\ app.tail \in Seq(Operations) /\ Len(app.tail) <= MaxQueue
  BY Parts, TailType
<1>2. Alone(shell.pending, app.tail)
  BY <1>1 DEF Shape
<1> DEFINE u == <<[Head(app.tail) EXCEPT !.pc = pc]>> \o Tail(app.tail)
<1>3. u \in Seq(Operations) /\ Len(u) = Len(app.tail) /\ Alone(Q \cup {e}, u)
  BY <1>1, <1>2, AloneMove
<1>4. app' = [app EXCEPT !.tail = u]
  BY DEF At
<1> HIDE DEF u
<1>5. AppType(app') /\ app'.tail = u /\ app'.phase = app.phase
  BY <1>1, <1>3, <1>4, NextTail
<1>6. Shape(env, shell', bridge', app')
  BY <1>1, <1>3, <1>5 DEF Shape, Live
<1> QED BY <1>5, <1>6, Onwards

\* The application's first operation is done with.
LEMMA DropOnwards ==
  ASSUME SInv, Live, Onward, env.client = "app", app.tail # <<>>, bridge' = bridge,
         ~shell'.terminal, \A q \in shell'.pending : q.for = "neutral",
         AppType(app'), app'.tail = Tail(app.tail),
         app'.phase \in {app.phase, "PAUSED", "RUNNING"}
  PROVE  SInv' /\ Alone(shell'.pending, app'.tail)
<1>1. /\ Shape(env, shell, bridge, app) /\ AppType(app)
      /\ app.tail \in Seq(Operations)
  BY Parts, TailType
<1>2. Alone(shell.pending, app.tail)
  BY <1>1 DEF Shape
<1>3. Alone(shell'.pending, app'.tail)
  BY <1>1, <1>2, AloneDrop
<1>4. Shape(env, shell', bridge', app')
  BY <1>1, <1>3 DEF Shape, Live
<1> QED BY <1>3, <1>4, Onwards

LEMMA DroppedType ==
  ASSUME SInv, app.tail # <<>>
  PROVE  AppType(Dropped) /\ Dropped.tail = Tail(app.tail) /\ Dropped.phase = app.phase
<1>1. /\ AppType(app) /\ app.tail \in Seq(Operations)
      /\ Len(app.tail) <= MaxQueue /\ Len(app.tail) \in Nat /\ MaxQueue \in Nat
  BY Parts, TailType, Bounds
<1>2. Tail(app.tail) \in Seq(Operations) /\ Len(Tail(app.tail)) = Len(app.tail) - 1
  BY <1>1, HeadTailProperties
<1>3. Len(Tail(app.tail)) <= MaxQueue
  BY <1>1, <1>2
<1> QED BY <1>1, <1>2, <1>3, NextTail DEF Dropped

LEMMA FinishedType ==
  ASSUME SInv, app.tail # <<>>, NEW head
  PROVE  /\ AppType(Finished(head)) /\ Finished(head).tail = Tail(app.tail)
         /\ Finished(head).phase \in {app.phase, "PAUSED", "RUNNING"}
<1> DEFINE d == Dropped
<1>1. AppType(d) /\ d.tail = Tail(app.tail) /\ d.phase = app.phase
  BY DroppedType
<1> HIDE DEF d
<1>2. \/ Finished(head) = d
      \/ Finished(head) = [d EXCEPT !.phase = "RUNNING", !.input = TRUE]
      \/ Finished(head) = [d EXCEPT !.phase = "PAUSED"]
  BY DEF Finished, Answered, d
<1> QED BY <1>1, <1>2 DEF AppType

LEMMA ReceiveRestoreStep ==
  ASSUME SInv, ReceiveRestore
  PROVE  SInv'
<1> DEFINE restored(p) == p.fresh /\ Head(outbox).status = "OK"
           sh(p) == IF restored(p) THEN [Without(p) EXCEPT !.ingress = TRUE]
                                   ELSE Without(p)
<1>1. PICK p \in shell.pending :
        /\ Settles(p, "restore")
        /\ \/ /\ env.client = "driver" /\ shell' = sh(p)
              /\ UNCHANGED <<inbox, bridge, app>> /\ Taken
           \/ /\ env.client = "app" /\ restored(p)
              /\ Post(sh(p), "public", "start", 0) /\ At("lower")
              /\ UNCHANGED bridge /\ Taken
           \/ Lose
  BY DEF ReceiveRestore
<1>2. /\ ShellType(shell) /\ ~shell.terminal /\ p.for = "restore" /\ Live
  BY <1>1, Parts DEF Settles, Live
<1> DEFINE s == sh(p)
<1>3. /\ ShellType(s) /\ s.next = shell.next /\ s.pending = shell.pending \ {p}
      /\ ~s.terminal /\ (s.neutral <=> shell.neutral)
      /\ (s.ingress <=> shell.ingress) \/ (p.fresh /\ s.ingress)
  <2> DEFINE v == Without(p)
  <2>1. /\ ShellType(v) /\ v.next = shell.next /\ v.pending = shell.pending \ {p}
        /\ ~v.terminal /\ (v.neutral <=> shell.neutral)
        /\ (v.ingress <=> shell.ingress)
    BY <1>2, WithoutFields
  <2> HIDE DEF v
  <2>2. CASE restored(p)
    <3>1. s = [v EXCEPT !.ingress = TRUE] /\ p.fresh
      BY <2>2 DEF v
    <3> HIDE DEF s
    <3> QED BY <3>1, <2>1 DEF ShellType
  <2>3. CASE ~restored(p)
    <3>1. s = v
      BY <2>3 DEF v
    <3> QED BY <3>1, <2>1
  <2> QED BY <2>2, <2>3
<1> HIDE DEF s
<1>4. /\ Page(s, Tail(outbox), worker, inbox)
      /\ Flight(Tail(outbox), worker, inbox) < MaxFlight
  BY <1>1, <1>2, <1>3, SettledPage
<1>5. ASSUME env.client = "driver", shell' = s,
             UNCHANGED <<inbox, bridge, app>>, Taken
      PROVE  SInv'
  <2>1. Onward
    BY <1>4, <1>5, Parts DEF Onward, Taken
  <2> QED BY <2>1, <1>5, DriverOnwards
<1>6. ASSUME env.client = "app", Post(s, "public", "start", 0), At("lower"),
             UNCHANGED bridge, Taken
      PROVE  SInv'
  <2>1. MayPost(s, worker, inbox, "public", "start")
    BY DEF MayPost, Callers, Kinds, PublicOps
  <2>2. /\ Page(shell', Tail(outbox), worker, inbox') /\ ~shell'.terminal
        /\ shell'.pending = s.pending \cup {Sent(s, "public")}
        /\ Sent(s, "public").for = "public"
    BY <2>1, <1>3, <1>4, <1>6, Bounds, PostStep
  <2>3. Onward
    BY <2>2, <1>6, Parts DEF Onward, Taken
  <2>4. Alone(shell.pending, app.tail) /\ shell.pending \subseteq Entries
    BY <1>6, Parts DEF Shape
  <2>5. \A q \in s.pending : q.for = "neutral"
    BY <2>4, <1>2, <1>3, LeftOver
  <2>6. app.tail # <<>>
    BY <2>4, <1>2 DEF Alone, HeadAt
  <2> QED BY <2>2, <2>3, <2>5, <2>6, <1>2, <1>6, MoveOnwards
<1> QED BY <1>1, <1>5, <1>6, LoseStep DEF s

LEMMA ReceivePublicStep ==
  ASSUME SInv, ReceivePublic
  PROVE  SInv'
<1>1. PICK p \in shell.pending :
        /\ Settles(p, "public")
        /\ \/ /\ env.client = "driver"
              /\ Post(Without(p), "bridge", "next", 0)
              /\ bridge' = [Idle EXCEPT !.phase = "next"]
              /\ UNCHANGED app /\ Taken
           \/ /\ env.client = "driver" /\ shell' = Without(p)
              /\ UNCHANGED <<inbox, bridge, app>> /\ Taken
           \/ /\ env.client = "app"
              /\ shell' = Without(p) /\ app' = Finished(Head(app.tail))
              /\ UNCHANGED <<inbox, bridge>> /\ Taken
           \/ Lose
  BY DEF ReceivePublic
<1>2. /\ ShellType(shell) /\ ~shell.terminal /\ p.for = "public" /\ Live
  BY <1>1, Parts DEF Settles, Live
<1> DEFINE s == Without(p)
<1>3. ShellType(s) /\ s.pending = shell.pending \ {p}
  BY <1>2, WithoutFields
<1>4. /\ Page(s, Tail(outbox), worker, inbox) /\ ~s.terminal
      /\ Flight(Tail(outbox), worker, inbox) < MaxFlight
  BY <1>1, SettledWithout
<1> HIDE DEF s
<1>5. ASSUME env.client = "driver", Post(s, "bridge", "next", 0),
             bridge' = [Idle EXCEPT !.phase = "next"], UNCHANGED app, Taken
      PROVE  SInv'
  <2>1. MayPost(s, worker, inbox, "bridge", "next")
    BY DEF MayPost, Callers, Kinds
  <2>2. Page(shell', Tail(outbox), worker, inbox')
    BY <2>1, <1>4, <1>5, Bounds, PostStep
  <2>3. BridgeType(bridge')
    BY <1>5, IdleBridge, NextBridge
  <2>4. Onward
    BY <2>2, <2>3, <1>5, Parts DEF Onward, Taken
  <2> QED BY <2>4, <1>5, DriverOnwards
<1>6. ASSUME env.client = "driver", shell' = s,
             UNCHANGED <<inbox, bridge, app>>, Taken
      PROVE  SInv'
  <2>1. Onward
    BY <1>4, <1>6, Parts DEF Onward, Taken
  <2> QED BY <2>1, <1>6, DriverOnwards
<1>7. ASSUME env.client = "app", shell' = s, app' = Finished(Head(app.tail)),
             UNCHANGED <<inbox, bridge>>, Taken
      PROVE  SInv'
  <2>1. Onward
    BY <1>4, <1>7, Parts DEF Onward, Taken
  <2>2. Alone(shell.pending, app.tail) /\ shell.pending \subseteq Entries
    BY <1>7, Parts DEF Shape
  <2>3. \A q \in s.pending : q.for = "neutral"
    BY <2>2, <1>2, <1>3, LeftOver
  <2>4. app.tail # <<>>
    BY <2>2, <1>2 DEF Alone, HeadAt
  <2>5. /\ AppType(app') /\ app'.tail = Tail(app.tail)
        /\ app'.phase \in {app.phase, "PAUSED", "RUNNING"}
    BY <2>4, <1>7, FinishedType
  <2> QED BY <2>1, <2>3, <2>4, <2>5, <1>2, <1>4, <1>7, DropOnwards
<1> QED BY <1>1, <1>5, <1>6, <1>7, LoseStep DEF s

\* Only a driver's session has entries of the bridge.
LEMMA BridgeDriver ==
  ASSUME SInv, Live, NEW p \in shell.pending, p.for = "bridge"
  PROVE  env.client # "app"
BY Parts DEF Shape, Alone

LEMMA ReceiveNextStep ==
  ASSUME SInv, ReceiveNext
  PROVE  SInv'
<1>1. PICK p \in shell.pending :
        /\ Settles(p, "bridge")
        /\ \/ /\ \E write \in BOOLEAN :
                   bridge' = [phase |-> "serve", gen |-> Head(outbox).gen,
                              write |-> write]
              /\ shell' = Without(p)
              /\ UNCHANGED <<inbox, app>> /\ Taken
           \/ Lose
  BY DEF ReceiveNext
<1>2. p.for = "bridge" /\ Live /\ outbox # <<>>
  BY <1>1 DEF Settles
<1>3. env.client # "app"
  BY <1>2, BridgeDriver
<1>4. Page(Without(p), Tail(outbox), worker, inbox)
  BY <1>1, SettledWithout
<1>5. ASSUME \E write \in BOOLEAN :
               bridge' = [phase |-> "serve", gen |-> Head(outbox).gen, write |-> write],
             shell' = Without(p), UNCHANGED <<inbox, app>>, Taken
      PROVE  SInv'
  <2>1. Head(outbox) \in Responses
    BY <1>2, Parts, LineTypes, HeadTailProperties
  <2>2. BridgeType(bridge')
    BY <2>1, <1>5 DEF BridgeType, Responses
  <2>3. Onward
    BY <2>2, <1>4, <1>5, Parts DEF Onward, Taken
  <2> QED BY <2>3, <1>3, <1>5, DriverOnwards
<1> QED BY <1>1, <1>5, LoseStep

LEMMA ReceiveCompleteStep ==
  ASSUME SInv, ReceiveComplete
  PROVE  SInv'
<1>1. PICK p \in shell.pending :
        /\ Settles(p, "bridge")
        /\ \/ /\ shell' = Without(p) /\ bridge' = Idle
              /\ UNCHANGED <<inbox, app>> /\ Taken
           \/ /\ Post(Without(p), "bridge", "fail", bridge.gen)
              /\ bridge' = [bridge EXCEPT !.phase = "failing"]
              /\ UNCHANGED app /\ Taken
           \/ Lose
  BY DEF ReceiveComplete
<1>2. p.for = "bridge" /\ Live
  BY <1>1 DEF Settles
<1>3. env.client # "app"
  BY <1>2, BridgeDriver
<1> DEFINE s == Without(p)
<1>4. /\ Page(s, Tail(outbox), worker, inbox) /\ ~s.terminal
      /\ Flight(Tail(outbox), worker, inbox) < MaxFlight
  BY <1>1, SettledWithout
<1> HIDE DEF s
<1>5. ASSUME shell' = s, bridge' = Idle, UNCHANGED <<inbox, app>>, Taken
      PROVE  SInv'
  <2>1. Onward
    BY <1>4, <1>5, Parts, IdleBridge DEF Onward, Taken
  <2> QED BY <2>1, <1>3, <1>5, DriverOnwards
<1>6. ASSUME Post(s, "bridge", "fail", bridge.gen),
             bridge' = [bridge EXCEPT !.phase = "failing"], UNCHANGED app, Taken
      PROVE  SInv'
  <2>1. MayPost(s, worker, inbox, "bridge", "fail")
    BY DEF MayPost, Callers, Kinds
  <2>2. bridge.gen \in 0..MaxReset
    BY Parts, BridgeFields
  <2>3. Page(shell', Tail(outbox), worker, inbox')
    BY <2>1, <2>2, <1>4, <1>6, PostStep
  <2>4. BridgeType(bridge')
    BY <1>6, Parts, NextBridge
  <2>5. Onward
    BY <2>3, <2>4, <1>6, Parts DEF Onward, Taken
  <2> QED BY <2>5, <1>3, <1>6, DriverOnwards
<1> QED BY <1>1, <1>5, <1>6, LoseStep DEF s

LEMMA ServeStep ==
  ASSUME SInv, Serve
  PROVE  SInv'
<1>1. PICK op \in {"complete", "fail"}, ph \in {"complete", "failing"} :
        Post(shell, "bridge", op, bridge.gen) /\ bridge' = [bridge EXCEPT !.phase = ph]
  BY DEF Serve
<1>2. /\ Live /\ bridge.phase = "serve" /\ InFlight < MaxFlight
      /\ UNCHANGED <<outbox, worker, barred, app, env, crossed>>
  BY DEF Serve
<1>3. env.client # "app"
  BY <1>2, Parts DEF Shape, Idle
<1>4. MayPost(shell, worker, inbox, "bridge", op)
  BY DEF MayPost, Callers, Kinds
<1>5. Page(shell', outbox, worker, inbox')
  <2>1. ~shell.terminal /\ Flight(outbox, worker, inbox) < MaxFlight
    BY <1>2, FlightIs DEF Live
  <2>2. Page(shell, outbox, worker, inbox) /\ bridge.gen \in 0..MaxReset
    BY Parts, BridgeFields
  <2> QED BY <2>1, <2>2, <1>1, <1>4, PostStep
<1>6. BridgeType(bridge')
  BY <1>1, Parts, NextBridge
<1>7. Onward
  BY <1>2, <1>5, <1>6, Parts DEF Onward
<1> QED BY <1>2, <1>3, <1>7, DriverOnwards

LEMMA TimeOutStep ==
  ASSUME SInv, TimeOut
  PROVE  SInv'
<1>1. PICK p \in shell.pending :
        \/ /\ p.for = "neutral"
           /\ shell' = [Without(p) EXCEPT !.failed = @ \/ p.fresh]
           /\ UNCHANGED <<wvars, bridge, app, env, crossed>>
        \/ /\ p.for = "restore" /\ shell' = Without(p)
           /\ UNCHANGED <<wvars, bridge, app, env, crossed>>
        \/ /\ p.for = "bridge" /\ shell' = Without(p) /\ bridge' = Idle
           /\ UNCHANGED <<wvars, app, env, crossed>>
        \/ Lose
  BY DEF TimeOut
<1>2. Live /\ ShellType(shell)
  BY Parts DEF TimeOut
<1> DEFINE s == Without(p)
<1>3. Page(s, outbox, worker, inbox) /\ ~s.terminal
  BY <1>2, DroppedPage
<1>4. s.pending = shell.pending \ {p} /\ ShellType(s)
  BY <1>2, WithoutFields
<1> HIDE DEF s
<1>5. ASSUME shell' = [s EXCEPT !.failed = @ \/ p.fresh],
             UNCHANGED <<wvars, bridge, app, env, crossed>>
      PROVE  SInv'
  <2>1. (s.failed \/ p.fresh) \in BOOLEAN
    OBVIOUS
  <2>2. /\ ShellType(shell') /\ shell'.next = s.next /\ ~shell'.terminal
        /\ shell'.pending = s.pending
        /\ (shell'.neutral <=> s.neutral) /\ (shell'.ingress <=> s.ingress)
    BY <2>1, <1>3, <1>4, <1>5 DEF ShellType
  <2>3. Page(shell', outbox, worker, inbox)
    BY <2>2, <1>3, DropPage
  <2>4. Onward
    BY <2>3, <1>5, Parts DEF Onward, wvars
  <2> QED BY <2>2, <2>4, <1>2, <1>4, <1>5, FewerOnwards
<1>6. ASSUME shell' = s, UNCHANGED <<wvars, bridge, app, env, crossed>>
      PROVE  SInv'
  <2>1. Onward
    BY <1>3, <1>6, Parts DEF Onward, wvars
  <2> QED BY <2>1, <1>2, <1>3, <1>4, <1>6, FewerOnwards
<1>7. ASSUME p.for = "bridge", shell' = s, bridge' = Idle,
             UNCHANGED <<wvars, app, env, crossed>>
      PROVE  SInv'
  <2>1. Onward
    BY <1>3, <1>7, Parts, IdleBridge DEF Onward, wvars
  <2> QED BY <2>1, <1>2, <1>7, BridgeDriver, DriverOnwards
<1> QED BY <1>1, <1>5, <1>6, <1>7, LoseStep DEF s

-----------------------------------------------------------------------------
\* The steps of the application

LEMMA RunningLive ==
  ASSUME SInv, Running
  PROVE  /\ Live /\ ~shell.terminal /\ env.client = "app" /\ bridge = Idle
         /\ app.phase \in {"PAUSED", "RUNNING"}
         /\ Alone(shell.pending, app.tail) /\ shell.pending \subseteq Entries
         /\ AppType(app) /\ app.tail \in Seq(Operations)
         /\ Len(app.tail) \in Nat
<1>1. AppType(app) /\ Shape(env, shell, bridge, app) /\ shell.pending \subseteq Entries
  BY Parts
<1>2. env.client = "app" /\ app.phase \in {"PAUSED", "RUNNING"}
  BY DEF Running
<1> QED BY <1>1, <1>2, TailType DEF Shape, Live

LEMMA OpType ==
  ASSUME NEW name \in {"pause", "resume", "input"}
  PROVE  Op(name) \in Operations /\ Op(name).pc = "queued"
BY DEF Op, Operations

LEMMA PauseStep ==
  ASSUME SInv, Pause
  PROVE  SInv'
<1> DEFINE stale == [i \in DOMAIN app.tail |-> [app.tail[i] EXCEPT !.fresh = FALSE]]
           u == Append(stale, Op("pause"))
<1>1. /\ Running /\ Room /\ Len(app.tail) < MaxQueue
      /\ app' = [app EXCEPT !.input = FALSE, !.tail = u]
      /\ crossed' = (crossed \/ Restoring)
      /\ Post(Released, "neutral", "neutralize", 0)
      /\ UNCHANGED <<outbox, worker, barred, bridge, env>>
  BY Parts DEF Pause, AppType
<1>2. /\ Live /\ ~shell.terminal /\ env.client = "app" /\ bridge = Idle
      /\ app.phase \in {"PAUSED", "RUNNING"}
      /\ Alone(shell.pending, app.tail) /\ shell.pending \subseteq Entries
      /\ AppType(app) /\ app.tail \in Seq(Operations) /\ Len(app.tail) \in Nat
  BY <1>1, RunningLive
<1>3. /\ Page(Released, outbox, worker, inbox) /\ Fenced(Released)
      /\ ~Released.terminal
      /\ Released.pending = {[p EXCEPT !.fresh = FALSE] : p \in shell.pending}
  BY <1>2, Parts, ReleasedPage
<1>4. MayPost(Released, worker, inbox, "neutral", "neutralize")
  BY <1>3 DEF MayPost, Callers, Kinds
<1>5. /\ Page(shell', outbox, worker, inbox') /\ ~shell'.terminal
      /\ shell'.pending = Released.pending \cup {Sent(Released, "neutral")}
      /\ Sent(Released, "neutral").for = "neutral"
  BY <1>1, <1>3, <1>4, Bounds, RoomIs, PostStep
<1>6. Onward
  BY <1>1, <1>5, Parts DEF Onward
<1>7. stale \in Seq(Operations) /\ Len(stale) = Len(app.tail)
      /\ Alone(Released.pending, stale)
  <2>1. Released.pending = StaleEntries(shell.pending) /\ stale = StaleTail(app.tail)
    BY <1>3 DEF StaleEntries, StaleTail
  <2> QED BY <2>1, <1>2, AloneFence
<1> HIDE DEF stale
<1>8. /\ u \in Seq(Operations) /\ Len(u) = Len(stale) + 1
      /\ Alone(Released.pending, u)
  BY <1>7, OpType, AloneQueue
<1> HIDE DEF u
<1>9. Alone(shell'.pending, u)
  BY <1>5, <1>8, AloneRelease
<1>10. AppType(app') /\ app'.tail = u /\ app'.phase = app.phase
  <2>1. Len(u) <= MaxQueue
    BY <1>1, <1>2, <1>7, <1>8, Bounds
  <2> QED BY <2>1, <1>1, <1>2, <1>8 DEF AppType
<1>11. Shape(env, shell', bridge', app')
  BY <1>1, <1>2, <1>5, <1>9, <1>10 DEF Shape
<1> QED BY <1>6, <1>10, <1>11, Onwards

\* resume and submitInput only queue.
LEMMA QueueStep ==
  ASSUME SInv, Running, Len(app.tail) < MaxQueue,
         NEW name \in {"resume", "input"},
         app' = [app EXCEPT !.tail = Append(@, Op(name))],
         UNCHANGED <<wvars, shell, bridge, env, crossed>>
  PROVE  SInv'
<1> DEFINE u == Append(app.tail, Op(name))
<1>1. /\ Live /\ ~shell.terminal /\ env.client = "app" /\ bridge = Idle
      /\ app.phase \in {"PAUSED", "RUNNING"}
      /\ Alone(shell.pending, app.tail)
      /\ AppType(app) /\ app.tail \in Seq(Operations) /\ Len(app.tail) \in Nat
  BY RunningLive
<1>2. /\ u \in Seq(Operations) /\ Len(u) = Len(app.tail) + 1
      /\ Alone(shell.pending, u)
  BY <1>1, OpType, AloneQueue
<1>3. app' = [app EXCEPT !.tail = u]
  OBVIOUS
<1> HIDE DEF u
<1>4. Len(u) <= MaxQueue
  BY <1>1, <1>2, Bounds
<1>5. AppType(app') /\ app'.tail = u /\ app'.phase = app.phase
  <2>1. AppType(app) /\ u \in Seq(Operations)
    BY <1>1, <1>2
  <2>2. /\ AppType([app EXCEPT !.tail = u])
        /\ [app EXCEPT !.tail = u].tail = u
        /\ [app EXCEPT !.tail = u].phase = app.phase
    BY <2>1, <1>4, NextTail
  <2> QED BY <2>2, <1>3
<1>6. Shape(env, shell', bridge', app')
  BY <1>1, <1>2, <1>5 DEF Shape
<1>7. Onward
  BY Parts DEF Onward, wvars
<1> QED BY <1>5, <1>6, <1>7, Onwards

LEMMA ResumeStep ==
  ASSUME SInv, Resume
  PROVE  SInv'
BY QueueStep DEF Resume

LEMMA SubmitInputStep ==
  ASSUME SInv, SubmitInput
  PROVE  SInv'
BY QueueStep DEF SubmitInput

LEMMA BeginAppStep ==
  ASSUME SInv, Begin
  PROVE  SInv'
<1> DEFINE head == Head(app.tail)
<1>1. Running /\ app.tail # <<>> /\ head.pc = "queued"
  BY DEF Begin
<1>2. /\ Live /\ ~shell.terminal /\ env.client = "app" /\ bridge = Idle
      /\ Alone(shell.pending, app.tail) /\ shell.pending \subseteq Entries
      /\ AppType(app) /\ app.tail \in Seq(Operations)
  BY <1>1, RunningLive
<1>3. \A p \in shell.pending : p.for = "neutral"
  BY <1>1, <1>2, Begun
<1>4. head \in Operations
  BY <1>1, <1>2, HeadTailProperties
<1>5. Page(shell, outbox, worker, inbox)
  BY Parts
<1>6. \/ app' = Dropped /\ UNCHANGED <<wvars, shell, bridge, env, crossed>>
      \/ Lose
      \/ /\ head.fresh /\ InFlight < MaxFlight
         /\ UNCHANGED <<outbox, worker, barred, bridge, env, crossed>>
         /\ \/ /\ head.op = "resume" /\ Restorable
               /\ Post(shell, "restore", "display", 0) /\ At("restore")
            \/ /\ head.op # "resume" /\ (head.op = "input" => shell.ingress)
               /\ Post(shell, "public", head.op, 0) /\ At("lower")
  <2> HIDE DEF head
  <2> QED BY DEF Begin, Skipped, head
<1> HIDE DEF head
<1>7. ASSUME app' = Dropped, UNCHANGED <<wvars, shell, bridge, env, crossed>>
      PROVE  SInv'
  <2>1. Onward
    BY <1>7, Parts DEF Onward, wvars
  <2>2. /\ AppType(app') /\ app'.tail = Tail(app.tail) /\ app'.phase = app.phase
    BY <1>1, <1>7, DroppedType
  <2> QED BY <2>1, <2>2, <1>1, <1>2, <1>3, <1>7, DropOnwards
<1>8. ASSUME InFlight < MaxFlight, UNCHANGED <<outbox, worker, barred, bridge, env, crossed>>,
             head.fresh, head.op = "resume", Restorable,
             Post(shell, "restore", "display", 0), At("restore")
      PROVE  SInv'
  <2>1. MayPost(shell, worker, inbox, "restore", "display")
    BY <1>8 DEF MayPost, Callers, Kinds, Restorable
  <2>2. /\ Page(shell', outbox, worker, inbox') /\ ~shell'.terminal
        /\ shell'.pending = shell.pending \cup {Sent(shell, "restore")}
        /\ Sent(shell, "restore").for = "restore" /\ Sent(shell, "restore").fresh
    BY <2>1, <1>2, <1>5, <1>8, Bounds, FlightIs, PostStep
  <2>3. Onward
    BY <2>2, <1>8, Parts DEF Onward
  <2> QED BY <2>2, <2>3, <1>1, <1>2, <1>3, <1>8, MoveOnwards DEF head
<1>9. ASSUME InFlight < MaxFlight, UNCHANGED <<outbox, worker, barred, bridge, env, crossed>>,
             head.op # "resume", head.op = "input" => shell.ingress,
             Post(shell, "public", head.op, 0), At("lower")
      PROVE  SInv'
  <2>1. MayPost(shell, worker, inbox, "public", head.op)
    BY <1>4, <1>9 DEF MayPost, Callers, Kinds, Operations, PublicOps
  <2>2. /\ Page(shell', outbox, worker, inbox') /\ ~shell'.terminal
        /\ shell'.pending = shell.pending \cup {Sent(shell, "public")}
        /\ Sent(shell, "public").for = "public"
    BY <2>1, <1>2, <1>5, <1>9, Bounds, FlightIs, PostStep
  <2>3. Onward
    BY <2>2, <1>9, Parts DEF Onward
  <2> QED BY <2>2, <2>3, <1>1, <1>2, <1>3, <1>9, MoveOnwards DEF head
<1> QED BY <1>6, <1>7, <1>8, <1>9, LoseStep

-----------------------------------------------------------------------------
\* The invariant

LEMMA WorkerOnwards ==
  ASSUME SInv, Lasting, crossed' \in BOOLEAN, UNCHANGED <<shell, bridge, app, env>>
  PROVE  SInv'
<1>1. Onward
  BY Parts DEF Onward, Lasting
<1> QED BY <1>1, Parts, Onwards

LEMMA WorkerSteps ==
  ASSUME SInv, \/ WorkerHandles \/ WorkerBegins \/ WorkerCaptures \/ WorkerFinishes
  PROVE  SInv'
<1>1. CASE WorkerHandles
  <2>1. crossed' \in BOOLEAN /\ UNCHANGED <<shell, bridge, app, env>>
    BY <1>1, Parts DEF WorkerHandles
  <2> QED BY <2>1, <1>1, HandleStep, WorkerOnwards DEF WorkerHandles
<1>2. CASE WorkerBegins
  BY <1>2, Parts, BeginStep, WorkerOnwards DEF WorkerBegins, svars
<1>3. CASE WorkerCaptures
  BY <1>3, Parts, CaptureStep, WorkerOnwards DEF WorkerCaptures, svars
<1>4. CASE WorkerFinishes
  BY <1>4, Parts, FinishStep, ApplyStep, WorkerOnwards DEF WorkerFinishes, svars
<1> QED BY <1>1, <1>2, <1>3, <1>4

LEMMA InitOK == Init => SInv
<1> SUFFICES ASSUME Init PROVE SInv
  OBVIOUS
<1>1. /\ inbox = <<>> /\ outbox = <<>> /\ worker = Booted /\ barred = FALSE
      /\ env \in Sessions
      /\ shell = [terminal |-> FALSE, failed |-> FALSE,
                  ingress |-> (env.client = "driver"),
                  neutral |-> (env.client = "app"), next |-> 0, pending |-> {}]
      /\ bridge = Idle
      /\ app = [phase |-> "PAUSED", reason |-> "none", input |-> FALSE, tail |-> <<>>]
      /\ crossed = FALSE
  BY DEF Init, WorkerInit
<1>2. /\ worker \in Workers /\ worker.run = None /\ worker.deferred = <<>>
      /\ worker.expected = 0 /\ worker.held = FALSE
  BY <1>1, TerminatedWorker
<1>3. ShellType(shell) /\ shell.next = 0 /\ shell.pending = {} /\ ~shell.terminal
  BY <1>1, Bounds DEF ShellType
<1>4. /\ <<>> \in Seq(Messages) /\ <<>> \in Seq(Responses)
      /\ Len(<<>>) = 0 /\ Len(worker.deferred) = 0 /\ RunLen(worker) = 0
  BY <1>2 DEF RunLen
<1>5. Lines(<<>>, worker, <<>>)
  <2>1. 0 + 0 + 0 + 0 <= MaxFlight /\ 0 \in Nat
    BY Bounds
  <2> QED BY <2>1, <1>2, <1>4 DEF Lines
<1>6. OneReset(worker, <<>>)
  BY <1>4 DEF OneReset
<1>7. Order(shell, <<>>, worker, <<>>)
  <2>1. 0 \in Ids /\ Wrap(0, 0) = 0
    BY Bounds DEF Wrap
  <2>2. InTurn(0, <<>>, worker, <<>>, shell.next)
    BY <2>1, <1>2, <1>3, <1>4 DEF InTurn
  <2>3. Awaited(0, shell, Flight(<<>>, worker, <<>>))
    BY <1>3 DEF Awaited
  <2> QED BY <2>1, <2>2, <2>3, <1>3 DEF Order
<1>8. Releases(shell, <<>>, worker, <<>>)
  BY <1>2, <1>3, <1>4 DEF Releases, Fences, NoInput
<1>9. Page(shell, outbox, worker, inbox)
  BY <1>1, <1>3, <1>5, <1>6, <1>7, <1>8 DEF Page
<1>10. AppType(app)
  <2>1. <<>> \in Seq(Operations) /\ Len(<<>>) <= MaxQueue
    BY Bounds
  <2> QED BY <2>1, <1>1 DEF AppType, Reasons
<1>11. Shape(env, shell, bridge, app)
  <2>1. Alone({}, <<>>)
    BY DEF Alone, HeadAt
  <2> QED BY <2>1, <1>1, <1>3 DEF Shape
<1> QED BY <1>1, <1>9, <1>10, <1>11, IdleBridge DEF SInv, Halts

LEMMA NextOK == SInv /\ [Next]_vars => SInv'
<1> SUFFICES ASSUME SInv, [Next]_vars PROVE SInv'
  OBVIOUS
<1>1. CASE Submit \/ Release \/ Restore
  BY <1>1, SubmitStep, ReleaseStep, RestoreStep
<1>2. CASE Pause \/ Resume \/ ResumeOutsidePaused \/ SubmitInput \/ Stop \/ Begin
  BY <1>2, PauseStep, ResumeStep, ResumeOutsideStep, SubmitInputStep, StopStep, BeginAppStep
<1>3. CASE ReceiveUnknown \/ WorkerDies
  BY <1>3, LoseStep DEF ReceiveUnknown, WorkerDies
<1>4. CASE ReceiveNeutral \/ ReceiveRestore \/ ReceivePublic
  BY <1>4, ReceiveNeutralStep, ReceiveRestoreStep, ReceivePublicStep
<1>5. CASE ReceiveNext \/ ReceiveComplete \/ Serve \/ TimeOut
  BY <1>5, ReceiveNextStep, ReceiveCompleteStep, ServeStep, TimeOutStep
<1>6. CASE WorkerHandles \/ WorkerBegins \/ WorkerCaptures \/ WorkerFinishes
  BY <1>6, WorkerSteps
<1>7. CASE UNCHANGED vars
  BY <1>7 DEF SInv, vars, wvars, svars
<1> QED BY <1>1, <1>2, <1>3, <1>4, <1>5, <1>6, <1>7 DEF Next

\* What was said of the line, the halted guest and the releases under way, the
\* shell, the bridge and the application's FIFO holds in every state.
THEOREM Invariance == Spec => []SInv
BY InitOK, NextOK, PTL DEF Spec

-----------------------------------------------------------------------------
\* What the invariant says

\* The state of the session is of its types, and what is under way between
\* postLower() and the page's message handler fits the bound.
THEOREM TypeCorrect == Spec => []STypeOK
<1>1. SInv => STypeOK
  <2> SUFFICES ASSUME SInv PROVE STypeOK
    OBVIOUS
  <2>1. /\ ShellType(shell) /\ BridgeType(bridge) /\ AppType(app)
        /\ barred \in BOOLEAN /\ crossed \in BOOLEAN
    BY Parts
  <2>2. worker \in Workers
    BY Parts, LineTypes
  <2>3. InFlight <= MaxFlight
    BY Parts, FlightIs, LineLengths
  <2>4. /\ app.tail \in Seq(Operations) /\ Len(app.tail) <= MaxQueue
        /\ app.input \in BOOLEAN
        /\ app.phase \in {"PAUSED", "RUNNING", "STOPPED", "FAILED"} /\ app.reason \in Reasons
    BY <2>1, TailType DEF AppType
  <2>5. ToSet(app.tail) \subseteq Operations
    BY <2>4 DEF ToSet
  <2>6. /\ worker.life \in Moving \cup Ended \cup {"PAUSED"}
        /\ worker.host \in {"none", "asked", "failed"} /\ worker.gen \in 0..MaxReset
        /\ worker.hidden \in BOOLEAN /\ worker.core \in BOOLEAN /\ worker.held \in BOOLEAN
    BY <2>2, WorkerFields DEF Moving, Ended
  <2> QED BY <2>1, <2>3, <2>4, <2>5, <2>6 DEF STypeOK, ShellType, BridgeType
<1> QED BY <1>1, Invariance, PTL

\* A sequence of ids that are consecutive from a on.
InRow(a, s, from) ==
  s \in Seq(Ids) /\ \A k \in 1..Len(s) : s[k] = Wrap(a, from + k - 1)

IdsOf(s) == [i \in DOMAIN s |-> s[i].id]
Numbered(a, s, from) ==
  \A k \in 1..Len(s) : s[k].id \in Ids /\ s[k].id = Wrap(a, from + k - 1)

LEMMA RowOf ==
  ASSUME NEW S, NEW s \in Seq(S), NEW a, NEW from, Numbered(a, s, from)
  PROVE  InRow(a, IdsOf(s), from) /\ Len(IdsOf(s)) = Len(s)
<1> DEFINE x == IdsOf(s)
<1>1. DOMAIN s = 1..Len(s) /\ Len(s) \in Nat
  OBVIOUS
<1>2. x = [i \in DOMAIN s |-> s[i].id]
  BY DEF IdsOf
<1> HIDE DEF x
<1>3. x \in Seq(Ids) /\ Len(x) = Len(s)
  BY <1>1, <1>2 DEF Numbered
<1>4. \A k \in 1..Len(x) : x[k] = s[k].id
  BY <1>1, <1>2, <1>3
<1>5. InRow(a, x, from)
  BY <1>3, <1>4 DEF InRow, Numbered
<1> QED BY <1>3, <1>5 DEF x

LEMMA RowJoins ==
  ASSUME NEW a, NEW x, NEW y, InRow(a, x, 0), InRow(a, y, Len(x))
  PROVE  InRow(a, x \o y, 0) /\ Len(x \o y) = Len(x) + Len(y)
<1>1. /\ x \in Seq(Ids) /\ y \in Seq(Ids) /\ Len(x) \in Nat /\ Len(y) \in Nat
  BY DEF InRow
<1>2. /\ x \o y \in Seq(Ids) /\ Len(x \o y) = Len(x) + Len(y)
      /\ \A i \in 1..Len(x) + Len(y) :
           (x \o y)[i] = IF i <= Len(x) THEN x[i] ELSE y[i - Len(x)]
  BY <1>1, ConcatProperties
<1>3. ASSUME NEW k \in 1..Len(x \o y) PROVE (x \o y)[k] = Wrap(a, 0 + k - 1)
  <2>1. k \in 1..Len(x) + Len(y)
    BY <1>2
  <2>2. CASE k <= Len(x)
    <3>1. k \in 1..Len(x) /\ (x \o y)[k] = x[k]
      BY <2>1, <2>2, <1>1, <1>2
    <3> QED BY <3>1 DEF InRow
  <2>3. CASE ~(k <= Len(x))
    <3>1. /\ k - Len(x) \in 1..Len(y) /\ (x \o y)[k] = y[k - Len(x)]
          /\ Len(x) + (k - Len(x)) - 1 = 0 + k - 1
      BY <2>1, <2>3, <1>1, <1>2
    <3>2. y[k - Len(x)] = Wrap(a, Len(x) + (k - Len(x)) - 1)
      BY <3>1 DEF InRow
    <3> QED BY <3>1, <3>2
  <2> QED BY <2>2, <2>3
<1> QED BY <1>2, <1>3 DEF InRow

\* The line as AnswersInOrder sees it.
RunId(w) == IF w.run = None THEN <<>> ELSE <<w.run.id>>
Row(out, w, in) == IdsOf(out) \o RunId(w) \o IdsOf(w.deferred) \o IdsOf(in)

LEMMA WholeRow ==
  ASSUME NEW out, NEW w, NEW in, NEW a \in Ids, NEW nx,
         Lines(out, w, in), InTurn(a, out, w, in, nx)
  PROVE  InRow(a, Row(out, w, in), 0) /\ Len(Row(out, w, in)) = Flight(out, w, in)
<1> DEFINE x == IdsOf(out)
           y == RunId(w)
           z == IdsOf(w.deferred)
           u == IdsOf(in)
<1>1. /\ in \in Seq(Messages) /\ out \in Seq(Responses)
      /\ w.deferred \in Seq(Deferrals) /\ w \in Workers
      /\ \A i \in 1..Len(in) : in[i].id \in Ids
      /\ \A i \in 1..Len(out) : out[i].id \in Ids
      /\ \A i \in 1..Len(w.deferred) : w.deferred[i].id \in Ids
  BY LineTypes DEF Messages, Responses, Deferrals
<1>2. /\ Len(out) \in Nat /\ RunLen(w) \in Nat
      /\ Len(w.deferred) \in Nat /\ Len(in) \in Nat
  BY LineLengths
<1>3. InRow(a, x, 0) /\ Len(x) = Len(out)
  <2>1. \A k \in 1..Len(out) : 0 + k - 1 = k - 1
    BY <1>2
  <2>2. Numbered(a, out, 0)
    BY <2>1, <1>1 DEF InTurn, Numbered
  <2> QED BY <2>2, <1>1, RowOf
<1>4. InRow(a, y, Len(out)) /\ Len(y) = RunLen(w)
  <2>1. CASE w.run = None
    <3>1. y = <<>> /\ RunLen(w) = 0
      BY <2>1 DEF RunId, RunLen
    <3> QED BY <3>1 DEF InRow
  <2>2. CASE w.run # None
    <3>1. y = <<w.run.id>> /\ RunLen(w) = 1
      BY <2>2 DEF RunId, RunLen
    <3>2. w.run.id \in Ids /\ w.run.id = Wrap(a, Len(out))
      BY <2>2, <1>1, WorkerFields DEF Slices, InTurn
    <3>3. /\ y \in Seq(Ids) /\ Len(y) = 1 /\ y[1] = w.run.id
      BY <3>1, <3>2
    <3>4. \A k \in 1..1 : k = 1 /\ Len(out) + k - 1 = Len(out)
      BY <1>2
    <3> HIDE DEF y
    <3> QED BY <3>1, <3>2, <3>3, <3>4 DEF InRow
  <2> QED BY <2>1, <2>2
<1> DEFINE m2 == Len(out) + RunLen(w)
           m3 == Len(out) + RunLen(w) + Len(w.deferred)
<1>5. InRow(a, z, m2) /\ Len(z) = Len(w.deferred)
  <2>1. Numbered(a, w.deferred, m2)
    BY <1>1 DEF InTurn, Numbered
  <2> HIDE DEF m2
  <2> QED BY <2>1, <1>1, RowOf
<1>6. InRow(a, u, m3) /\ Len(u) = Len(in)
  <2>1. Numbered(a, in, m3)
    BY <1>1 DEF InTurn, Numbered
  <2> HIDE DEF m3
  <2> QED BY <2>1, <1>1, RowOf
<1> HIDE DEF x, y, z, u
<1>7. InRow(a, x \o y, 0) /\ Len(x \o y) = m2
  BY <1>3, <1>4, RowJoins
<1>8. InRow(a, (x \o y) \o z, 0) /\ Len((x \o y) \o z) = m3
  <2> DEFINE xy == x \o y
  <2>1. InRow(a, xy, 0) /\ Len(xy) = m2
    BY <1>7
  <2> HIDE DEF xy
  <2>2. InRow(a, xy \o z, 0) /\ Len(xy \o z) = Len(xy) + Len(z)
    <3> HIDE DEF m2
    <3> QED BY <2>1, <1>5, RowJoins
  <2> QED BY <2>1, <2>2, <1>5 DEF xy
<1>9. /\ InRow(a, ((x \o y) \o z) \o u, 0)
      /\ Len(((x \o y) \o z) \o u) = m3 + Len(in)
  <2> DEFINE xyz == (x \o y) \o z
  <2>1. InRow(a, xyz, 0) /\ Len(xyz) = m3
    BY <1>8
  <2> HIDE DEF xyz
  <2>2. InRow(a, xyz \o u, 0) /\ Len(xyz \o u) = Len(xyz) + Len(u)
    <3> HIDE DEF m3
    <3> QED BY <2>1, <1>6, RowJoins
  <2> QED BY <2>1, <2>2, <1>6 DEF xyz
<1> QED BY <1>9 DEF Row, Flight, x, y, z, u

\* scheduler, queueLiveControl, applyDeferredControls: whatever was captured
\* under a slice and whenever it was applied, the answers come in the order of
\* the requests, with no id skipped, repeated or answered twice.
THEOREM InOrder == Spec => []AnswersInOrder
<1>1. SInv => AnswersInOrder
  <2> SUFFICES ASSUME SInv PROVE AnswersInOrder
    OBVIOUS
  <2> DEFINE all == Row(outbox, worker, inbox)
  <2>1. AnswersInOrder <=>
          /\ \A i \in 1 .. Len(all) - 1 : all[i + 1] = Succ(all[i])
          /\ all # <<>> /\ Live => Succ(Last(all)) = shell.next
    BY DEF AnswersInOrder, Row, IdsOf, RunId
  <2>2. Page(shell, outbox, worker, inbox) /\ Lines(outbox, worker, inbox)
    BY Parts
  <2>3. CASE shell.terminal
    <3>1. /\ outbox = <<>> /\ inbox = <<>> /\ worker.run = None
          /\ worker.deferred = <<>>
      BY <2>2, <2>3 DEF Page, Order, Over
    <3>2. IdsOf(<<>>) = <<>>
      BY DEF IdsOf
    <3>3. all = <<>>
      BY <3>1, <3>2 DEF Row, RunId
    <3>4. Len(all) = 0
      BY <3>3
    <3> HIDE DEF all
    <3> QED BY <3>3, <3>4, <2>1
  <2>4. CASE ~shell.terminal
    <3>1. PICK a \in Ids : InTurn(a, outbox, worker, inbox, shell.next)
      BY <2>2, <2>4 DEF Page, Order
    <3> DEFINE f == Flight(outbox, worker, inbox)
    <3>2. InRow(a, all, 0) /\ Len(all) = f
      BY <3>1, <2>2, WholeRow
    <3>3. f \in Nat /\ f <= MaxFlight /\ MaxFlight \in Nat
      BY <2>2, LineLengths, Bounds
    <3>4. shell.next = Wrap(a, f)
      BY <3>1 DEF InTurn, Flight
    <3> HIDE DEF all, f
    <3>5. all \in Seq(Ids) /\ \A k \in 1..f : all[k] = Wrap(a, k - 1)
      <4>1. \A k \in 1..f : 0 + k - 1 = k - 1
        BY <3>3
      <4> QED BY <4>1, <3>2 DEF InRow
    <3>6. ASSUME NEW k \in 1..f PROVE Succ(all[k]) = Wrap(a, k)
      <4>1. k - 1 \in 0..MaxFlight /\ k - 1 # MaxFlight /\ (k - 1) + 1 = k
        BY <3>3
      <4>2. all[k] = Wrap(a, k - 1)
        BY <3>5
      <4>3. Succ(Wrap(a, k - 1)) = Wrap(a, (k - 1) + 1)
        BY <4>1, WrapId
      <4> QED BY <4>1, <4>2, <4>3
    <3>7. ASSUME NEW i \in 1..Len(all) - 1 PROVE all[i + 1] = Succ(all[i])
      <4>1. i \in 1..f /\ i + 1 \in 1..f /\ (i + 1) - 1 = i
        BY <3>2, <3>3
      <4>2. all[i + 1] = Wrap(a, (i + 1) - 1)
        BY <4>1, <3>5
      <4> QED BY <4>1, <4>2, <3>6
    <3>8. all # <<>> => Succ(Last(all)) = shell.next
      <4> SUFFICES ASSUME all # <<>> PROVE Succ(Last(all)) = shell.next
        OBVIOUS
      <4>1. f \in Nat \ {0} /\ Last(all) = all[f]
        BY <3>2, <3>5, EmptySeq DEF Last
      <4>2. f \in 1..f
        BY <4>1
      <4> QED BY <4>1, <4>2, <3>4, <3>6
    <3> QED BY <3>7, <3>8, <2>1
  <2> QED BY <2>3, <2>4
<1> QED BY <1>1, Invariance, PTL

\* Between the confirmation of a pause, a hide or a stop and the next accepted
\* start, scheduler-run-v7-slice executes no slice: not by a run that was
\* queued before, and not by a disk completion for a guest that waited.
THEOREM PauseHeld == Spec => PauseHolds
<1>1. SInv /\ [Next]_vars => [worker.run = None /\ worker'.run # None => ~barred]_vars
  <2> SUFFICES ASSUME SInv, Next, worker.run = None, worker'.run # None
               PROVE  ~barred
    BY DEF vars
  <2>1. worker' # worker
    OBVIOUS
  <2>2. ~Terminated
    <3>1. Terminated => worker'.run = None
      BY TerminatedWorker DEF Terminated
    <3> QED BY <3>1
  <2>3. \A phase, reason : ~Close(phase, reason)
    BY <2>2 DEF Close
  <2>4. WorkerHandles \/ WorkerBegins \/ WorkerCaptures \/ WorkerFinishes
    <3>1. ~Submit /\ ~Release /\ ~Restore /\ ~Pause /\ ~Serve
      BY <2>1 DEF Submit, Release, Restore, Pause, Serve
    <3>2. ~Resume /\ ~ResumeOutsidePaused /\ ~SubmitInput /\ ~Stop /\ ~Begin
      BY <2>1, <2>3 DEF Resume, ResumeOutsidePaused, SubmitInput, Stop, Begin, Lose, wvars
    <3>3. ~ReceiveUnknown /\ ~ReceiveNeutral /\ ~ReceiveRestore
      BY <2>1, <2>3 DEF ReceiveUnknown, ReceiveNeutral, ReceiveRestore, Lose, Taken
    <3>4. ~ReceivePublic /\ ~ReceiveNext /\ ~ReceiveComplete
      BY <2>1, <2>3 DEF ReceivePublic, ReceiveNext, ReceiveComplete, Lose, Taken
    <3>5. ~TimeOut /\ ~WorkerDies
      BY <2>1, <2>3 DEF TimeOut, WorkerDies, Lose, wvars
    <3> QED BY <3>1, <3>2, <3>3, <3>4, <3>5 DEF Next
  <2>5. ~WorkerCaptures
    BY DEF WorkerCaptures, Capture
  <2>6. ~WorkerHandles /\ ~WorkerFinishes
    <3>1. Handle(env.faults) => worker'.run = None
      BY HandleStep
    <3>2. FinishRun \/ ApplyDeferred => worker'.run = None
      BY FinishStep, ApplyStep
    <3> QED BY <3>1, <3>2 DEF WorkerHandles, WorkerFinishes
  <2>7. BeginRun
    BY <2>4, <2>5, <2>6 DEF WorkerBegins
  <2>8. Runnable(worker)
    <3>1. worker \in Workers
      BY PageTypes
    <3> QED BY <3>1, <2>7, KnownWorker DEF BeginRun, Known
  <2> QED BY <2>8, PageTypes DEF Runnable, Halts
<1> QED BY <1>1, Invariance, PTL DEF Spec, PauseHolds

\* releaseInput: when the shell has a release confirmed and has not restored
\* ingress since, the worker holds no input and none is on its way to it,
\* whichever posts, timeouts and late or stale answers came in between.
THEOREM NeutralConfirmed == Spec => []NeutralWhenConfirmed
<1>1. SInv => NeutralWhenConfirmed
  <2> SUFFICES ASSUME SInv, ~shell.ingress, shell.neutral
               PROVE  ~worker.held /\ \A i \in DOMAIN inbox : inbox[i].op # "input"
    BY DEF NeutralWhenConfirmed
  <2>1. ~worker.held /\ NoInput(inbox)
    BY Parts DEF Page, Releases
  <2>2. DOMAIN inbox = 1..Len(inbox)
    BY PageTypes
  <2> QED BY <2>1, <2>2 DEF NoInput
<1> QED BY <1>1, Invariance, PTL

=============================================================================
