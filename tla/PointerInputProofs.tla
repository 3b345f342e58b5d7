------------------------- MODULE PointerInputProofs -------------------------
(***************************************************************************)
(* Proofs about PointerInput, for every set of buttons and keys, every     *)
(* MaxEpoch and every MaxFlight.  The argument is about the line of        *)
(* messages between the page and the worker and back: which requests may   *)
(* stand behind which (InOrder), and what the replies on the line will     *)
(* still do to the mirror when they arrive (Holds, Gens, Neutral,          *)
(* Capture).  The parts of the invariant take the state they speak of as   *)
(* arguments, so that a part a step leaves alone is never opened.          *)
(***************************************************************************)
EXTENDS PointerInput, SequenceTheorems, TLAPS

Ops == {"down", "up", "motion", "release", "loss",
        "key-down", "key-up", "focus-lost"}

\* Only a physical press takes the capture.
Wire == {q \in Requests : q.op = "down" /\ q.first => q.src = "physical"}

Answered(q) == q.op \in {"down", "up", "release", "loss"}

Replies == [request : {q \in Wire : Answered(q)}, ok : BOOLEAN,
            prior : 0..MaxEpoch, next : 0..MaxEpoch]

\* The requests on the line, P on the way back and W on the way there.
Flying(P, W) == ToSet(W) \cup {r.request : r \in ToSet(P)}

IsPress(q) == q.op = "down" /\ q.src = "physical"

TransIn(F) == \E q \in F : IsTransition(q)
PressIn(F) == \E q \in F : IsPress(q)
FirstIn(F) == \E q \in F : q.op = "down" /\ q.first
LossIn(F) == \E q \in F : q.op = "loss"

-----------------------------------------------------------------------------
\* The invariant

PageTypes(br, e, ak, ph, ac, ca, ma, cr) ==
  /\ br \in BrowserStates /\ e \in 0..MaxEpoch
  /\ ak \in BOOLEAN /\ ca \in BOOLEAN /\ ma \in BOOLEAN /\ cr \in BOOLEAN
  /\ ph \subseteq Buttons /\ ac \subseteq Buttons

WorkerType(w) ==
  w \in [gen : 0..MaxEpoch, held : SUBSET Buttons,
         keys : SUBSET Keys, failed : BOOLEAN]

Queues(P, W) ==
  /\ W \in Seq(Wire) /\ P \in Seq(Replies)
  /\ Len(P) \in Nat /\ Len(W) \in Nat /\ Len(W) + Len(P) <= MaxFlight

\* q may stand behind p: behind a loss there is no pointer request, a loss is
\* posted when no transition is pending, and the press that takes capture is
\* alone - unless the capture was dropped under a press (c, for crossed).
Before(p, q, c) ==
  /\ p.op = "loss" => ~IsPointer(q)
  /\ q.op = "loss" => ~IsTransition(p)
  /\ ~c /\ IsPress(p) /\ IsPress(q) => ~p.first /\ ~q.first

InOrder(P, W, c) ==
  /\ \A i, j \in 1..Len(P) : i < j => Before(P[i].request, P[j].request, c)
  /\ \A i \in 1..Len(P) : \A j \in 1..Len(W) : Before(P[i].request, W[j], c)
  /\ \A i, j \in 1..Len(W) : i < j => Before(W[i], W[j], c)

Gives(r, b) == r.ok /\ r.request.op = "down" /\ r.request.button = b

Takes(r, b) ==
  /\ r.ok
  /\ \/ r.request.op \in {"release", "loss"}
     \/ r.request.op = "up" /\ r.request.button = b

\* A button the guest holds is in a mirror or a reply on the line will put it
\* there, and a reply that takes it out is followed by one that puts it back.
Holds(br, w, ph, ac, P) ==
  br # "TERMINAL" =>
    \A b \in w.held :
      /\ b \in ph \/ b \in ac \/ \E i \in 1..Len(P) : Gives(P[i], b)
      /\ \A j \in 1..Len(P) : Takes(P[j], b) =>
           \E i \in 1..Len(P) : j < i /\ Gives(P[i], b)

Done(r) == r.ok /\ r.request.op = "loss"

\* A loss the worker carried out left it neutral and one generation ahead.
Gens(br, w, e, P, W) ==
  br # "TERMINAL" =>
    /\ \A r \in ToSet(P) : Done(r) =>
         /\ w.held = {} /\ w.gen = e + 1
         /\ r.prior = e /\ r.next = e + 1 /\ e < MaxEpoch
    /\ (\A r \in ToSet(P) : ~Done(r)) => w.gen = e
    /\ \A q \in ToSet(W) : IsPointer(q) => q.gen = w.gen

Neutralized(br, w, ph, ac, ca, F) ==
  /\ br = "SUSPENDED" =>
       /\ w.held = {} /\ ph = {} /\ ac = {} /\ ~ca
       /\ \A q \in F : q.op \notin {"down", "up", "motion", "loss"}
  /\ LossIn(F) => ~ca

\* The press that takes capture owns it before the mask shows the button.
Capture(br, ph, ca, cr, F) ==
  br # "TERMINAL" /\ ~cr /\ ~LossIn(F) =>
    /\ FirstIn(F) => ph = {} /\ ca /\ br = "ACTIVE"
    /\ ~FirstIn(F) =>
         /\ ca <=> ph # {}
         /\ ca <=> br = "CAPTURED"
         /\ PressIn(F) => ca

Inv ==
  /\ PageTypes(browser, epoch, acked, phys, acc, captured, mapped, crossed)
  /\ WorkerType(worker)
  /\ Queues(toPage, toWorker)
  /\ InOrder(toPage, toWorker, crossed)
  /\ Holds(browser, worker, phys, acc, toPage)
  /\ Gens(browser, worker, epoch, toPage, toWorker)
  /\ Neutralized(browser, worker, phys, acc, captured, Flying(toPage, toWorker))
  /\ Capture(browser, phys, captured, crossed, Flying(toPage, toWorker))

-----------------------------------------------------------------------------
\* Requests and what they carry

LEMMA WireFields ==
  ASSUME NEW q \in Wire
  PROVE  /\ q.op \in Ops
         /\ IsTransition(q) => /\ q.src \in {"physical", "accessibility"}
                               /\ q.button \in Buttons /\ q.first \in BOOLEAN
         /\ IsPointer(q) => q.gen \in 0..MaxEpoch
         /\ q.op = "down" /\ q.first => q.src = "physical"
         /\ q.op \in {"key-down", "key-up"} => q.key \in Keys
BY DEF Wire, Requests, Ops, IsTransition, IsPointer, FocusLost

LEMMA WireTransition ==
  ASSUME epoch \in 0..MaxEpoch, NEW op \in {"down", "up"},
         NEW src \in {"physical", "accessibility"}, NEW b \in Buttons,
         NEW first \in BOOLEAN, op = "down" /\ first => src = "physical",
         NEW q, q = Transition(op, src, b, first)
  PROVE  /\ q \in Wire
         /\ q.op = op /\ q.src = src /\ q.button = b /\ q.first = first
         /\ q.gen = epoch /\ IsTransition(q) /\ IsPointer(q)
         /\ q.op # "loss"
BY DEF Wire, Requests, Transition, IsTransition, IsPointer

LEMMA WireEdge ==
  ASSUME epoch \in 0..MaxEpoch, NEW op \in {"down", "up"},
         NEW src \in {"physical", "accessibility"}, NEW b \in Buttons,
         op = "down" => src # "physical",
         NEW q, q = Transition(op, src, b, FALSE)
  PROVE  /\ q \in Wire /\ q.op # "loss" /\ q.gen = epoch
         /\ q.first = FALSE /\ ~IsPress(q)
BY DEF Wire, Requests, Transition, IsPress

LEMMA WireNeutralize ==
  ASSUME epoch \in 0..MaxEpoch, NEW op \in {"release", "loss"},
         NEW q, q = Neutralize(op)
  PROVE  /\ q \in Wire /\ q.op = op /\ q.gen = epoch
         /\ ~IsTransition(q) /\ IsPointer(q) /\ ~IsPress(q)
BY DEF Wire, Requests, Neutralize, IsTransition, IsPointer, IsPress

LEMMA WireMotion ==
  ASSUME epoch \in 0..MaxEpoch
  PROVE  /\ Motion \in Wire /\ Motion.op = "motion" /\ Motion.gen = epoch
         /\ ~IsTransition(Motion) /\ IsPointer(Motion) /\ ~IsPress(Motion)
BY DEF Wire, Requests, Motion, IsTransition, IsPointer, IsPress

LEMMA WireKeyboard ==
  ASSUME NEW q,
         \/ q = FocusLost
         \/ \E op \in {"key-down", "key-up"}, k \in Keys : q = KeyEdge(op, k)
  PROVE  /\ q \in Wire /\ q.op \in {"key-down", "key-up", "focus-lost"}
         /\ ~IsTransition(q) /\ ~IsPointer(q) /\ ~IsPress(q)
BY DEF Wire, Requests, KeyEdge, FocusLost, IsTransition, IsPointer, IsPress

-----------------------------------------------------------------------------
\* The line of messages

LEMMA AppendToSet ==
  ASSUME NEW S, NEW s \in Seq(S), NEW x \in S
  PROVE  ToSet(Append(s, x)) = ToSet(s) \cup {x}
<1>1. /\ Append(s, x) \in Seq(S) /\ Len(Append(s, x)) = Len(s) + 1
      /\ \A i \in 1..Len(s) : Append(s, x)[i] = s[i]
      /\ Append(s, x)[Len(s) + 1] = x
  BY AppendProperties
<1>2. /\ DOMAIN s = 1..Len(s) /\ Len(s) \in Nat
      /\ DOMAIN Append(s, x) = 1..Len(Append(s, x))
  BY <1>1, LenProperties
<1>3. 1..(Len(s) + 1) = (1..Len(s)) \cup {Len(s) + 1}
  BY <1>2
<1> QED BY <1>1, <1>2, <1>3 DEF ToSet

LEMMA HeadToSet ==
  ASSUME NEW S, NEW s \in Seq(S), s # <<>>
  PROVE  /\ Head(s) \in S /\ Head(s) = s[1] /\ Head(s) \in ToSet(s)
         /\ ToSet(s) = {Head(s)} \cup ToSet(Tail(s))
         /\ Len(s) \in Nat \ {0}
<1>1. /\ Head(s) \in S /\ Tail(s) \in Seq(S) /\ Len(Tail(s)) = Len(s) - 1
      /\ \A i \in 1..Len(Tail(s)) : Tail(s)[i] = s[i + 1]
  BY HeadTailProperties
<1>2. /\ DOMAIN s = 1..Len(s) /\ Len(s) \in Nat \ {0}
      /\ DOMAIN Tail(s) = 1..Len(Tail(s))
  BY <1>1, LenProperties, EmptySeq
<1>3. Head(s) = s[1]
  OBVIOUS
<1>4. Head(s) \in ToSet(s)
  BY <1>2, <1>3 DEF ToSet
<1>5. ASSUME NEW x \in ToSet(s) PROVE x \in {Head(s)} \cup ToSet(Tail(s))
  <2>1. PICK i \in 1..Len(s) : x = s[i]
    BY <1>2 DEF ToSet
  <2>2. CASE i = 1
    BY <2>1, <2>2, <1>3
  <2>3. CASE i # 1
    <3>1. i - 1 \in 1..Len(Tail(s)) /\ i - 1 + 1 = i
      BY <2>3, <1>1, <1>2
    <3> QED BY <3>1, <2>1, <1>1, <1>2 DEF ToSet
  <2> QED BY <2>2, <2>3
<1>6. ASSUME NEW x \in ToSet(Tail(s)) PROVE x \in ToSet(s)
  <2>1. PICK i \in 1..Len(Tail(s)) : x = Tail(s)[i]
    BY <1>2 DEF ToSet
  <2>2. i + 1 \in 1..Len(s)
    BY <1>1, <1>2
  <2> QED BY <2>1, <2>2, <1>1, <1>2 DEF ToSet
<1> QED BY <1>1, <1>2, <1>3, <1>4, <1>5, <1>6

LEMMA InToSet ==
  ASSUME NEW S, NEW s \in Seq(S)
  PROVE  /\ \A i \in 1..Len(s) : s[i] \in ToSet(s) /\ s[i] \in S
         /\ \A x \in ToSet(s) : x \in S /\ \E i \in 1..Len(s) : x = s[i]
<1>1. DOMAIN s = 1..Len(s) /\ s \in [1..Len(s) -> S]
  BY LenProperties
<1> QED BY <1>1 DEF ToSet

LEMMA PickToSet ==
  ASSUME NEW S, NEW s \in Seq(S), NEW x \in ToSet(s)
  PROVE  \E i \in 1..Len(s) : x = s[i]
BY InToSet

\* Posting puts q behind everything on the line.
LEMMA PostQueues ==
  ASSUME NEW P, NEW W, NEW q \in Wire, Queues(P, W),
         Len(W) + Len(P) < MaxFlight
  PROVE  /\ Queues(P, Append(W, q))
         /\ Flying(P, Append(W, q)) = Flying(P, W) \cup {q}
         /\ ToSet(Append(W, q)) = ToSet(W) \cup {q}
         /\ Len(Append(W, q)) = Len(W) + 1
<1>1. /\ W \in Seq(Wire) /\ P \in Seq(Replies)
      /\ Len(P) \in Nat /\ Len(W) \in Nat
  BY DEF Queues
<1>2. Append(W, q) \in Seq(Wire) /\ Len(Append(W, q)) = Len(W) + 1
  BY <1>1, AppendProperties
<1>3. ToSet(Append(W, q)) = ToSet(W) \cup {q}
  BY <1>1, AppendToSet
<1>4. Len(Append(W, q)) + Len(P) <= MaxFlight
  BY <1>1, <1>2, BoundAssumption
<1>5. Queues(P, Append(W, q))
  BY <1>1, <1>2, <1>4 DEF Queues
<1> QED BY <1>2, <1>3, <1>5 DEF Flying

LEMMA PostOrder ==
  ASSUME NEW P, NEW W, NEW q \in Wire, NEW c \in BOOLEAN, Queues(P, W),
         InOrder(P, W, c), \A x \in Flying(P, W) : Before(x, q, c)
  PROVE  InOrder(P, Append(W, q), c)
<1>1. /\ W \in Seq(Wire) /\ P \in Seq(Replies)
      /\ Len(P) \in Nat /\ Len(W) \in Nat
  BY DEF Queues
<1>2. /\ Len(Append(W, q)) = Len(W) + 1
      /\ \A i \in 1..Len(W) : Append(W, q)[i] = W[i]
      /\ Append(W, q)[Len(W) + 1] = q
  BY <1>1, AppendProperties
<1>3. \A i \in 1..Len(P) : Before(P[i].request, q, c)
  BY <1>1, InToSet DEF Flying
<1>4. \A i \in 1..Len(W) : Before(W[i], q, c)
  BY <1>1, InToSet DEF Flying
<1>5. /\ \A i, j \in 1..Len(P) : i < j => Before(P[i].request, P[j].request, c)
      /\ \A i \in 1..Len(P) : \A j \in 1..Len(W) : Before(P[i].request, W[j], c)
      /\ \A i, j \in 1..Len(W) : i < j => Before(W[i], W[j], c)
  BY DEF InOrder
<1>6. ASSUME NEW i \in 1..Len(P), NEW j \in 1..Len(Append(W, q))
      PROVE  Before(P[i].request, Append(W, q)[j], c)
  <2>1. CASE j \in 1..Len(W)
    BY <2>1, <1>2, <1>5
  <2>2. CASE j = Len(W) + 1
    BY <2>2, <1>2, <1>3
  <2> QED BY <2>1, <2>2, <1>1, <1>2
<1>7. ASSUME NEW i \in 1..Len(Append(W, q)), NEW j \in 1..Len(Append(W, q)),
             i < j
      PROVE  Before(Append(W, q)[i], Append(W, q)[j], c)
  <2>1. i \in 1..Len(W)
    BY <1>1, <1>2, <1>7
  <2>2. CASE j \in 1..Len(W)
    BY <2>1, <2>2, <1>2, <1>5, <1>7
  <2>3. CASE j = Len(W) + 1
    BY <2>1, <2>3, <1>2, <1>4
  <2> QED BY <2>2, <2>3, <1>1, <1>2
<1> QED BY <1>5, <1>6, <1>7 DEF InOrder

\* What stands behind what, request by request.
LEMMA OrderSets ==
  ASSUME NEW P, NEW W, NEW c \in BOOLEAN, Queues(P, W), InOrder(P, W, c)
  PROVE  \A r \in ToSet(P) : \A q \in ToSet(W) : Before(r.request, q, c)
<1>1. W \in Seq(Wire) /\ P \in Seq(Replies)
  BY DEF Queues
<1>2. \A i \in 1..Len(P) : \A j \in 1..Len(W) : Before(P[i].request, W[j], c)
  BY DEF InOrder
<1> QED BY <1>1, <1>2, InToSet

LEMMA FlyingWire ==
  ASSUME NEW P, NEW W, Queues(P, W)
  PROVE  /\ Flying(P, W) \subseteq Wire
         /\ \A r \in ToSet(P) : /\ r \in Replies /\ r.request \in Flying(P, W)
                                /\ r.request \in Wire /\ Answered(r.request)
                                /\ r.ok \in BOOLEAN
         /\ ToSet(W) \subseteq Flying(P, W)
<1>1. W \in Seq(Wire) /\ P \in Seq(Replies)
  BY DEF Queues
<1>2. \A r \in ToSet(P) : r \in Replies
  BY <1>1, InToSet
<1>3. \A q \in ToSet(W) : q \in Wire
  BY <1>1, InToSet
<1>4. \A r \in Replies : r.request \in Wire /\ Answered(r.request) /\ r.ok \in BOOLEAN
  BY DEF Replies
<1> QED BY <1>2, <1>3, <1>4 DEF Flying

\* The worker takes the head; what is behind it is behind it.
LEMMA HandleLine ==
  ASSUME NEW P, NEW W, NEW c \in BOOLEAN, Queues(P, W), InOrder(P, W, c),
         W # <<>>
  PROVE  /\ Head(W) \in Wire /\ Head(W) \in ToSet(W)
         /\ Queues(P, Tail(W)) /\ InOrder(P, Tail(W), c)
         /\ \A x \in ToSet(Tail(W)) : Before(Head(W), x, c)
         /\ \A r \in ToSet(P) : Before(r.request, Head(W), c)
         /\ Len(Tail(W)) + Len(P) < MaxFlight
         /\ Len(Tail(W)) < Len(W)
<1>1. /\ W \in Seq(Wire) /\ P \in Seq(Replies)
      /\ Len(P) \in Nat /\ Len(W) \in Nat /\ Len(W) + Len(P) <= MaxFlight
  BY DEF Queues
<1>2. /\ Tail(W) \in Seq(Wire) /\ Len(Tail(W)) = Len(W) - 1
      /\ \A i \in 1..Len(Tail(W)) : Tail(W)[i] = W[i + 1]
  BY <1>1, HeadTailProperties
<1>3. /\ Head(W) \in Wire /\ Head(W) = W[1] /\ Head(W) \in ToSet(W)
      /\ ToSet(W) = {Head(W)} \cup ToSet(Tail(W)) /\ Len(W) \in Nat \ {0}
  BY <1>1, HeadToSet
<1>4. /\ \A i, j \in 1..Len(P) : i < j => Before(P[i].request, P[j].request, c)
      /\ \A i \in 1..Len(P) : \A j \in 1..Len(W) : Before(P[i].request, W[j], c)
      /\ \A i, j \in 1..Len(W) : i < j => Before(W[i], W[j], c)
  BY DEF InOrder
<1>5. /\ Len(Tail(W)) + Len(P) < MaxFlight /\ Len(Tail(W)) < Len(W)
      /\ Len(Tail(W)) \in Nat
  BY <1>1, <1>2, <1>3, BoundAssumption
<1>6. Queues(P, Tail(W))
  BY <1>1, <1>2, <1>5, BoundAssumption DEF Queues
<1>7. ASSUME NEW j \in 1..Len(Tail(W)) PROVE j + 1 \in 1..Len(W)
  BY <1>2, <1>3
<1>8. \A i \in 1..Len(P) : \A j \in 1..Len(Tail(W)) :
        Before(P[i].request, Tail(W)[j], c)
  BY <1>2, <1>4, <1>7
<1>9. ASSUME NEW i \in 1..Len(Tail(W)), NEW j \in 1..Len(Tail(W)), i < j
      PROVE  Before(Tail(W)[i], Tail(W)[j], c)
  <2>1. /\ i + 1 \in 1..Len(W) /\ j + 1 \in 1..Len(W) /\ i + 1 < j + 1
    BY <1>7, <1>9
  <2> QED BY <2>1, <1>2, <1>4
<1>10. InOrder(P, Tail(W), c)
  BY <1>4, <1>8, <1>9 DEF InOrder
<1>11. ASSUME NEW x \in ToSet(Tail(W)) PROVE Before(Head(W), x, c)
  <2>1. PICK j \in 1..Len(Tail(W)) : x = Tail(W)[j]
    BY <1>2, PickToSet
  <2>2. /\ j + 1 \in 1..Len(W) /\ 1 \in 1..Len(W) /\ 1 < j + 1
    BY <1>7, <1>3
  <2>3. Before(W[1], W[j + 1], c)
    BY <2>2, <1>4
  <2> QED BY <2>1, <2>3, <1>2, <1>3
<1>12. \A r \in ToSet(P) : Before(r.request, Head(W), c)
  BY <1>3, OrderSets
<1> QED BY <1>3, <1>5, <1>6, <1>10, <1>11, <1>12

LEMMA HandleSets ==
  ASSUME NEW P, NEW W, Queues(P, W), W # <<>>
  PROVE  /\ ToSet(W) = {Head(W)} \cup ToSet(Tail(W))
         /\ Flying(P, W) = {Head(W)} \cup Flying(P, Tail(W))
<1>1. W \in Seq(Wire)
  BY DEF Queues
<1>2. ToSet(W) = {Head(W)} \cup ToSet(Tail(W))
  BY <1>1, HeadToSet
<1> QED BY <1>2 DEF Flying

\* Its reply is the last on the way back.
LEMMA ReplyLine ==
  ASSUME NEW P, NEW V, NEW r \in Replies, NEW c \in BOOLEAN,
         Queues(P, V), InOrder(P, V, c), Len(V) + Len(P) < MaxFlight,
         \A x \in ToSet(V) : Before(r.request, x, c),
         \A s \in ToSet(P) : Before(s.request, r.request, c)
  PROVE  /\ Queues(Append(P, r), V) /\ InOrder(Append(P, r), V, c)
         /\ ToSet(Append(P, r)) = ToSet(P) \cup {r}
         /\ Flying(Append(P, r), V) = Flying(P, V) \cup {r.request}
         /\ Len(Append(P, r)) = Len(P) + 1
         /\ \A i \in 1..Len(P) : Append(P, r)[i] = P[i]
         /\ Append(P, r)[Len(P) + 1] = r
<1>1. /\ V \in Seq(Wire) /\ P \in Seq(Replies)
      /\ Len(P) \in Nat /\ Len(V) \in Nat
  BY DEF Queues
<1>2. /\ Append(P, r) \in Seq(Replies) /\ Len(Append(P, r)) = Len(P) + 1
      /\ \A i \in 1..Len(P) : Append(P, r)[i] = P[i]
      /\ Append(P, r)[Len(P) + 1] = r
  BY <1>1, AppendProperties
<1>3. ToSet(Append(P, r)) = ToSet(P) \cup {r}
  BY <1>1, AppendToSet
<1>4. Flying(Append(P, r), V) = Flying(P, V) \cup {r.request}
  BY <1>3 DEF Flying
<1>5. Len(V) + Len(Append(P, r)) <= MaxFlight
  BY <1>1, <1>2, BoundAssumption
<1>6. Queues(Append(P, r), V)
  BY <1>1, <1>2, <1>5 DEF Queues
<1>7. /\ \A i, j \in 1..Len(P) : i < j => Before(P[i].request, P[j].request, c)
      /\ \A i \in 1..Len(P) : \A j \in 1..Len(V) : Before(P[i].request, V[j], c)
      /\ \A i, j \in 1..Len(V) : i < j => Before(V[i], V[j], c)
  BY DEF InOrder
<1>8. \A j \in 1..Len(V) : Before(r.request, V[j], c)
  BY <1>1, InToSet
<1>9. \A i \in 1..Len(P) : Before(P[i].request, r.request, c)
  BY <1>1, InToSet
<1>10. ASSUME NEW i \in 1..Len(Append(P, r)), NEW j \in 1..Len(V)
       PROVE  Before(Append(P, r)[i].request, V[j], c)
  <2>1. CASE i \in 1..Len(P)
    BY <2>1, <1>2, <1>7
  <2>2. CASE i = Len(P) + 1
    BY <2>2, <1>2, <1>8
  <2> QED BY <2>1, <2>2, <1>1, <1>2
<1>11. ASSUME NEW i \in 1..Len(Append(P, r)), NEW j \in 1..Len(Append(P, r)),
              i < j
       PROVE  Before(Append(P, r)[i].request, Append(P, r)[j].request, c)
  <2>1. i \in 1..Len(P)
    BY <1>1, <1>2, <1>11
  <2>2. CASE j \in 1..Len(P)
    BY <2>1, <2>2, <1>2, <1>7, <1>11
  <2>3. CASE j = Len(P) + 1
    BY <2>1, <2>3, <1>2, <1>9
  <2> QED BY <2>2, <2>3, <1>1, <1>2
<1>12. InOrder(Append(P, r), V, c)
  BY <1>7, <1>10, <1>11 DEF InOrder
<1> QED BY <1>2, <1>3, <1>4, <1>6, <1>12

\* The page takes the first reply; everything else on the line is behind it.
LEMMA ReceiveLine ==
  ASSUME NEW P, NEW W, NEW c \in BOOLEAN, Queues(P, W), InOrder(P, W, c),
         P # <<>>
  PROVE  /\ Head(P) \in Replies /\ Head(P) \in ToSet(P) /\ Head(P) = P[1]
         /\ ToSet(P) = {Head(P)} \cup ToSet(Tail(P))
         /\ Queues(Tail(P), W) /\ InOrder(Tail(P), W, c)
         /\ Flying(P, W) = {Head(P).request} \cup Flying(Tail(P), W)
         /\ \A x \in Flying(Tail(P), W) : Before(Head(P).request, x, c)
         /\ Len(P) \in Nat \ {0} /\ Len(Tail(P)) = Len(P) - 1
         /\ \A i \in 1..Len(Tail(P)) : Tail(P)[i] = P[i + 1]
<1>1. /\ W \in Seq(Wire) /\ P \in Seq(Replies)
      /\ Len(P) \in Nat /\ Len(W) \in Nat /\ Len(W) + Len(P) <= MaxFlight
  BY DEF Queues
<1>2. /\ Tail(P) \in Seq(Replies) /\ Len(Tail(P)) = Len(P) - 1
      /\ \A i \in 1..Len(Tail(P)) : Tail(P)[i] = P[i + 1]
  BY <1>1, HeadTailProperties
<1>3. /\ Head(P) \in Replies /\ Head(P) = P[1] /\ Head(P) \in ToSet(P)
      /\ ToSet(P) = {Head(P)} \cup ToSet(Tail(P)) /\ Len(P) \in Nat \ {0}
  BY <1>1, HeadToSet
<1>4. /\ \A i, j \in 1..Len(P) : i < j => Before(P[i].request, P[j].request, c)
      /\ \A i \in 1..Len(P) : \A j \in 1..Len(W) : Before(P[i].request, W[j], c)
      /\ \A i, j \in 1..Len(W) : i < j => Before(W[i], W[j], c)
  BY DEF InOrder
<1>5. Len(Tail(P)) \in Nat /\ Len(W) + Len(Tail(P)) <= MaxFlight
  BY <1>1, <1>2, <1>3, BoundAssumption
<1>6. Queues(Tail(P), W)
  BY <1>1, <1>2, <1>5 DEF Queues
<1>7. ASSUME NEW j \in 1..Len(Tail(P)) PROVE j + 1 \in 1..Len(P)
  BY <1>2, <1>3
<1>8. \A i \in 1..Len(Tail(P)) : \A j \in 1..Len(W) :
        Before(Tail(P)[i].request, W[j], c)
  BY <1>2, <1>4, <1>7
<1>9. ASSUME NEW i \in 1..Len(Tail(P)), NEW j \in 1..Len(Tail(P)), i < j
      PROVE  Before(Tail(P)[i].request, Tail(P)[j].request, c)
  <2>1. /\ i + 1 \in 1..Len(P) /\ j + 1 \in 1..Len(P) /\ i + 1 < j + 1
    BY <1>7, <1>9
  <2> QED BY <2>1, <1>2, <1>4
<1>10. InOrder(Tail(P), W, c)
  BY <1>4, <1>8, <1>9 DEF InOrder
<1>11. ASSUME NEW s \in ToSet(Tail(P)) PROVE Before(Head(P).request, s.request, c)
  <2>1. PICK j \in 1..Len(Tail(P)) : s = Tail(P)[j]
    BY <1>2, PickToSet
  <2>2. /\ j + 1 \in 1..Len(P) /\ 1 \in 1..Len(P) /\ 1 < j + 1
    BY <1>7, <1>3
  <2>3. Before(P[1].request, P[j + 1].request, c)
    BY <2>2, <1>4
  <2> QED BY <2>1, <2>3, <1>2, <1>3
<1>12. \A q \in ToSet(W) : Before(Head(P).request, q, c)
  BY <1>3, OrderSets
<1>13. Flying(P, W) = {Head(P).request} \cup Flying(Tail(P), W)
  BY <1>3 DEF Flying
<1>14. \A x \in Flying(Tail(P), W) : Before(Head(P).request, x, c)
  BY <1>11, <1>12 DEF Flying
<1> QED BY <1>2, <1>3, <1>6, <1>10, <1>13, <1>14

\* The order holds under a dropped capture a fortiori, and trivially when no
\* press is on the line.
LEMMA OrderCrossed ==
  ASSUME NEW P, NEW W, NEW c \in BOOLEAN, NEW d \in BOOLEAN, Queues(P, W),
         InOrder(P, W, c), c = d \/ d \/ ~PressIn(Flying(P, W))
  PROVE  InOrder(P, W, d)
<1>1. W \in Seq(Wire) /\ P \in Seq(Replies)
  BY DEF Queues
<1>2. /\ \A i \in 1..Len(P) : P[i].request \in Flying(P, W)
      /\ \A i \in 1..Len(W) : W[i] \in Flying(P, W)
  BY <1>1, InToSet DEF Flying
<1>3. \A x, y \in Flying(P, W) : Before(x, y, c) => Before(x, y, d)
  BY DEF Before, PressIn
<1> QED BY <1>2, <1>3 DEF InOrder

-----------------------------------------------------------------------------
\* Parts that survive a step of the page

LEMMA HoldsMore ==
  ASSUME NEW br, NEW w, NEW ph, NEW ac, NEW P, NEW br2, NEW ph2, NEW ac2,
         Holds(br, w, ph, ac, P), br2 # "TERMINAL" => br # "TERMINAL",
         ph \cup ac \subseteq ph2 \cup ac2
  PROVE  Holds(br2, w, ph2, ac2, P)
BY DEF Holds

LEMMA GensPost ==
  ASSUME NEW br, NEW w, NEW e, NEW P, NEW W, NEW q \in Wire, NEW br2,
         Queues(P, W), Gens(br, w, e, P, W),
         br2 # "TERMINAL" => br # "TERMINAL",
         IsPointer(q) => q.gen = e /\ ~LossIn(Flying(P, W))
  PROVE  Gens(br2, w, e, P, Append(W, q))
<1>1. ToSet(Append(W, q)) = ToSet(W) \cup {q}
  BY AppendToSet DEF Queues
<1>2. ASSUME IsPointer(q) PROVE \A r \in ToSet(P) : ~Done(r)
  BY <1>2, FlyingWire DEF LossIn, Done
<1> QED BY <1>1, <1>2 DEF Gens

\* A step of the page that posts q and leaves the worker alone.
LEMMA PostLine ==
  ASSUME Inv, NEW q \in Wire, Post(q), Room,
         UNCHANGED <<worker, epoch, crossed>>,
         browser' # "TERMINAL" => browser # "TERMINAL",
         IsPointer(q) => q.gen = epoch /\ ~LossIn(InFlight),
         \A x \in InFlight : Before(x, q, crossed)
  PROVE  /\ InFlight = Flying(toPage, toWorker)
         /\ Flying(toPage', toWorker') = InFlight \cup {q}
         /\ WorkerType(worker') /\ Queues(toPage', toWorker')
         /\ InOrder(toPage', toWorker', crossed')
         /\ Gens(browser', worker', epoch', toPage', toWorker')
         /\ toPage' = toPage
<1>1. /\ InFlight = Flying(toPage, toWorker)
      /\ toWorker' = Append(toWorker, q) /\ toPage' = toPage
  BY DEF InFlight, Flying, Post
<1>2. /\ WorkerType(worker) /\ Queues(toPage, toWorker)
      /\ InOrder(toPage, toWorker, crossed) /\ crossed \in BOOLEAN
      /\ Gens(browser, worker, epoch, toPage, toWorker)
  BY DEF Inv, PageTypes
<1>3. Queues(toPage', toWorker') /\ Flying(toPage', toWorker') = InFlight \cup {q}
  BY <1>1, <1>2, PostQueues DEF Room
<1>4. InOrder(toPage', toWorker', crossed')
  BY <1>1, <1>2, PostOrder
<1>5. Gens(browser', worker', epoch', toPage', toWorker')
  BY <1>1, <1>2, GensPost
<1> QED BY <1>1, <1>2, <1>3, <1>4, <1>5

\* A step of the page that posts nothing and leaves the worker alone.
LEMMA NoPostLine ==
  ASSUME Inv, UNCHANGED <<worker, epoch, toPage, toWorker>>,
         browser' # "TERMINAL" => browser # "TERMINAL",
         crossed' \in BOOLEAN, crossed => crossed'
  PROVE  /\ InFlight = Flying(toPage, toWorker)
         /\ Flying(toPage', toWorker') = InFlight
         /\ WorkerType(worker') /\ Queues(toPage', toWorker')
         /\ InOrder(toPage', toWorker', crossed')
         /\ Gens(browser', worker', epoch', toPage', toWorker')
<1>1. InFlight = Flying(toPage, toWorker)
  BY DEF InFlight, Flying
<1>2. /\ WorkerType(worker) /\ Queues(toPage, toWorker)
      /\ InOrder(toPage, toWorker, crossed) /\ crossed \in BOOLEAN
      /\ Gens(browser, worker, epoch, toPage, toWorker)
  BY DEF Inv, PageTypes
<1>3. InOrder(toPage', toWorker', crossed')
  <2>1. crossed = crossed' \/ crossed'
    BY <1>2
  <2> QED BY <2>1, <1>2, OrderCrossed
<1> QED BY <1>1, <1>2, <1>3 DEF Gens

\* What the invariant says of the page.
LEMMA PageFacts ==
  ASSUME Inv
  PROVE  /\ PageTypes(browser, epoch, acked, phys, acc, captured, mapped, crossed)
         /\ Holds(browser, worker, phys, acc, toPage)
         /\ Neutralized(browser, worker, phys, acc, captured, InFlight)
         /\ Capture(browser, phys, captured, crossed, InFlight)
         /\ InFlight \subseteq Wire
         /\ DeactivationPending <=> LossIn(InFlight)
         /\ AnyPending <=> TransIn(InFlight)
         /\ PressPending <=> PressIn(InFlight)
         /\ FirstDownPending <=> FirstIn(InFlight)
<1>1. InFlight = Flying(toPage, toWorker)
  BY DEF InFlight, Flying
<1>2. InFlight \subseteq Wire
  BY <1>1, FlyingWire DEF Inv
<1> QED BY <1>1, <1>2 DEF Inv, DeactivationPending, AnyPending, PressPending,
           FirstDownPending, LossIn, TransIn, PressIn, FirstIn, IsPress

-----------------------------------------------------------------------------
\* Browser events

LEMMA PointerDownOK ==
  ASSUME Inv, NEW b \in Buttons, PointerDown(b)
  PROVE  Inv'
<1> DEFINE first == phys = {} /\ ~captured
           state == IF first THEN Activated ELSE browser
           q == Transition("down", "physical", b, first)
<1>1. /\ browser # "TERMINAL" /\ ~LossIn(InFlight) /\ ~FirstIn(InFlight)
      /\ mapped /\ Room
      /\ UNCHANGED <<acc, mapped, epoch, acked, worker, crossed>>
  BY PageFacts DEF PointerDown, CanPress, Terminal
<1>2. /\ PageTypes(browser, epoch, acked, phys, acc, captured, mapped, crossed)
      /\ Holds(browser, worker, phys, acc, toPage)
      /\ Neutralized(browser, worker, phys, acc, captured, InFlight)
      /\ Capture(browser, phys, captured, crossed, InFlight)
  BY PageFacts
<1>3. /\ first \in BOOLEAN /\ state \in BrowserStates /\ state # "TERMINAL"
      /\ first => phys = {} /\ ~captured
      /\ ~first => state = browser
      /\ state \notin {"ACTIVE", "SUSPENDED"} => state = browser
      /\ state = "SUSPENDED" => browser = "SUSPENDED"
      /\ browser = "CAPTURED" => state = "CAPTURED"
      /\ state # "IDLE" \/ ~first
  BY <1>1, <1>2 DEF Activated, PageTypes, BrowserStates, Accepting
<1>4. browser = "SUSPENDED" => first /\ state = "SUSPENDED"
  BY <1>2 DEF Neutralized, Activated
<1>5. /\ ~crossed /\ PressIn(InFlight) => captured
      /\ ~crossed => (captured <=> phys # {}) /\ (captured <=> browser = "CAPTURED")
  BY <1>1, <1>2 DEF Capture
<1>6. \/ /\ ~first \/ state \in Accepting
         /\ captured' = (captured \/ first) /\ b \in acc
         /\ CommitDown(b, first, state) /\ NoPost
      \/ /\ ~first \/ state \in Accepting
         /\ captured' = (captured \/ first) /\ b \notin acc
         /\ Post(q) /\ browser' = state /\ phys' = phys
      \/ /\ first /\ browser' = state
         /\ NoPost /\ UNCHANGED <<phys, captured>>
  BY DEF PointerDown
<1> HIDE DEF first, state
<1>7. CASE /\ ~first \/ state \in Accepting
           /\ captured' = (captured \/ first) /\ b \in acc
           /\ CommitDown(b, first, state) /\ NoPost
  <2>1. /\ phys' = phys \cup {b}
        /\ browser' = IF first THEN CaptureAcquired(state) ELSE state
        /\ UNCHANGED <<toPage, toWorker>>
    BY <1>7 DEF CommitDown, NoPost
  <2>2. /\ browser' \in BrowserStates /\ browser' # "TERMINAL"
        /\ browser' # "SUSPENDED"
        /\ first => browser' = "CAPTURED"
        /\ ~first => browser' = browser
    BY <2>1, <1>3, <1>4, <1>7 DEF CaptureAcquired, Accepting, BrowserStates
  <2>3. crossed' \in BOOLEAN /\ (crossed => crossed')
    BY <1>1, <1>2 DEF PageTypes
  <2>4. /\ Flying(toPage', toWorker') = InFlight
        /\ WorkerType(worker') /\ Queues(toPage', toWorker')
        /\ InOrder(toPage', toWorker', crossed')
        /\ Gens(browser', worker', epoch', toPage', toWorker')
    BY <1>1, <2>1, <2>3, NoPostLine
  <2>5. PageTypes(browser', epoch', acked', phys', acc', captured', mapped', crossed')
    BY <1>1, <1>2, <1>3, <1>7, <2>1, <2>2 DEF PageTypes
  <2>6. Holds(browser', worker', phys', acc', toPage')
    BY <1>1, <1>2, <2>1, HoldsMore
  <2>7. Neutralized(browser', worker', phys', acc', captured', InFlight)
    BY <1>1, <2>2 DEF Neutralized
  <2>8. ASSUME ~crossed
        PROVE  captured' /\ phys' # {} /\ browser' = "CAPTURED"
    <3>1. captured \/ first
      BY <1>5, <2>8 DEF first
    <3>2. browser' = "CAPTURED"
      BY <3>1, <1>5, <2>2, <2>8
    <3> QED BY <3>1, <3>2, <1>7, <2>1
  <2>9. Capture(browser', phys', captured', crossed', InFlight)
    BY <1>1, <2>8 DEF Capture
  <2> QED BY <2>4, <2>5, <2>6, <2>7, <2>9 DEF Inv
<1>8. CASE /\ ~first \/ state \in Accepting
           /\ captured' = (captured \/ first) /\ b \notin acc
           /\ Post(q) /\ browser' = state /\ phys' = phys
  <2>1. /\ q \in Wire /\ q.op = "down" /\ q.src = "physical" /\ q.button = b
        /\ q.first = first /\ q.gen = epoch /\ q.op # "loss" /\ IsPress(q)
    BY <1>2, <1>3, WireTransition DEF PageTypes, IsPress
  <2> HIDE DEF q
  <2>2. \A x \in InFlight : Before(x, q, crossed)
    BY <1>1, <1>3, <1>5, <2>1 DEF Before, LossIn, FirstIn, PressIn, IsPress
  <2>3. /\ Flying(toPage', toWorker') = InFlight \cup {q}
        /\ WorkerType(worker') /\ Queues(toPage', toWorker')
        /\ InOrder(toPage', toWorker', crossed')
        /\ Gens(browser', worker', epoch', toPage', toWorker')
        /\ toPage' = toPage
    BY <1>1, <1>8, <2>1, <2>2, PostLine
  <2>4. PageTypes(browser', epoch', acked', phys', acc', captured', mapped', crossed')
    BY <1>1, <1>2, <1>3, <1>8 DEF PageTypes
  <2>5. Holds(browser', worker', phys', acc', toPage')
    BY <1>1, <1>2, <1>8, <2>3, HoldsMore
  <2>6. /\ LossIn(InFlight \cup {q}) <=> LossIn(InFlight)
        /\ FirstIn(InFlight \cup {q}) <=> first
    BY <1>1, <2>1 DEF LossIn, FirstIn
  <2>7. browser' # "SUSPENDED"
    BY <1>3, <1>4, <1>8 DEF Accepting
  <2>8. Neutralized(browser', worker', phys', acc', captured', InFlight \cup {q})
    BY <1>1, <2>6, <2>7 DEF Neutralized
  <2>9. ASSUME ~crossed
        PROVE  /\ first => phys' = {} /\ captured' /\ browser' = "ACTIVE"
               /\ ~first => /\ captured' <=> phys' # {}
                            /\ captured' <=> browser' = "CAPTURED"
                            /\ captured'
    <3>1. CASE first
      <4>1. ~captured /\ browser # "CAPTURED" /\ phys = {}
        BY <3>1, <1>3, <1>5, <2>9
      <4>2. state = "ACTIVE"
        BY <3>1, <4>1, <1>3, <1>8 DEF Accepting
      <4> QED BY <3>1, <4>1, <4>2, <1>8
    <3>2. CASE ~first
      <4>1. captured
        BY <3>2, <1>5, <2>9 DEF first
      <4>2. captured'
        BY <4>1, <1>8
      <4> QED BY <3>2, <4>1, <4>2, <1>3, <1>5, <1>8, <2>9
    <3> QED BY <3>1, <3>2
  <2>10. Capture(browser', phys', captured', crossed', InFlight \cup {q})
    BY <1>1, <2>6, <2>9 DEF Capture
  <2> QED BY <2>3, <2>4, <2>5, <2>8, <2>10 DEF Inv
<1>9. CASE /\ first /\ browser' = state
           /\ NoPost /\ UNCHANGED <<phys, captured>>
  <2>1. UNCHANGED <<toPage, toWorker>>
    BY <1>9 DEF NoPost
  <2>2. crossed' \in BOOLEAN /\ (crossed => crossed')
    BY <1>1, <1>2 DEF PageTypes
  <2>3. /\ Flying(toPage', toWorker') = InFlight
        /\ WorkerType(worker') /\ Queues(toPage', toWorker')
        /\ InOrder(toPage', toWorker', crossed')
        /\ Gens(browser', worker', epoch', toPage', toWorker')
    BY <1>1, <2>1, <2>2, NoPostLine
  <2>4. PageTypes(browser', epoch', acked', phys', acc', captured', mapped', crossed')
    BY <1>1, <1>2, <1>3, <1>9 DEF PageTypes
  <2>5. Holds(browser', worker', phys', acc', toPage')
    BY <1>1, <1>2, <1>9, <2>1, HoldsMore
  <2>6. Neutralized(browser', worker', phys', acc', captured', InFlight)
    BY <1>1, <1>2, <1>3, <1>9 DEF Neutralized
  <2>7. Capture(browser', phys', captured', crossed', InFlight)
    BY <1>1, <1>2, <1>3, <1>5, <1>9 DEF Capture
  <2> QED BY <2>3, <2>4, <2>5, <2>6, <2>7 DEF Inv
<1> QED BY <1>6, <1>7, <1>8, <1>9

\* A request that is no press and no loss changes nothing for the capture.
LEMMA CapturePlain ==
  ASSUME NEW F, NEW q, ~IsPress(q), ~(q.op = "down" /\ q.first), q.op # "loss"
  PROVE  /\ LossIn(F \cup {q}) <=> LossIn(F)
         /\ FirstIn(F \cup {q}) <=> FirstIn(F)
         /\ PressIn(F \cup {q}) <=> PressIn(F)
BY DEF LossIn, FirstIn, PressIn

\* A release by the physical pointer, committed at once or when its reply comes.
LEMMA CommitUpCapture ==
  ASSUME Inv, NEW b \in Buttons, CommitUp(b), NEW G,
         PressIn(G) => PressIn(InFlight), FirstIn(G) <=> FirstIn(InFlight),
         LossIn(G) <=> LossIn(InFlight)
  PROVE  /\ phys' \subseteq phys /\ phys \subseteq phys' \cup {b}
         /\ captured' \in BOOLEAN /\ crossed' \in BOOLEAN
         /\ crossed => crossed'
         /\ captured' => captured
         /\ browser' \in BrowserStates
         /\ browser' = "TERMINAL" <=> browser = "TERMINAL"
         /\ browser' = "SUSPENDED" <=> browser = "SUSPENDED"
         /\ Capture(browser', phys', captured', crossed', G)
<1> DEFINE last == b \in phys /\ phys = {b}
<1>1. /\ phys' = phys \ {b}
      /\ captured' = (captured /\ ~last)
      /\ browser' = IF last THEN CaptureReleased(browser) ELSE browser
      /\ crossed' = (crossed \/ (last /\ PressPending))
  BY DEF CommitUp
<1>2. /\ PageTypes(browser, epoch, acked, phys, acc, captured, mapped, crossed)
      /\ Capture(browser, phys, captured, crossed, InFlight)
      /\ PressPending <=> PressIn(InFlight)
  BY PageFacts
<1>3. /\ phys' \subseteq phys /\ phys \subseteq phys' \cup {b}
      /\ captured' \in BOOLEAN /\ crossed' \in BOOLEAN
      /\ crossed => crossed'
      /\ captured' => captured
  BY <1>1, <1>2 DEF PageTypes
<1>4. /\ browser' \in BrowserStates
      /\ browser' = "TERMINAL" <=> browser = "TERMINAL"
      /\ browser' = "SUSPENDED" <=> browser = "SUSPENDED"
  BY <1>1, <1>2 DEF PageTypes, CaptureReleased, BrowserStates, Accepting
<1>5. Capture(browser', phys', captured', crossed', G)
  <2> SUFFICES ASSUME browser' # "TERMINAL", ~crossed', ~LossIn(G)
               PROVE  /\ FirstIn(G) => phys' = {} /\ captured' /\ browser' = "ACTIVE"
                      /\ ~FirstIn(G) =>
                           /\ captured' <=> phys' # {}
                           /\ captured' <=> browser' = "CAPTURED"
                           /\ PressIn(G) => captured'
    BY DEF Capture
  <2>1. /\ FirstIn(InFlight) => phys = {} /\ captured /\ browser = "ACTIVE"
        /\ ~FirstIn(InFlight) =>
             /\ captured <=> phys # {}
             /\ captured <=> browser = "CAPTURED"
             /\ PressIn(InFlight) => captured
    BY <1>2, <1>3, <1>4 DEF Capture
  <2>2. CASE last
    <3>1. /\ ~captured' /\ phys' = {} /\ browser' # "CAPTURED"
          /\ ~PressIn(InFlight)
      BY <2>2, <1>1, <1>2 DEF CaptureReleased
    <3>2. ~FirstIn(InFlight)
      BY <2>1, <2>2
    <3> QED BY <3>1, <3>2
  <2>3. CASE ~last
    <3>1. /\ captured' <=> captured
          /\ browser' = browser /\ (phys' = {} <=> phys = {})
      BY <2>3, <1>1
    <3> QED BY <2>1, <3>1
  <2> QED BY <2>2, <2>3
<1> QED BY <1>3, <1>4, <1>5

LEMMA PointerUpOK ==
  ASSUME Inv, NEW b \in Buttons, PointerUp(b)
  PROVE  Inv'
<1> DEFINE q == Transition("up", "physical", b, FALSE)
<1>1. /\ browser # "TERMINAL" /\ ~LossIn(InFlight) /\ browser \in Accepting
      /\ b \in phys /\ Room
      /\ UNCHANGED <<acc, mapped, epoch, acked, worker>>
  BY PageFacts DEF PointerUp, AcceptsInput, Terminal
<1>2. /\ PageTypes(browser, epoch, acked, phys, acc, captured, mapped, crossed)
      /\ Holds(browser, worker, phys, acc, toPage)
      /\ Capture(browser, phys, captured, crossed, InFlight)
  BY PageFacts
<1>3. \/ b \in acc /\ CommitUp(b) /\ NoPost
      \/ Post(q) /\ UNCHANGED <<phys, captured, browser, crossed>>
  BY DEF PointerUp
<1>4. CASE b \in acc /\ CommitUp(b) /\ NoPost
  <2>1. /\ phys' \subseteq phys /\ phys \subseteq phys' \cup {b}
        /\ captured' \in BOOLEAN /\ crossed' \in BOOLEAN /\ (crossed => crossed')
        /\ browser' \in BrowserStates
        /\ browser' # "TERMINAL" /\ browser' # "SUSPENDED"
        /\ Capture(browser', phys', captured', crossed', InFlight)
    BY <1>1, <1>4, CommitUpCapture DEF Accepting
  <2>2. UNCHANGED <<toPage, toWorker>>
    BY <1>4 DEF NoPost
  <2>3. /\ Flying(toPage', toWorker') = InFlight
        /\ WorkerType(worker') /\ Queues(toPage', toWorker')
        /\ InOrder(toPage', toWorker', crossed')
        /\ Gens(browser', worker', epoch', toPage', toWorker')
    BY <1>1, <2>1, <2>2, NoPostLine
  <2>4. PageTypes(browser', epoch', acked', phys', acc', captured', mapped', crossed')
    BY <1>1, <1>2, <2>1 DEF PageTypes
  <2>5. Holds(browser', worker', phys', acc', toPage')
    BY <1>1, <1>2, <1>4, <2>1, <2>2, HoldsMore
  <2>6. Neutralized(browser', worker', phys', acc', captured', InFlight)
    BY <1>1, <2>1 DEF Neutralized
  <2> QED BY <2>1, <2>3, <2>4, <2>5, <2>6 DEF Inv
<1>5. CASE Post(q) /\ UNCHANGED <<phys, captured, browser, crossed>>
  <2>1. /\ q \in Wire /\ q.op # "loss" /\ q.gen = epoch
        /\ q.first = FALSE /\ ~IsPress(q)
    BY <1>2, WireEdge DEF PageTypes
  <2> HIDE DEF q
  <2>2. \A x \in InFlight : Before(x, q, crossed)
    BY <1>1, <2>1 DEF Before, LossIn
  <2>3. /\ Flying(toPage', toWorker') = InFlight \cup {q}
        /\ WorkerType(worker') /\ Queues(toPage', toWorker')
        /\ InOrder(toPage', toWorker', crossed')
        /\ Gens(browser', worker', epoch', toPage', toWorker')
        /\ toPage' = toPage
    BY <1>1, <1>5, <2>1, <2>2, PostLine
  <2>4. PageTypes(browser', epoch', acked', phys', acc', captured', mapped', crossed')
    BY <1>1, <1>2, <1>5 DEF PageTypes
  <2>5. Holds(browser', worker', phys', acc', toPage')
    BY <1>1, <1>2, <1>5, <2>3, HoldsMore
  <2>6. /\ LossIn(InFlight \cup {q}) <=> LossIn(InFlight)
        /\ FirstIn(InFlight \cup {q}) <=> FirstIn(InFlight)
        /\ PressIn(InFlight \cup {q}) <=> PressIn(InFlight)
    BY <2>1, CapturePlain
  <2>7. Neutralized(browser', worker', phys', acc', captured', InFlight \cup {q})
    BY <1>1, <1>5, <2>6 DEF Neutralized, Accepting
  <2>8. Capture(browser', phys', captured', crossed', InFlight \cup {q})
    BY <1>2, <1>5, <2>6 DEF Capture
  <2> QED BY <2>3, <2>4, <2>5, <2>7, <2>8 DEF Inv
<1> QED BY <1>3, <1>4, <1>5

LEMMA AccessibleButtonOK ==
  ASSUME Inv, NEW b \in Buttons, AccessibleButton(b)
  PROVE  Inv'
<1> DEFINE op == IF b \in acc THEN "up" ELSE "down"
           q == Transition(op, "accessibility", b, FALSE)
<1>1. /\ browser # "TERMINAL" /\ ~LossIn(InFlight) /\ browser \in Accepting
      /\ Room
      /\ UNCHANGED <<phys, captured, mapped, browser, epoch, acked, worker, crossed>>
  BY PageFacts DEF AccessibleButton, AcceptsInput, Terminal, lifecycle
<1>2. /\ PageTypes(browser, epoch, acked, phys, acc, captured, mapped, crossed)
      /\ Holds(browser, worker, phys, acc, toPage)
      /\ Capture(browser, phys, captured, crossed, InFlight)
  BY PageFacts
<1>3. \/ b \in phys /\ CommitAccessible(op, b) /\ NoPost
      \/ Post(q) /\ UNCHANGED acc
  BY DEF AccessibleButton
<1>4. CASE b \in phys /\ CommitAccessible(op, b) /\ NoPost
  <2>1. /\ acc' \subseteq acc \cup {b} /\ acc \subseteq acc' \cup {b}
        /\ UNCHANGED <<toPage, toWorker>>
    BY <1>4 DEF CommitAccessible, NoPost
  <2>2. crossed' \in BOOLEAN /\ (crossed => crossed')
    BY <1>1, <1>2 DEF PageTypes
  <2>3. /\ Flying(toPage', toWorker') = InFlight
        /\ WorkerType(worker') /\ Queues(toPage', toWorker')
        /\ InOrder(toPage', toWorker', crossed')
        /\ Gens(browser', worker', epoch', toPage', toWorker')
    BY <1>1, <2>1, <2>2, NoPostLine
  <2>4. PageTypes(browser', epoch', acked', phys', acc', captured', mapped', crossed')
    BY <1>1, <1>2, <2>1 DEF PageTypes
  <2>5. Holds(browser', worker', phys', acc', toPage')
    BY <1>1, <1>2, <1>4, <2>1, HoldsMore
  <2>6. Neutralized(browser', worker', phys', acc', captured', InFlight)
    BY <1>1 DEF Neutralized, Accepting
  <2>7. Capture(browser', phys', captured', crossed', InFlight)
    BY <1>1, <1>2 DEF Capture
  <2> QED BY <2>3, <2>4, <2>5, <2>6, <2>7 DEF Inv
<1>5. CASE Post(q) /\ UNCHANGED acc
  <2>1. /\ q \in Wire /\ q.op # "loss" /\ q.gen = epoch
        /\ q.first = FALSE /\ ~IsPress(q)
    BY <1>2, WireEdge DEF PageTypes
  <2> HIDE DEF q
  <2>2. \A x \in InFlight : Before(x, q, crossed)
    BY <1>1, <2>1 DEF Before, LossIn
  <2>3. /\ Flying(toPage', toWorker') = InFlight \cup {q}
        /\ WorkerType(worker') /\ Queues(toPage', toWorker')
        /\ InOrder(toPage', toWorker', crossed')
        /\ Gens(browser', worker', epoch', toPage', toWorker')
        /\ toPage' = toPage
    BY <1>1, <1>5, <2>1, <2>2, PostLine
  <2>4. PageTypes(browser', epoch', acked', phys', acc', captured', mapped', crossed')
    BY <1>1, <1>2, <1>5 DEF PageTypes
  <2>5. Holds(browser', worker', phys', acc', toPage')
    BY <1>1, <1>2, <1>5, <2>3, HoldsMore
  <2>6. /\ LossIn(InFlight \cup {q}) <=> LossIn(InFlight)
        /\ FirstIn(InFlight \cup {q}) <=> FirstIn(InFlight)
        /\ PressIn(InFlight \cup {q}) <=> PressIn(InFlight)
    BY <2>1, CapturePlain
  <2>7. Neutralized(browser', worker', phys', acc', captured', InFlight \cup {q})
    BY <1>1, <1>5, <2>6 DEF Neutralized, Accepting
  <2>8. Capture(browser', phys', captured', crossed', InFlight \cup {q})
    BY <1>1, <1>2, <1>5, <2>6 DEF Capture
  <2> QED BY <2>3, <2>4, <2>5, <2>7, <2>8 DEF Inv
<1> QED BY <1>3, <1>4, <1>5

\* A motion, a Release All or a keyboard request leaves the page as it is.
LEMMA PlainPostOK ==
  ASSUME Inv, NEW q \in Wire, Post(q), Room, UNCHANGED <<page, worker, crossed>>,
         q.op \in {"motion", "release", "key-down", "key-up", "focus-lost"},
         q.op = "motion" => browser # "SUSPENDED",
         IsPointer(q) => q.gen = epoch /\ ~LossIn(InFlight)
  PROVE  Inv'
<1>1. UNCHANGED <<browser, epoch, acked, phys, acc, captured, mapped, worker, crossed>>
  BY DEF page, adapter, lifecycle
<1>2. /\ PageTypes(browser, epoch, acked, phys, acc, captured, mapped, crossed)
      /\ Holds(browser, worker, phys, acc, toPage)
      /\ Neutralized(browser, worker, phys, acc, captured, InFlight)
      /\ Capture(browser, phys, captured, crossed, InFlight)
  BY PageFacts
<1>3. ~IsPress(q) /\ q.op # "loss" /\ q.op # "down"
  BY DEF IsPress
<1>4. \A x \in InFlight : Before(x, q, crossed)
  BY <1>3 DEF Before, LossIn
<1>5. /\ Flying(toPage', toWorker') = InFlight \cup {q}
      /\ WorkerType(worker') /\ Queues(toPage', toWorker')
      /\ InOrder(toPage', toWorker', crossed')
      /\ Gens(browser', worker', epoch', toPage', toWorker')
      /\ toPage' = toPage
  BY <1>1, <1>4, PostLine
<1>6. /\ LossIn(InFlight \cup {q}) <=> LossIn(InFlight)
      /\ FirstIn(InFlight \cup {q}) <=> FirstIn(InFlight)
      /\ PressIn(InFlight \cup {q}) <=> PressIn(InFlight)
  BY <1>3, CapturePlain
<1>7. PageTypes(browser', epoch', acked', phys', acc', captured', mapped', crossed')
  BY <1>1, <1>2
<1>8. Holds(browser', worker', phys', acc', toPage')
  BY <1>1, <1>2, <1>5
<1>9. Neutralized(browser', worker', phys', acc', captured', InFlight \cup {q})
  BY <1>1, <1>2, <1>3, <1>6 DEF Neutralized
<1>10. Capture(browser', phys', captured', crossed', InFlight \cup {q})
  BY <1>1, <1>2, <1>6 DEF Capture
<1> QED BY <1>5, <1>7, <1>8, <1>9, <1>10 DEF Inv

LEMMA MoveOK == ASSUME Inv, Move PROVE Inv'
<1>1. /\ browser \in Accepting /\ ~LossIn(InFlight) /\ Room
      /\ Post(Motion) /\ UNCHANGED <<page, worker, crossed>>
  BY PageFacts DEF Move, CanMove, AcceptsInput
<1>2. Motion \in Wire /\ Motion.op = "motion" /\ Motion.gen = epoch
  BY WireMotion, PageFacts DEF PageTypes
<1> QED BY <1>1, <1>2, PlainPostOK DEF Accepting

LEMMA ReleaseAllOK == ASSUME Inv, ReleaseAll PROVE Inv'
<1> DEFINE q == Neutralize("release")
<1>1. ~LossIn(InFlight) /\ Room /\ Post(q) /\ UNCHANGED <<page, worker, crossed>>
  BY PageFacts DEF ReleaseAll
<1>2. q \in Wire /\ q.op = "release" /\ q.gen = epoch
  BY WireNeutralize, PageFacts DEF PageTypes
<1> QED BY <1>1, <1>2, PlainPostOK

LEMMA KeyboardOK == ASSUME Inv, Keyboard PROVE Inv'
<1>1. PICK q : /\ \/ q = FocusLost
                  \/ \E op \in {"key-down", "key-up"}, k \in Keys : q = KeyEdge(op, k)
               /\ Post(q)
  BY DEF Keyboard
<1>2. /\ q \in Wire /\ q.op \in {"key-down", "key-up", "focus-lost"}
      /\ ~IsPointer(q)
  BY <1>1, WireKeyboard
<1>3. Room /\ UNCHANGED <<page, worker, crossed>>
  BY DEF Keyboard
<1> QED BY <1>1, <1>2, <1>3, PlainPostOK

LEMMA LostPointerCaptureOK == ASSUME Inv, LostPointerCapture PROVE Inv'
<1> DEFINE q == Neutralize("loss")
<1>1. /\ browser # "TERMINAL" /\ ~LossIn(InFlight) /\ ~TransIn(InFlight)
      /\ captured /\ Room /\ captured' = FALSE /\ Post(q)
      /\ UNCHANGED <<phys, acc, mapped, browser, epoch, acked, worker, crossed>>
  BY PageFacts DEF LostPointerCapture, Terminal, lifecycle
<1>2. /\ PageTypes(browser, epoch, acked, phys, acc, captured, mapped, crossed)
      /\ Holds(browser, worker, phys, acc, toPage)
      /\ Neutralized(browser, worker, phys, acc, captured, InFlight)
  BY PageFacts
<1>3. q \in Wire /\ q.op = "loss" /\ q.gen = epoch /\ ~IsPress(q)
  BY <1>2, WireNeutralize DEF PageTypes
<1> HIDE DEF q
<1>4. \A x \in InFlight : Before(x, q, crossed)
  BY <1>1, <1>3 DEF Before, LossIn, TransIn
<1>5. /\ Flying(toPage', toWorker') = InFlight \cup {q}
      /\ WorkerType(worker') /\ Queues(toPage', toWorker')
      /\ InOrder(toPage', toWorker', crossed')
      /\ Gens(browser', worker', epoch', toPage', toWorker')
      /\ toPage' = toPage
  BY <1>1, <1>3, <1>4, PostLine
<1>6. PageTypes(browser', epoch', acked', phys', acc', captured', mapped', crossed')
  BY <1>1, <1>2 DEF PageTypes
<1>7. Holds(browser', worker', phys', acc', toPage')
  BY <1>1, <1>2, <1>5
<1>8. browser # "SUSPENDED"
  BY <1>1, <1>2 DEF Neutralized
<1>9. Neutralized(browser', worker', phys', acc', captured', InFlight \cup {q})
  BY <1>1, <1>8 DEF Neutralized
<1>10. Capture(browser', phys', captured', crossed', InFlight \cup {q})
  BY <1>3 DEF Capture, LossIn
<1> QED BY <1>5, <1>6, <1>7, <1>9, <1>10 DEF Inv

LEMMA PageStepOK ==
  ASSUME Inv,
         UNCHANGED <<phys, acc, captured, epoch, worker, toWorker, toPage, crossed>>,
         acked' \in BOOLEAN, mapped' \in BOOLEAN,
         \/ browser' = browser
         \/ browser' = "ACTIVE" /\ browser \in {"IDLE", "SUSPENDED"}
  PROVE  Inv'
<1>1. /\ PageTypes(browser, epoch, acked, phys, acc, captured, mapped, crossed)
      /\ Holds(browser, worker, phys, acc, toPage)
      /\ Neutralized(browser, worker, phys, acc, captured, InFlight)
      /\ Capture(browser, phys, captured, crossed, InFlight)
  BY PageFacts
<1>2. /\ browser' \in BrowserStates
      /\ browser' # "TERMINAL" => browser # "TERMINAL"
      /\ browser' = "SUSPENDED" => browser = "SUSPENDED"
  BY <1>1 DEF PageTypes, BrowserStates, Accepting
<1>3. crossed' \in BOOLEAN /\ (crossed => crossed')
  BY <1>1 DEF PageTypes
<1>4. /\ Flying(toPage', toWorker') = InFlight
      /\ WorkerType(worker') /\ Queues(toPage', toWorker')
      /\ InOrder(toPage', toWorker', crossed')
      /\ Gens(browser', worker', epoch', toPage', toWorker')
  BY <1>2, <1>3, NoPostLine
<1>5. PageTypes(browser', epoch', acked', phys', acc', captured', mapped', crossed')
  BY <1>1, <1>2 DEF PageTypes
<1>6. Holds(browser', worker', phys', acc', toPage')
  BY <1>1, <1>2, HoldsMore
<1>7. Neutralized(browser', worker', phys', acc', captured', InFlight)
  BY <1>1, <1>2 DEF Neutralized
<1>8. Capture(browser', phys', captured', crossed', InFlight)
  <2>1. CASE browser' = browser
    BY <1>1, <2>1
  <2>2. CASE browser' = "ACTIVE" /\ browser = "IDLE"
    BY <1>1, <2>2 DEF Capture
  <2>3. CASE browser' = "ACTIVE" /\ browser = "SUSPENDED"
    <3>1. phys = {} /\ ~captured /\ ~FirstIn(InFlight) /\ ~PressIn(InFlight)
      BY <1>1, <2>3 DEF Neutralized, FirstIn, PressIn, IsPress
    <3> QED BY <2>3, <3>1 DEF Capture
  <2> QED BY <2>1, <2>2, <2>3
<1> QED BY <1>4, <1>5, <1>6, <1>7, <1>8 DEF Inv

LEMMA PageEventsOK ==
  ASSUME Inv, Focus \/ SetTransform \/ AcknowledgeNeutralization \/ Resume
  PROVE  Inv'
<1>1. acked \in BOOLEAN /\ mapped \in BOOLEAN
  BY DEF Inv, PageTypes
<1>2. CASE Focus
  BY <1>1, <1>2, PageStepOK DEF Focus, Activated, adapter
<1>3. CASE SetTransform
  BY <1>1, <1>3, PageStepOK DEF SetTransform, lifecycle
<1>4. CASE AcknowledgeNeutralization
  BY <1>1, <1>4, PageStepOK DEF AcknowledgeNeutralization, adapter
<1>5. CASE Resume
  BY <1>1, <1>5, PageStepOK DEF Resume, adapter
<1> QED BY <1>2, <1>3, <1>4, <1>5

-----------------------------------------------------------------------------
\* The worker

\* What a request does to the worker, and when.
Served(w, v, q, ok) ==
  /\ WorkerType(v)
  /\ v.gen = IF ok /\ q.op = "loss" THEN w.gen + 1 ELSE w.gen
  /\ ok /\ IsPointer(q) => q.gen = w.gen
  /\ ok /\ q.op = "loss" => w.gen < MaxEpoch
  /\ ok /\ q.op = "down" => v.held = w.held \cup {q.button}
  /\ ok /\ q.op = "up" => v.held = w.held \ {q.button}
  /\ ok /\ q.op \in {"release", "loss"} => v.held = {}
  /\ ~ok \/ q.op # "down" => v.held \subseteq w.held

LEMMA AppliedServed ==
  ASSUME NEW w, NEW q \in Wire, WorkerType(w), Admits(w, q)
  PROVE  Served(w, Applied(w, q), q, TRUE)
<1>1. /\ w \in [gen : 0..MaxEpoch, held : SUBSET Buttons,
                keys : SUBSET Keys, failed : BOOLEAN]
      /\ q.op \in Ops
      /\ IsPointer(q) => q.gen = w.gen
      /\ q.op = "loss" => w.gen < MaxEpoch
      /\ IsTransition(q) => q.button \in Buttons
      /\ q.op \in {"key-down", "key-up"} => q.key \in Keys
      /\ w.gen \in Nat /\ w.gen + 1 \in Nat
  BY WireFields, BoundAssumption DEF WorkerType, Admits
<1>2. CASE q.op = "down"
  <2>1. Applied(w, q) = [w EXCEPT !.held = @ \cup {q.button}]
    BY <1>2 DEF Applied
  <2> QED BY <1>1, <1>2, <2>1 DEF Served, WorkerType, IsTransition
<1>3. CASE q.op = "up"
  <2>1. Applied(w, q) = [w EXCEPT !.held = @ \ {q.button}]
    BY <1>3 DEF Applied
  <2> QED BY <1>1, <1>3, <2>1 DEF Served, WorkerType
<1>4. CASE q.op = "key-down"
  <2>1. Applied(w, q) = [w EXCEPT !.keys = @ \cup {q.key}]
    BY <1>4 DEF Applied
  <2> QED BY <1>1, <1>4, <2>1 DEF Served, WorkerType, IsPointer
<1>5. CASE q.op = "key-up"
  <2>1. Applied(w, q) = [w EXCEPT !.keys = @ \ {q.key}]
    BY <1>5 DEF Applied
  <2> QED BY <1>1, <1>5, <2>1 DEF Served, WorkerType, IsPointer
<1>6. CASE q.op \in {"release", "focus-lost"}
  <2>1. Applied(w, q) = [w EXCEPT !.held = {}, !.keys = {}]
    BY <1>6 DEF Applied, Neutral
  <2> QED BY <1>1, <1>6, <2>1 DEF Served, WorkerType, IsPointer
<1>7. CASE q.op = "loss"
  <2>1. Applied(w, q) = [[w EXCEPT !.held = {}, !.keys = {}] EXCEPT !.gen = @ + 1]
    BY <1>7 DEF Applied, Neutral
  <2>2. w.gen + 1 \in 0..MaxEpoch
    BY <1>1, <1>7, BoundAssumption
  <2> QED BY <1>1, <1>7, <2>1, <2>2 DEF Served, WorkerType
<1>8. CASE q.op = "motion"
  <2>1. Applied(w, q) = w
    BY <1>8 DEF Applied
  <2> QED BY <1>1, <1>8, <2>1 DEF Served, WorkerType
<1> QED BY <1>1, <1>2, <1>3, <1>4, <1>5, <1>6, <1>7, <1>8 DEF Ops

LEMMA BrokenOffServed ==
  ASSUME NEW w, NEW q \in Wire, WorkerType(w), NEW v \in BrokenOff(w, q)
  PROVE  Served(w, v, q, FALSE)
<1>1. PICK h \in SUBSET w.held : v = [w EXCEPT !.held = h, !.failed = TRUE]
  BY DEF BrokenOff
<1>2. w \in [gen : 0..MaxEpoch, held : SUBSET Buttons,
             keys : SUBSET Keys, failed : BOOLEAN]
  BY DEF WorkerType
<1>3. v.gen = w.gen /\ v.held = h /\ WorkerType(v)
  BY <1>1, <1>2 DEF WorkerType
<1> QED BY <1>3 DEF Served

LEMMA HandleServed ==
  ASSUME Inv, HandleRequest
  PROVE  /\ toWorker # <<>> /\ Head(toWorker) \in Wire
         /\ toWorker' = Tail(toWorker) /\ UNCHANGED <<page, crossed>>
         /\ \E ok \in BOOLEAN : /\ Served(worker, worker', Head(toWorker), ok)
                                /\ Reply(Head(toWorker), ok)
<1> DEFINE q == Head(toWorker)
<1>1. /\ toWorker # <<>> /\ toWorker' = Tail(toWorker)
      /\ UNCHANGED <<page, crossed>>
      /\ \/ UNCHANGED worker /\ Reply(q, FALSE)
         \/ Admits(worker, q) /\ worker' = Applied(worker, q) /\ Reply(q, TRUE)
         \/ worker' \in BrokenOff(worker, q) /\ Reply(q, FALSE)
  BY DEF HandleRequest
<1>2. q \in Wire /\ WorkerType(worker)
  BY <1>1, HandleLine, PageFacts DEF Inv, PageTypes
<1> HIDE DEF q
<1>3. CASE UNCHANGED worker /\ Reply(q, FALSE)
  <2>1. Served(worker, worker', q, FALSE)
    BY <1>2, <1>3 DEF Served
  <2> QED BY <1>1, <1>2, <1>3, <2>1 DEF q
<1>4. CASE Admits(worker, q) /\ worker' = Applied(worker, q) /\ Reply(q, TRUE)
  <2>1. Served(worker, worker', q, TRUE)
    BY <1>2, <1>4, AppliedServed
  <2> QED BY <1>1, <1>2, <1>4, <2>1 DEF q
<1>5. CASE worker' \in BrokenOff(worker, q) /\ Reply(q, FALSE)
  <2>1. Served(worker, worker', q, FALSE)
    BY <1>2, <1>5, BrokenOffServed
  <2> QED BY <1>1, <1>2, <1>5, <2>1 DEF q
<1> QED BY <1>1, <1>3, <1>4, <1>5

\* A reply that takes no button the guest still holds keeps Holds.
LEMMA HoldsReply ==
  ASSUME NEW br, NEW w, NEW v, NEW ph, NEW ac, NEW P, NEW r, NEW R,
         Holds(br, w, ph, ac, P), Len(P) \in Nat, Len(R) = Len(P) + 1,
         \A i \in 1..Len(P) : R[i] = P[i], R[Len(P) + 1] = r,
         \A b \in v.held : ~Takes(r, b) /\ (Gives(r, b) \/ b \in w.held)
  PROVE  Holds(br, v, ph, ac, R)
<1> SUFFICES ASSUME br # "TERMINAL", NEW b \in v.held
             PROVE  /\ b \in ph \/ b \in ac \/ \E i \in 1..Len(R) : Gives(R[i], b)
                    /\ \A j \in 1..Len(R) : Takes(R[j], b) =>
                         \E i \in 1..Len(R) : j < i /\ Gives(R[i], b)
  BY DEF Holds
<1>1. /\ 1..Len(P) \subseteq 1..Len(R) /\ Len(R) \in 1..Len(R)
      /\ \A j \in 1..Len(R) : j \in 1..Len(P) \/ j = Len(R)
      /\ \A j \in 1..Len(P) : j < Len(R)
      /\ R[Len(R)] = r
  OBVIOUS
<1>2. ~Takes(r, b)
  OBVIOUS
<1>3. CASE Gives(r, b)
  <2>1. \A j \in 1..Len(R) : Takes(R[j], b) => j < Len(R)
    BY <1>1, <1>2
  <2> QED BY <1>1, <1>3, <2>1
<1>4. CASE b \in w.held
  <2>1. /\ b \in ph \/ b \in ac \/ \E i \in 1..Len(P) : Gives(P[i], b)
        /\ \A j \in 1..Len(P) : Takes(P[j], b) =>
             \E i \in 1..Len(P) : j < i /\ Gives(P[i], b)
    BY <1>4 DEF Holds
  <2>2. b \in ph \/ b \in ac \/ \E i \in 1..Len(R) : Gives(R[i], b)
    BY <1>1, <2>1
  <2>3. ASSUME NEW j \in 1..Len(R), Takes(R[j], b)
        PROVE  \E i \in 1..Len(R) : j < i /\ Gives(R[i], b)
    <3>1. j \in 1..Len(P) /\ Takes(P[j], b)
      BY <1>1, <1>2, <2>3
    <3>2. PICK i \in 1..Len(P) : j < i /\ Gives(P[i], b)
      BY <2>1, <3>1
    <3> QED BY <1>1, <3>2
  <2> QED BY <2>2, <2>3
<1> QED BY <1>3, <1>4

LEMMA HandleRequestOK == ASSUME Inv, HandleRequest PROVE Inv'
<1> DEFINE q == Head(toWorker)
           V == Tail(toWorker)
<1>1. PICK ok \in BOOLEAN : Served(worker, worker', q, ok) /\ Reply(q, ok)
  BY HandleServed
<1>2. /\ toWorker' = V /\ UNCHANGED crossed
      /\ UNCHANGED <<browser, epoch, acked, phys, acc, captured, mapped>>
  BY HandleServed DEF page, adapter, lifecycle
<1>3. /\ PageTypes(browser, epoch, acked, phys, acc, captured, mapped, crossed)
      /\ Holds(browser, worker, phys, acc, toPage)
      /\ Neutralized(browser, worker, phys, acc, captured, InFlight)
      /\ Capture(browser, phys, captured, crossed, InFlight)
      /\ Gens(browser, worker, epoch, toPage, toWorker)
      /\ WorkerType(worker)
  BY PageFacts DEF Inv
<1>4. /\ q \in Wire /\ ToSet(toWorker) = {q} \cup ToSet(V)
      /\ Queues(toPage, V) /\ InOrder(toPage, V, crossed)
      /\ InFlight = {q} \cup Flying(toPage, V)
      /\ \A x \in ToSet(V) : Before(q, x, crossed)
      /\ \A r \in ToSet(toPage) : Before(r.request, q, crossed)
      /\ Len(V) + Len(toPage) < MaxFlight
  <2>1. /\ Queues(toPage, toWorker) /\ InOrder(toPage, toWorker, crossed)
        /\ crossed \in BOOLEAN /\ toWorker # <<>>
        /\ InFlight = Flying(toPage, toWorker)
    BY <1>3, HandleServed DEF Inv, PageTypes, InFlight, Flying
  <2>2. /\ q \in Wire /\ Queues(toPage, V) /\ InOrder(toPage, V, crossed)
        /\ \A x \in ToSet(V) : Before(q, x, crossed)
        /\ \A r \in ToSet(toPage) : Before(r.request, q, crossed)
        /\ Len(V) + Len(toPage) < MaxFlight
    BY <2>1, HandleLine
  <2>3. /\ ToSet(toWorker) = {q} \cup ToSet(V)
        /\ Flying(toPage, toWorker) = {q} \cup Flying(toPage, V)
    BY <2>1, HandleSets
  <2> QED BY <2>1, <2>2, <2>3
<1> HIDE DEF q, V
<1>5. /\ WorkerType(worker')
      /\ q.op # "down" => worker'.held \subseteq worker.held
  BY <1>1 DEF Served
<1>6. PageTypes(browser', epoch', acked', phys', acc', captured', mapped', crossed')
  BY <1>2, <1>3
<1>7. ASSUME NEW F, F \subseteq InFlight
      PROVE  Neutralized(browser', worker', phys', acc', captured', F)
  BY <1>2, <1>3, <1>4, <1>5, <1>7 DEF Neutralized, LossIn
<1>8. CASE ~Answered(q)
  <2>1. toPage' = toPage
    BY <1>1, <1>8 DEF Reply, Answered, IsTransition
  <2>2. Flying(toPage', toWorker') \subseteq InFlight
    BY <1>2, <1>4, <2>1
  <2>3. /\ worker'.held \subseteq worker.held /\ worker'.gen = worker.gen
        /\ ~IsPress(q) /\ q.op # "loss" /\ q.op # "down"
    BY <1>1, <1>5, <1>8 DEF Served, Answered, IsPress
  <2>4. Holds(browser', worker', phys', acc', toPage')
    BY <1>2, <1>3, <2>1, <2>3 DEF Holds
  <2>5. Gens(browser', worker', epoch', toPage', toWorker')
    BY <1>2, <1>3, <1>4, <2>1, <2>3 DEF Gens
  <2>6. InFlight = Flying(toPage, V) \cup {q}
    BY <1>4
  <2>7. /\ LossIn(Flying(toPage, V)) <=> LossIn(InFlight)
        /\ FirstIn(Flying(toPage, V)) <=> FirstIn(InFlight)
        /\ PressIn(Flying(toPage, V)) <=> PressIn(InFlight)
    BY <2>3, <2>6, CapturePlain
  <2>8. Capture(browser', phys', captured', crossed', Flying(toPage', toWorker'))
    BY <1>2, <1>3, <2>1, <2>7 DEF Capture
  <2> QED BY <1>2, <1>4, <1>5, <1>6, <1>7, <2>1, <2>2, <2>4, <2>5, <2>8 DEF Inv
<1>9. CASE Answered(q)
  <2> DEFINE r == [request |-> q, ok |-> ok, prior |-> q.gen, next |-> worker'.gen]
  <2>1. toPage' = Append(toPage, r)
    BY <1>1, <1>9 DEF Reply, Answered, IsTransition
  <2>2. IsPointer(q) /\ q.gen \in 0..MaxEpoch /\ worker'.gen \in 0..MaxEpoch
    BY <1>4, <1>5, <1>9, WireFields DEF Answered, IsPointer, WorkerType
  <2>3. /\ r \in Replies /\ r.request = q /\ r.ok = ok
        /\ r.prior = q.gen /\ r.next = worker'.gen
    BY <1>4, <1>9, <2>2 DEF Replies
  <2> HIDE DEF r
  <2>4. /\ Queues(toPage', toWorker') /\ InOrder(toPage', toWorker', crossed')
        /\ ToSet(toPage') = ToSet(toPage) \cup {r}
        /\ Flying(toPage', toWorker') = Flying(toPage, V) \cup {q}
        /\ Len(toPage') = Len(toPage) + 1
        /\ \A i \in 1..Len(toPage) : toPage'[i] = toPage[i]
        /\ toPage'[Len(toPage) + 1] = r
    BY <1>2, <1>3, <1>4, <2>1, <2>3, ReplyLine DEF PageTypes
  <2>5. Flying(toPage', toWorker') = InFlight
    BY <1>4, <2>4
  <2>6. ASSUME NEW b \in worker'.held
        PROVE  ~Takes(r, b) /\ (Gives(r, b) \/ b \in worker.held)
    BY <1>1, <1>9, <2>3, <2>6 DEF Served, Takes, Gives, Answered
  <2>7. Holds(browser', worker', phys', acc', toPage')
    <3>1. Len(toPage) \in Nat
      BY <1>4 DEF Queues
    <3>2. Holds(browser, worker', phys, acc, toPage')
      BY <1>3, <2>4, <2>6, <3>1, HoldsReply
    <3> QED BY <1>2, <3>2
  <2>8. Gens(browser', worker', epoch', toPage', toWorker')
    <3> SUFFICES ASSUME browser # "TERMINAL"
                 PROVE  /\ \A s \in ToSet(toPage) \cup {r} : Done(s) =>
                             /\ worker'.held = {} /\ worker'.gen = epoch + 1
                             /\ s.prior = epoch /\ s.next = epoch + 1
                             /\ epoch < MaxEpoch
                        /\ (\A s \in ToSet(toPage) \cup {r} : ~Done(s)) =>
                             worker'.gen = epoch
                        /\ \A x \in ToSet(V) : IsPointer(x) => x.gen = worker'.gen
      BY <1>2, <2>4 DEF Gens
    <3>1. \A s \in ToSet(toPage) : ~Done(s)
      BY <1>4, <2>2 DEF Done, Before
    <3>2. /\ worker.gen = epoch
          /\ \A x \in ToSet(V) : IsPointer(x) => x.gen = worker.gen
      BY <1>3, <1>4, <3>1 DEF Gens
    <3>3. CASE ok /\ q.op = "loss"
      <4>1. /\ worker'.held = {} /\ worker'.gen = epoch + 1
            /\ q.gen = epoch /\ epoch < MaxEpoch
        BY <1>1, <2>2, <3>2, <3>3 DEF Served
      <4>2. \A x \in ToSet(V) : ~IsPointer(x)
        BY <1>4, <3>3 DEF Before
      <4>3. Done(r)
        BY <2>3, <3>3 DEF Done
      <4> QED BY <2>3, <3>1, <4>1, <4>2, <4>3
    <3>4. CASE ~(ok /\ q.op = "loss")
      <4>1. worker'.gen = worker.gen
        BY <1>1, <3>4 DEF Served
      <4>2. ~Done(r)
        BY <2>3, <3>4 DEF Done
      <4> QED BY <3>1, <3>2, <4>1, <4>2
    <3> QED BY <3>3, <3>4
  <2>9. Capture(browser', phys', captured', crossed', Flying(toPage', toWorker'))
    BY <1>2, <1>3, <2>5
  <2> QED BY <1>5, <1>6, <1>7, <2>4, <2>5, <2>7, <2>8, <2>9 DEF Inv
<1> QED BY <1>8, <1>9

-----------------------------------------------------------------------------
\* Replies

\* A button whose reply is read is in a mirror from then on, or a reply behind
\* it will put it there.
LEMMA HoldsReceive ==
  ASSUME NEW br, NEW w, NEW ph, NEW ac, NEW P, NEW r, NEW R,
         NEW br2, NEW ph2, NEW ac2,
         Holds(br, w, ph, ac, P), br2 # "TERMINAL" => br # "TERMINAL",
         Len(P) \in Nat \ {0}, Len(R) = Len(P) - 1,
         \A i \in 1..Len(R) : R[i] = P[i + 1], r = P[1],
         \A b \in w.held :
           ~Takes(r, b) /\ (Gives(r, b) \/ b \in ph \/ b \in ac) =>
             b \in ph2 \/ b \in ac2
  PROVE  Holds(br2, w, ph2, ac2, R)
<1> SUFFICES ASSUME br2 # "TERMINAL", NEW b \in w.held
             PROVE  /\ b \in ph2 \/ b \in ac2 \/ \E i \in 1..Len(R) : Gives(R[i], b)
                    /\ \A j \in 1..Len(R) : Takes(R[j], b) =>
                         \E i \in 1..Len(R) : j < i /\ Gives(R[i], b)
  BY DEF Holds
<1>1. /\ b \in ph \/ b \in ac \/ \E i \in 1..Len(P) : Gives(P[i], b)
      /\ \A j \in 1..Len(P) : Takes(P[j], b) =>
           \E i \in 1..Len(P) : j < i /\ Gives(P[i], b)
  BY DEF Holds
<1>2. \A i \in 1..Len(P) : 1 < i => i - 1 \in 1..Len(R) /\ R[i - 1] = P[i]
  <2> TAKE i \in 1..Len(P)
  <2> HAVE 1 < i
  <2>1. i - 1 \in 1..Len(R) /\ i - 1 + 1 = i
    OBVIOUS
  <2> QED BY <2>1
<1>3. b \in ph2 \/ b \in ac2 \/ \E i \in 1..Len(R) : Gives(R[i], b)
  <2>1. CASE Takes(r, b)
    <3>1. 1 \in 1..Len(P)
      OBVIOUS
    <3>2. PICK i \in 1..Len(P) : 1 < i /\ Gives(P[i], b)
      BY <1>1, <2>1, <3>1
    <3> QED BY <1>2, <3>2
  <2>2. CASE ~Takes(r, b) /\ (b \in ph \/ b \in ac)
    BY <2>2
  <2>3. CASE ~Takes(r, b) /\ \E i \in 1..Len(P) : Gives(P[i], b)
    <3>1. PICK i \in 1..Len(P) : Gives(P[i], b)
      BY <2>3
    <3>2. CASE i = 1
      BY <2>3, <3>1, <3>2
    <3>3. CASE 1 < i
      BY <1>2, <3>1, <3>3
    <3> QED BY <3>2, <3>3
  <2> QED BY <1>1, <2>1, <2>2, <2>3
<1>4. ASSUME NEW j \in 1..Len(R), Takes(R[j], b)
      PROVE  \E i \in 1..Len(R) : j < i /\ Gives(R[i], b)
  <2>1. j + 1 \in 1..Len(P) /\ Takes(P[j + 1], b)
    BY <1>4
  <2>2. PICK i \in 1..Len(P) : j + 1 < i /\ Gives(P[i], b)
    BY <1>1, <2>1
  <2>3. 1 < i /\ j < i - 1
    BY <2>2
  <2> QED BY <1>2, <2>2, <2>3
<1> QED BY <1>3, <1>4

LEMMA ReceiveFacts ==
  ASSUME Inv, ReceiveReply, NEW r, r = Head(toPage)
  PROVE  /\ toPage' = Tail(toPage) /\ UNCHANGED <<worker, toWorker>>
         /\ r \in ToSet(toPage) /\ r = toPage[1] /\ r.request \in Wire
         /\ Answered(r.request) /\ r.ok \in BOOLEAN
         /\ WorkerType(worker') /\ Queues(toPage', toWorker')
         /\ InOrder(toPage', toWorker', crossed)
         /\ InFlight = Flying(toPage', toWorker') \cup {r.request}
         /\ \A x \in Flying(toPage', toWorker') :
              x \in Wire /\ Before(r.request, x, crossed)
         /\ ToSet(toPage) = {r} \cup ToSet(toPage')
         /\ Len(toPage) \in Nat \ {0} /\ Len(toPage') = Len(toPage) - 1
         /\ \A i \in 1..Len(toPage') : toPage'[i] = toPage[i + 1]
<1>1. /\ toPage # <<>> /\ toPage' = Tail(toPage)
      /\ UNCHANGED <<worker, toWorker>>
  BY DEF ReceiveReply
<1>2. /\ Queues(toPage, toWorker) /\ InOrder(toPage, toWorker, crossed)
      /\ crossed \in BOOLEAN /\ WorkerType(worker)
      /\ InFlight = Flying(toPage, toWorker)
  BY DEF Inv, PageTypes, InFlight, Flying
<1>3. /\ r \in Replies /\ r \in ToSet(toPage) /\ r = toPage[1]
      /\ Queues(toPage', toWorker') /\ InOrder(toPage', toWorker', crossed)
      /\ \A x \in Flying(toPage', toWorker') : Before(r.request, x, crossed)
      /\ Len(toPage) \in Nat \ {0} /\ Len(toPage') = Len(toPage) - 1
      /\ \A i \in 1..Len(toPage') : toPage'[i] = toPage[i + 1]
  BY <1>1, <1>2, ReceiveLine
<1>4. ToSet(toPage) = {r} \cup ToSet(toPage')
  BY <1>1, <1>2, ReceiveLine
<1>5. InFlight = Flying(toPage', toWorker') \cup {r.request}
  BY <1>1, <1>2, <1>4 DEF Flying
<1>6. \A x \in Flying(toPage', toWorker') : x \in Wire
  BY <1>3, FlyingWire
<1>7. r.request \in Wire /\ Answered(r.request) /\ r.ok \in BOOLEAN
  BY <1>3 DEF Replies
<1> QED BY <1>1, <1>2, <1>3, <1>4, <1>5, <1>6, <1>7

\* A reply that is no loss leaves the generations as they were.
LEMMA GensReceive ==
  ASSUME Inv, ReceiveReply, Head(toPage).request.op # "loss",
         browser' # "TERMINAL" => browser # "TERMINAL", epoch' = epoch
  PROVE  Gens(browser', worker', epoch', toPage', toWorker')
<1>1. /\ UNCHANGED <<worker, toWorker>>
      /\ ToSet(toPage) = {Head(toPage)} \cup ToSet(toPage')
  BY ReceiveFacts
<1>2. ~Done(Head(toPage))
  BY DEF Done
<1>3. Gens(browser, worker, epoch, toPage, toWorker)
  BY DEF Inv
<1> QED BY <1>1, <1>2, <1>3 DEF Gens

LEMMA ReceiveDownOK ==
  ASSUME Inv, ReceiveReply, NEW r, r = Head(toPage), r.request.op = "down"
  PROVE  Inv'
<1> DEFINE q == r.request
           F == Flying(toPage', toWorker')
<1>1. /\ UNCHANGED <<worker, toWorker>> /\ r = toPage[1]
      /\ q \in Wire /\ r.ok \in BOOLEAN
      /\ WorkerType(worker') /\ Queues(toPage', toWorker')
      /\ InOrder(toPage', toWorker', crossed)
      /\ InFlight = F \cup {q}
      /\ \A x \in F : x \in Wire /\ Before(q, x, crossed)
      /\ Len(toPage) \in Nat \ {0} /\ Len(toPage') = Len(toPage) - 1
      /\ \A i \in 1..Len(toPage') : toPage'[i] = toPage[i + 1]
  BY ReceiveFacts
<1>2. ReceiveDown(q, r.ok) /\ q.op = "down"
  BY DEF ReceiveReply
<1>3. /\ PageTypes(browser, epoch, acked, phys, acc, captured, mapped, crossed)
      /\ Holds(browser, worker, phys, acc, toPage)
      /\ Neutralized(browser, worker, phys, acc, captured, InFlight)
      /\ Capture(browser, phys, captured, crossed, InFlight)
  BY PageFacts
<1>4. /\ q.src \in {"physical", "accessibility"} /\ q.button \in Buttons
      /\ q.first \in BOOLEAN /\ (q.first => q.src = "physical")
  BY <1>1, <1>2, WireFields DEF IsTransition
<1> HIDE DEF q, F
<1>5. UNCHANGED <<mapped, epoch, acked, crossed>>
  BY <1>2 DEF ReceiveDown
<1>6. \/ /\ q.src = "accessibility"
         /\ IF r.ok THEN acc' = acc \cup {q.button} ELSE acc' = acc
         /\ UNCHANGED <<phys, captured, browser>>
      \/ /\ q.src = "physical" /\ r.ok /\ acc' = acc /\ captured' = captured
         /\ phys' = phys \cup {q.button}
         /\ browser' = IF q.first THEN CaptureAcquired(browser) ELSE browser
      \/ /\ q.src = "physical" /\ ~r.ok /\ UNCHANGED <<acc, phys, browser>>
         /\ captured' = (captured /\ ~(q.first /\ phys = {}))
  BY <1>2, <1>4 DEF ReceiveDown, CommitAccessible, CommitDown
<1>7. /\ browser' \in BrowserStates
      /\ browser' = "TERMINAL" <=> browser = "TERMINAL"
      /\ browser' = "SUSPENDED" <=> browser = "SUSPENDED"
      /\ captured' \in BOOLEAN /\ (captured' => captured)
  <2>1. /\ browser' \in BrowserStates
        /\ browser' = "TERMINAL" <=> browser = "TERMINAL"
        /\ browser' = "SUSPENDED" <=> browser = "SUSPENDED"
    <3>1. browser' = browser \/ browser' = CaptureAcquired(browser)
      BY <1>6
    <3> QED BY <1>3, <3>1 DEF CaptureAcquired, PageTypes, BrowserStates, Accepting
  <2>2. \/ captured' = captured
        \/ captured' = (captured /\ ~(q.first /\ phys = {}))
    BY <1>6
  <2>3. captured' \in BOOLEAN /\ (captured' => captured)
    <3>1. captured \in BOOLEAN
      BY <1>3 DEF PageTypes
    <3>2. CASE captured' = captured
      BY <3>1, <3>2
    <3>3. CASE captured' = (captured /\ ~(q.first /\ phys = {}))
      BY <3>3
    <3> QED BY <2>2, <3>2, <3>3
  <2> QED BY <2>1, <2>3
<1>8. PageTypes(browser', epoch', acked', phys', acc', captured', mapped', crossed')
  BY <1>3, <1>4, <1>5, <1>6, <1>7 DEF PageTypes
<1>9. Holds(browser', worker', phys', acc', toPage')
  <2>1. ASSUME NEW b \in worker.held,
               Gives(r, b) \/ b \in phys \/ b \in acc
        PROVE  b \in phys' \/ b \in acc'
    BY <1>6, <2>1 DEF Gives, q
  <2>2. Holds(browser', worker, phys', acc', toPage')
    BY <1>1, <1>3, <1>7, <2>1, HoldsReceive
  <2> QED BY <1>1, <2>2
<1>10. Gens(browser', worker', epoch', toPage', toWorker')
  BY <1>5, <1>7, GensReceive
<1>11. browser # "SUSPENDED"
  BY <1>1, <1>2, <1>3 DEF Neutralized
<1>12. LossIn(F) <=> LossIn(InFlight)
  BY <1>1, <1>2 DEF LossIn
<1>13. Neutralized(browser', worker', phys', acc', captured', F)
  BY <1>3, <1>7, <1>11, <1>12 DEF Neutralized
<1>14. Capture(browser', phys', captured', crossed', F)
  <2> SUFFICES ASSUME browser # "TERMINAL", ~crossed, ~LossIn(F)
               PROVE  /\ FirstIn(F) => phys' = {} /\ captured' /\ browser' = "ACTIVE"
                      /\ ~FirstIn(F) => /\ captured' <=> phys' # {}
                                        /\ captured' <=> browser' = "CAPTURED"
                                        /\ PressIn(F) => captured'
    BY <1>5, <1>7 DEF Capture
  <2>1. /\ FirstIn(InFlight) => phys = {} /\ captured /\ browser = "ACTIVE"
        /\ ~FirstIn(InFlight) => /\ captured <=> phys # {}
                                 /\ captured <=> browser = "CAPTURED"
                                 /\ PressIn(InFlight) => captured
    BY <1>3, <1>12 DEF Capture
  <2>2. CASE q.src = "accessibility"
    <3>1. ~IsPress(q) /\ ~(q.op = "down" /\ q.first) /\ q.op # "loss"
      BY <1>2, <1>4, <2>2 DEF IsPress
    <3>2. /\ FirstIn(F) <=> FirstIn(InFlight)
          /\ PressIn(F) <=> PressIn(InFlight)
      BY <1>1, <3>1, CapturePlain
    <3>3. UNCHANGED <<phys, captured, browser>>
      BY <1>6, <2>2
    <3> QED BY <2>1, <3>2, <3>3
  <2>3. CASE q.src = "physical"
    <3>1. IsPress(q)
      BY <1>2, <2>3 DEF IsPress
    <3>2. ASSUME NEW x \in F, IsPress(x) PROVE ~q.first /\ ~x.first
      BY <1>1, <3>1, <3>2 DEF Before
    <3>3. ASSUME NEW x \in F, x.op = "down" PROVE ~x.first
      <4>1. x.first => IsPress(x)
        BY <1>1, <3>3, WireFields DEF IsPress
      <4> QED BY <4>1, <3>2
    <3>4. ~FirstIn(F)
      BY <3>3 DEF FirstIn
    <3>5. q.first => ~PressIn(F)
      BY <3>2 DEF PressIn
    <3>6. /\ FirstIn(InFlight) <=> q.first
          /\ PressIn(InFlight)
      BY <1>1, <1>2, <3>1, <3>4 DEF FirstIn, PressIn
    <3>7. CASE q.first
      <4>1. phys = {} /\ captured /\ browser = "ACTIVE" /\ ~PressIn(F)
        BY <2>1, <3>5, <3>6, <3>7
      <4>2. CASE r.ok
        <5>1. captured' /\ phys' # {} /\ browser' = "CAPTURED"
          BY <1>6, <2>3, <3>7, <4>1, <4>2 DEF CaptureAcquired
        <5> QED BY <3>4, <5>1
      <4>3. CASE ~r.ok
        <5>1. ~captured' /\ phys' = {} /\ browser' = "ACTIVE"
          BY <1>6, <2>3, <3>7, <4>1, <4>3
        <5> QED BY <3>4, <4>1, <5>1
      <4> QED BY <4>2, <4>3
    <3>8. CASE ~q.first
      <4>1. captured /\ phys # {} /\ browser = "CAPTURED"
        BY <2>1, <3>6, <3>8
      <4>2. captured' /\ phys' # {} /\ browser' = "CAPTURED"
        BY <1>6, <2>3, <3>8, <4>1
      <4> QED BY <3>4, <4>2
    <3> QED BY <3>7, <3>8
  <2> QED BY <1>4, <2>2, <2>3
<1> QED BY <1>1, <1>5, <1>8, <1>9, <1>10, <1>13, <1>14 DEF Inv, F

LEMMA ReceiveUpOK ==
  ASSUME Inv, ReceiveReply, NEW r, r = Head(toPage), r.request.op = "up"
  PROVE  Inv'
<1> DEFINE q == r.request
           F == Flying(toPage', toWorker')
<1>1. /\ UNCHANGED <<worker, toWorker>> /\ r = toPage[1]
      /\ q \in Wire /\ r.ok \in BOOLEAN
      /\ WorkerType(worker') /\ Queues(toPage', toWorker')
      /\ InOrder(toPage', toWorker', crossed)
      /\ InFlight = F \cup {q}
      /\ \A x \in F : x \in Wire /\ Before(q, x, crossed)
      /\ Len(toPage) \in Nat \ {0} /\ Len(toPage') = Len(toPage) - 1
      /\ \A i \in 1..Len(toPage') : toPage'[i] = toPage[i + 1]
  BY ReceiveFacts
<1>2. ReceiveUp(q, r.ok) /\ q.op = "up"
  BY DEF ReceiveReply
<1>3. /\ PageTypes(browser, epoch, acked, phys, acc, captured, mapped, crossed)
      /\ Holds(browser, worker, phys, acc, toPage)
      /\ Neutralized(browser, worker, phys, acc, captured, InFlight)
      /\ Capture(browser, phys, captured, crossed, InFlight)
  BY PageFacts
<1>4. q.src \in {"physical", "accessibility"} /\ q.button \in Buttons
  BY <1>1, <1>2, WireFields DEF IsTransition
<1> HIDE DEF q, F
<1>5. UNCHANGED <<mapped, epoch, acked>>
  BY <1>2 DEF ReceiveUp
<1>6. /\ LossIn(F) <=> LossIn(InFlight)
      /\ FirstIn(F) <=> FirstIn(InFlight)
      /\ PressIn(F) <=> PressIn(InFlight)
  BY <1>1, <1>2, CapturePlain DEF IsPress
<1>7. \/ ~r.ok /\ UNCHANGED <<phys, acc, captured, browser, crossed>>
      \/ /\ r.ok /\ acc' = acc \ {q.button}
         /\ UNCHANGED <<phys, captured, browser, crossed>>
      \/ r.ok /\ CommitUp(q.button) /\ acc' = acc
  BY <1>2, <1>4 DEF ReceiveUp, CommitAccessible
<1>8. /\ phys' \subseteq phys /\ acc' \subseteq acc
      /\ phys \subseteq phys' \cup {q.button} /\ acc \subseteq acc' \cup {q.button}
      /\ ~r.ok => phys' = phys /\ acc' = acc
      /\ captured' \in BOOLEAN /\ crossed' \in BOOLEAN
      /\ crossed => crossed'
      /\ captured' => captured
      /\ browser' \in BrowserStates
      /\ browser' = "TERMINAL" <=> browser = "TERMINAL"
      /\ browser' = "SUSPENDED" <=> browser = "SUSPENDED"
      /\ Capture(browser', phys', captured', crossed', F)
  <2>1. CASE UNCHANGED <<phys, captured, browser, crossed>>
    <3>1. Capture(browser', phys', captured', crossed', F)
      BY <1>3, <1>6, <2>1 DEF Capture
    <3> QED BY <1>3, <1>7, <2>1, <3>1 DEF PageTypes
  <2>2. CASE r.ok /\ CommitUp(q.button) /\ acc' = acc
    <3>1. /\ phys' \subseteq phys /\ phys \subseteq phys' \cup {q.button}
          /\ captured' \in BOOLEAN /\ crossed' \in BOOLEAN
          /\ crossed => crossed'
          /\ captured' => captured
          /\ browser' \in BrowserStates
          /\ browser' = "TERMINAL" <=> browser = "TERMINAL"
          /\ browser' = "SUSPENDED" <=> browser = "SUSPENDED"
          /\ Capture(browser', phys', captured', crossed', F)
      BY <1>4, <1>6, <2>2, CommitUpCapture
    <3> QED BY <2>2, <3>1
  <2> QED BY <1>7, <2>1, <2>2
<1>9. InOrder(toPage', toWorker', crossed')
  <2>1. crossed \in BOOLEAN /\ (crossed = crossed' \/ crossed')
    BY <1>3, <1>8 DEF PageTypes
  <2> QED BY <1>1, <1>8, <2>1, OrderCrossed
<1>10. PageTypes(browser', epoch', acked', phys', acc', captured', mapped', crossed')
  BY <1>3, <1>5, <1>8 DEF PageTypes
<1>11. Holds(browser', worker', phys', acc', toPage')
  <2>1. ASSUME NEW b \in worker.held, ~Takes(r, b),
               Gives(r, b) \/ b \in phys \/ b \in acc
        PROVE  b \in phys' \/ b \in acc'
    <3>1. ~Gives(r, b)
      BY <1>2 DEF Gives, q
    <3>2. r.ok => b # q.button
      BY <1>2, <2>1 DEF Takes, q
    <3> QED BY <1>8, <2>1, <3>1, <3>2
  <2>2. Holds(browser', worker, phys', acc', toPage')
    BY <1>1, <1>3, <1>8, <2>1, HoldsReceive
  <2> QED BY <1>1, <2>2
<1>12. Gens(browser', worker', epoch', toPage', toWorker')
  BY <1>5, <1>8, GensReceive
<1>13. browser # "SUSPENDED"
  BY <1>1, <1>2, <1>3 DEF Neutralized
<1>14. Neutralized(browser', worker', phys', acc', captured', F)
  BY <1>3, <1>6, <1>8, <1>13 DEF Neutralized
<1> QED BY <1>1, <1>8, <1>9, <1>10, <1>11, <1>12, <1>14 DEF Inv, F

\* Once the adapter has failed nothing is left to keep but the line.
LEMMA TerminalOK ==
  ASSUME Inv, ReceiveReply, browser' = "TERMINAL",
         PageTypes(browser', epoch', acked', phys', acc', captured', mapped', crossed'),
         InOrder(toPage', toWorker', crossed'), captured' => captured
  PROVE  Inv'
<1>1. /\ WorkerType(worker') /\ Queues(toPage', toWorker')
      /\ InFlight = Flying(toPage', toWorker') \cup {Head(toPage).request}
  BY ReceiveFacts
<1>2. Neutralized(browser, worker, phys, acc, captured, InFlight)
  BY PageFacts
<1>3. LossIn(Flying(toPage', toWorker')) => LossIn(InFlight)
  BY <1>1 DEF LossIn
<1>4. Neutralized(browser', worker', phys', acc', captured',
                  Flying(toPage', toWorker'))
  BY <1>2, <1>3 DEF Neutralized
<1> QED BY <1>1, <1>4 DEF Inv, Holds, Gens, Capture

LEMMA ReceiveReleaseOK ==
  ASSUME Inv, ReceiveReply, NEW r, r = Head(toPage), r.request.op = "release"
  PROVE  Inv'
<1> DEFINE q == r.request
           F == Flying(toPage', toWorker')
<1>1. /\ UNCHANGED <<worker, toWorker>> /\ r = toPage[1]
      /\ q \in Wire /\ r.ok \in BOOLEAN
      /\ WorkerType(worker') /\ Queues(toPage', toWorker')
      /\ InOrder(toPage', toWorker', crossed)
      /\ InFlight = F \cup {q}
      /\ \A x \in F : x \in Wire /\ Before(q, x, crossed)
      /\ Len(toPage) \in Nat \ {0} /\ Len(toPage') = Len(toPage) - 1
      /\ \A i \in 1..Len(toPage') : toPage'[i] = toPage[i + 1]
  BY ReceiveFacts
<1>2. ReceiveRelease(r.ok) /\ q.op = "release"
  BY DEF ReceiveReply
<1>3. /\ PageTypes(browser, epoch, acked, phys, acc, captured, mapped, crossed)
      /\ Holds(browser, worker, phys, acc, toPage)
      /\ Neutralized(browser, worker, phys, acc, captured, InFlight)
      /\ PressPending <=> PressIn(InFlight)
  BY PageFacts
<1> HIDE DEF q, F
<1>4. /\ LossIn(F) <=> LossIn(InFlight)
      /\ PressIn(F) <=> PressIn(InFlight)
  BY <1>1, <1>2, CapturePlain DEF IsPress
<1>5. \/ /\ r.ok /\ phys' = {} /\ acc' = {} /\ captured' = FALSE
         /\ browser' = CaptureReleased(browser) /\ crossed' = PressPending
         /\ UNCHANGED <<mapped, epoch, acked>>
      \/ /\ ~r.ok /\ Terminal /\ UNCHANGED <<phys, acc, captured>>
         /\ browser' = CaptureReleased(browser) /\ crossed' = PressPending
         /\ UNCHANGED <<mapped, epoch, acked>>
      \/ FailStop /\ UNCHANGED crossed
  BY <1>1, <1>2 DEF ReceiveRelease
<1>6. ASSUME crossed' = PressPending
      PROVE  crossed' \in BOOLEAN /\ InOrder(toPage', toWorker', crossed')
  <2>1. crossed' \in BOOLEAN /\ (crossed' \/ ~PressIn(F)) /\ crossed \in BOOLEAN
    BY <1>3, <1>4, <1>6 DEF PressPending, PageTypes
  <2> QED BY <1>1, <2>1, OrderCrossed DEF F
<1>7. CASE /\ r.ok /\ phys' = {} /\ acc' = {} /\ captured' = FALSE
           /\ browser' = CaptureReleased(browser) /\ crossed' = PressPending
           /\ UNCHANGED <<mapped, epoch, acked>>
  <2>1. /\ browser' \in BrowserStates
        /\ browser' = "TERMINAL" <=> browser = "TERMINAL"
        /\ browser' = "SUSPENDED" <=> browser = "SUSPENDED"
        /\ browser' # "CAPTURED"
    BY <1>3, <1>7 DEF CaptureReleased, PageTypes, BrowserStates, Accepting
  <2>2. PageTypes(browser', epoch', acked', phys', acc', captured', mapped', crossed')
    BY <1>3, <1>6, <1>7, <2>1 DEF PageTypes
  <2>3. Holds(browser', worker', phys', acc', toPage')
    <3>1. \A b \in worker.held : Takes(r, b)
      BY <1>2, <1>7 DEF Takes, q
    <3>2. Holds(browser', worker, phys', acc', toPage')
      BY <1>1, <1>3, <2>1, <3>1, HoldsReceive
    <3> QED BY <1>1, <3>2
  <2>4. Gens(browser', worker', epoch', toPage', toWorker')
    BY <1>2, <1>7, <2>1, GensReceive DEF q
  <2>5. Neutralized(browser', worker', phys', acc', captured', F)
    BY <1>1, <1>3, <1>7, <2>1 DEF Neutralized
  <2>6. Capture(browser', phys', captured', crossed', F)
    <3> SUFFICES ASSUME ~crossed' PROVE ~FirstIn(F) /\ ~PressIn(F)
      BY <1>7, <2>1 DEF Capture
    <3>1. ~PressIn(F)
      BY <1>3, <1>4, <1>7
    <3>2. ASSUME NEW x \in F, x.op = "down" PROVE ~x.first
      BY <1>1, <3>1, <3>2, WireFields DEF PressIn, IsPress
    <3> QED BY <3>1, <3>2 DEF FirstIn
  <2> QED BY <1>1, <1>6, <1>7, <2>2, <2>3, <2>4, <2>5, <2>6 DEF Inv, F
<1>8. CASE /\ ~r.ok /\ Terminal /\ UNCHANGED <<phys, acc, captured>>
           /\ browser' = CaptureReleased(browser) /\ crossed' = PressPending
           /\ UNCHANGED <<mapped, epoch, acked>>
  <2>1. browser' = "TERMINAL" /\ browser' \in BrowserStates
    BY <1>8 DEF Terminal, CaptureReleased, BrowserStates
  <2>2. PageTypes(browser', epoch', acked', phys', acc', captured', mapped', crossed')
    BY <1>3, <1>6, <1>8, <2>1 DEF PageTypes
  <2> QED BY <1>6, <1>8, <2>1, <2>2, TerminalOK
<1>9. CASE FailStop /\ UNCHANGED crossed
  <2>1. /\ browser' = "TERMINAL" /\ captured' = FALSE
        /\ PageTypes(browser', epoch', acked', phys', acc', captured', mapped', crossed')
    BY <1>3, <1>9 DEF FailStop, PageTypes, BrowserStates
  <2> QED BY <1>1, <1>9, <2>1, TerminalOK
<1> QED BY <1>5, <1>7, <1>8, <1>9

LEMMA ReceiveLossOK ==
  ASSUME Inv, ReceiveReply, NEW r, r = Head(toPage), r.request.op = "loss"
  PROVE  Inv'
<1> DEFINE q == r.request
           F == Flying(toPage', toWorker')
<1>1. /\ UNCHANGED <<worker, toWorker>> /\ r \in ToSet(toPage)
      /\ q \in Wire /\ r.ok \in BOOLEAN
      /\ WorkerType(worker') /\ Queues(toPage', toWorker')
      /\ InOrder(toPage', toWorker', crossed)
      /\ InFlight = F \cup {q}
      /\ \A x \in F : x \in Wire /\ Before(q, x, crossed)
      /\ ToSet(toPage) = {r} \cup ToSet(toPage')
  BY ReceiveFacts
<1>2. ReceiveLoss(r) /\ q.op = "loss"
  BY DEF ReceiveReply
<1>3. /\ PageTypes(browser, epoch, acked, phys, acc, captured, mapped, crossed)
      /\ Neutralized(browser, worker, phys, acc, captured, InFlight)
      /\ Gens(browser, worker, epoch, toPage, toWorker)
  BY PageFacts DEF Inv
<1>4. \A x \in F : ~IsPointer(x)
  BY <1>1, <1>2 DEF Before
<1>5. \/ Terminal /\ UNCHANGED <<page, crossed>>
      \/ /\ browser \in Accepting /\ r.ok /\ r.next = epoch + 1 /\ epoch < MaxEpoch
         /\ browser' = "SUSPENDED" /\ epoch' = r.next /\ acked' = FALSE
         /\ phys' = {} /\ acc' = {} /\ mapped' = FALSE
         /\ crossed' = FALSE /\ UNCHANGED captured
      \/ FailStop /\ UNCHANGED crossed
  BY <1>2 DEF ReceiveLoss
<1>6. CASE Terminal /\ UNCHANGED <<page, crossed>>
  <2>1. UNCHANGED <<browser, epoch, acked, phys, acc, captured, mapped, crossed>>
    BY <1>6 DEF page, adapter, lifecycle
  <2>2. /\ browser' = "TERMINAL"
        /\ PageTypes(browser', epoch', acked', phys', acc', captured', mapped', crossed')
    BY <1>3, <1>6, <2>1 DEF Terminal
  <2> QED BY <1>1, <2>1, <2>2, TerminalOK
<1>7. CASE FailStop /\ UNCHANGED crossed
  <2>1. /\ browser' = "TERMINAL" /\ captured' = FALSE
        /\ PageTypes(browser', epoch', acked', phys', acc', captured', mapped', crossed')
    BY <1>3, <1>7 DEF FailStop, PageTypes, BrowserStates
  <2> QED BY <1>1, <1>7, <2>1, TerminalOK
<1>8. CASE /\ browser \in Accepting /\ r.ok /\ r.next = epoch + 1 /\ epoch < MaxEpoch
           /\ browser' = "SUSPENDED" /\ epoch' = r.next /\ acked' = FALSE
           /\ phys' = {} /\ acc' = {} /\ mapped' = FALSE
           /\ crossed' = FALSE /\ UNCHANGED captured
  <2> HIDE DEF F
  <2>1. Done(r) /\ browser # "TERMINAL"
    BY <1>2, <1>8 DEF Done, Accepting
  <2>2. worker.held = {} /\ worker.gen = epoch + 1
    BY <1>1, <1>3, <2>1 DEF Gens
  <2>3. ~captured
    BY <1>1, <1>2, <1>3 DEF Neutralized, LossIn
  <2>4. ~LossIn(F) /\ ~PressIn(F) /\ ~FirstIn(F)
    BY <1>4 DEF LossIn, PressIn, FirstIn, IsPress, IsPointer
  <2>5. PageTypes(browser', epoch', acked', phys', acc', captured', mapped', crossed')
    <3>1. epoch + 1 \in 0..MaxEpoch
      BY <1>3, <1>8, BoundAssumption DEF PageTypes
    <3> QED BY <1>3, <1>8, <3>1 DEF PageTypes, BrowserStates
  <2>6. InOrder(toPage', toWorker', crossed')
    BY <1>1, <1>3, <1>8, <2>4, OrderCrossed DEF PageTypes, F
  <2>7. Holds(browser', worker', phys', acc', toPage')
    BY <1>1, <2>2 DEF Holds
  <2>8. Gens(browser', worker', epoch', toPage', toWorker')
    <3>1. \A s \in ToSet(toPage') : s.request \in F
      BY DEF F, Flying
    <3>2. \A s \in ToSet(toPage') : ~Done(s)
      BY <1>4, <3>1 DEF Done, IsPointer
    <3>3. \A x \in ToSet(toWorker') : ~IsPointer(x)
      BY <1>4 DEF F, Flying
    <3> QED BY <1>1, <1>8, <2>2, <3>2, <3>3 DEF Gens
  <2>9. Neutralized(browser', worker', phys', acc', captured', F)
    <3>1. \A x \in F : x.op \notin {"down", "up", "motion", "loss"}
      BY <1>4 DEF IsPointer
    <3> QED BY <1>1, <1>8, <2>2, <2>3, <2>4, <3>1 DEF Neutralized
  <2>10. Capture(browser', phys', captured', crossed', F)
    BY <1>8, <2>3, <2>4 DEF Capture
  <2> QED BY <1>1, <2>5, <2>6, <2>7, <2>8, <2>9, <2>10 DEF Inv, F
<1> QED BY <1>5, <1>6, <1>7, <1>8

LEMMA ReceiveReplyOK == ASSUME Inv, ReceiveReply PROVE Inv'
<1>1. Answered(Head(toPage).request)
  BY ReceiveFacts
<1> QED BY <1>1, ReceiveDownOK, ReceiveUpOK, ReceiveReleaseOK, ReceiveLossOK
        DEF Answered

-----------------------------------------------------------------------------
\* The theorems

LEMMA InitOK == ASSUME Init PROVE Inv
<1>1. /\ toPage = <<>> /\ toWorker = <<>> /\ ToSet(<<>>) = {}
      /\ Len(<<>>) = 0 /\ <<>> \in Seq(Wire) /\ <<>> \in Seq(Replies)
  BY EmptySeq DEF Init, ToSet
<1>2. Flying(toPage, toWorker) = {}
  BY <1>1 DEF Flying
<1>3. PageTypes(browser, epoch, acked, phys, acc, captured, mapped, crossed)
  <2>1. 0 \in 0..MaxEpoch
    BY BoundAssumption
  <2>2. "IDLE" \in BrowserStates
    BY DEF BrowserStates
  <2> QED BY <2>1, <2>2 DEF Init, PageTypes
<1>4. WorkerType(worker)
  BY BoundAssumption DEF Init, WorkerType
<1>5. Queues(toPage, toWorker)
  BY <1>1, BoundAssumption DEF Queues
<1>6. InOrder(toPage, toWorker, crossed)
  BY <1>1 DEF InOrder
<1>7. Holds(browser, worker, phys, acc, toPage)
  BY DEF Init, Holds
<1>8. Gens(browser, worker, epoch, toPage, toWorker)
  BY <1>1 DEF Init, Gens
<1>9. Neutralized(browser, worker, phys, acc, captured, Flying(toPage, toWorker))
  BY <1>2 DEF Init, Neutralized, LossIn
<1>10. Capture(browser, phys, captured, crossed, Flying(toPage, toWorker))
  BY <1>2 DEF Init, Capture, FirstIn, PressIn
<1> QED BY <1>3, <1>4, <1>5, <1>6, <1>7, <1>8, <1>9, <1>10 DEF Inv

LEMMA NextOK == ASSUME Inv, [Next]_vars PROVE Inv'
<1>1. ASSUME NEW b \in Buttons,
             PointerDown(b) \/ PointerUp(b) \/ AccessibleButton(b)
      PROVE  Inv'
  BY <1>1, PointerDownOK, PointerUpOK, AccessibleButtonOK
<1>2. CASE Move \/ LostPointerCapture \/ ReleaseAll \/ Keyboard
  BY <1>2, MoveOK, LostPointerCaptureOK, ReleaseAllOK, KeyboardOK
<1>3. CASE Focus \/ SetTransform \/ AcknowledgeNeutralization \/ Resume
  BY <1>3, PageEventsOK
<1>4. CASE HandleRequest
  BY <1>4, HandleRequestOK
<1>5. CASE ReceiveReply
  BY <1>5, ReceiveReplyOK
<1>6. CASE UNCHANGED vars
  <2>1. /\ UNCHANGED <<browser, epoch, acked, phys, acc, captured, mapped>>
        /\ UNCHANGED <<worker, toWorker, toPage, crossed>>
    BY <1>6 DEF vars, page, adapter, lifecycle
  <2> QED BY <2>1 DEF Inv
<1> QED BY <1>1, <1>2, <1>3, <1>4, <1>5, <1>6 DEF Next, Event

\* The line of messages keeps its order and the mirror, the generations and
\* the capture keep their relation to it: what every theorem below rests on.
THEOREM Invariance == Spec => []Inv
<1>1. Init => Inv
  BY InitOK
<1>2. Inv /\ [Next]_vars => Inv'
  BY NextOK
<1> QED BY <1>1, <1>2, PTL DEF Spec

\* The adapter, the lifecycle and the worker's controllers stay in their
\* domains, and no more than MaxFlight messages are under way.
THEOREM TypeCorrect == Spec => []PTypeOK
<1>1. Inv => PTypeOK
  <2> SUFFICES ASSUME Inv PROVE PTypeOK
    OBVIOUS
  <2>1. /\ toWorker \in Seq(Wire) /\ Len(toWorker) + Len(toPage) <= MaxFlight
        /\ Queues(toPage, toWorker)
    BY DEF Inv, Queues
  <2>2. toWorker \in Seq(Requests)
    <3>1. /\ Len(toWorker) \in Nat /\ toWorker \in [1..Len(toWorker) -> Wire]
      BY <2>1, LenProperties
    <3>2. Wire \subseteq Requests
      BY DEF Wire
    <3>3. toWorker \in [1..Len(toWorker) -> Requests]
      BY <3>1, <3>2
    <3> QED BY <3>1, <3>3, IsASeq
  <2>3. \A r \in ToSet(toPage) : r.request \in Requests /\ r.ok \in BOOLEAN
    BY <2>1, FlyingWire DEF Wire
  <2> QED BY <2>1, <2>2, <2>3 DEF Inv, PageTypes, WorkerType, PTypeOK
<1> QED BY <1>1, Invariance, PTL

\* Until the adapter fails, a button the guest sees held is one the page knows
\* of, whatever replies, Release All and losses were read in between.
THEOREM NoHoldIsUnknown == Spec => []NoUnknownHold
<1>1. Inv => NoUnknownHold
  <2> SUFFICES ASSUME Inv, browser # "TERMINAL", NEW b \in worker.held
               PROVE  \/ b \in phys \cup acc
                      \/ \E r \in ToSet(toPage) :
                           r.ok /\ r.request.op = "down" /\ r.request.button = b
    BY DEF NoUnknownHold, Terminal
  <2>1. b \in phys \/ b \in acc \/ \E i \in 1..Len(toPage) : Gives(toPage[i], b)
    BY DEF Inv, Holds
  <2>2. \A i \in 1..Len(toPage) : toPage[i] \in ToSet(toPage)
    BY InToSet DEF Inv, Queues
  <2> QED BY <2>1, <2>2 DEF Gives
<1> QED BY <1>1, Invariance, PTL

\* The lifecycle's generation is the worker's, or one behind it while the reply
\* to a capture loss is under way, and no pointer request is posted stale.
THEOREM GenerationAgreement == Spec => []GenerationsAgree
<1>1. Inv => GenerationsAgree
  <2> SUFFICES ASSUME Inv, browser # "TERMINAL"
               PROVE  GenerationsAgree
    BY DEF GenerationsAgree, Terminal
  <2> DEFINE done == {r \in ToSet(toPage) : r.ok /\ r.request.op = "loss"}
  <2>1. /\ \A r \in ToSet(toPage) : Done(r) => worker.gen = epoch + 1
        /\ (\A r \in ToSet(toPage) : ~Done(r)) => worker.gen = epoch
        /\ \A q \in ToSet(toWorker) : IsPointer(q) => q.gen = worker.gen
        /\ epoch \in Nat
    BY BoundAssumption DEF Inv, Gens, PageTypes
  <2>2. worker.gen = epoch + (IF done = {} THEN 0 ELSE 1)
    <3>1. CASE done = {}
      <4>1. \A r \in ToSet(toPage) : ~Done(r)
        BY <3>1 DEF Done
      <4> QED BY <2>1, <3>1, <4>1
    <3>2. CASE done # {}
      <4>1. \E r \in ToSet(toPage) : Done(r)
        BY <3>2 DEF Done
      <4> QED BY <2>1, <3>2, <4>1
    <3> QED BY <3>1, <3>2
  <2>3. /\ DOMAIN toWorker = 1..Len(toWorker) /\ Len(toWorker) \in Nat
        /\ \A i \in 1..Len(toWorker) : toWorker[i] \in ToSet(toWorker)
    BY LenProperties, InToSet DEF Inv, Queues
  <2>4. ASSUME NEW i \in 1..Len(toWorker), IsPointer(toWorker[i]),
               NEW j \in 1..i-1
        PROVE  toWorker[j].op # "loss"
    <3>1. j \in 1..Len(toWorker) /\ j < i
      BY <2>3
    <3>2. Before(toWorker[j], toWorker[i], crossed)
      BY <3>1 DEF Inv, InOrder
    <3> QED BY <2>4, <3>2 DEF Before
  <2> QED BY <2>1, <2>2, <2>3, <2>4 DEF GenerationsAgree
<1> QED BY <1>1, Invariance, PTL

\* A suspended page leaves the guest neutral, with no edge on its way.
THEOREM SuspensionIsNeutral == Spec => []SuspendedIsNeutral
<1>1. Inv => SuspendedIsNeutral
  <2>1. Inv => Neutralized(browser, worker, phys, acc, captured, InFlight)
    BY PageFacts
  <2> QED BY <2>1 DEF Neutralized, SuspendedIsNeutral
<1> QED BY <1>1, Invariance, PTL

\* When every transition has settled the capture is held exactly while the
\* physical mask is not empty, and the lifecycle says so too - unless the
\* capture was dropped under a press that was under way.
THEOREM CaptureFollows == Spec => []CaptureFollowsPhysical
<1>1. Inv => CaptureFollowsPhysical
  <2> SUFFICES ASSUME Inv, Quiet, browser # "TERMINAL", ~crossed
               PROVE  (captured <=> phys # {}) /\ (captured <=> browser = "CAPTURED")
    BY DEF CaptureFollowsPhysical, Terminal
  <2>1. Capture(browser, phys, captured, crossed, InFlight)
    BY PageFacts
  <2>2. ~LossIn(InFlight) /\ ~FirstIn(InFlight)
    BY DEF Quiet, LossIn, FirstIn
  <2> QED BY <2>1, <2>2 DEF Capture
<1> QED BY <1>1, Invariance, PTL

\* Fail-stop is final: no reply still under way revives the lifecycle, and the
\* page posts no pointer request any more.
THEOREM TerminalIsSilent == Spec => TerminalSilent
<1> DEFINE Silent == Terminal =>
      /\ Terminal'
      /\ Len(toWorker') > Len(toWorker) => ~IsPointer(Last(toWorker'))
<1>1. Inv /\ [Next]_vars => [Silent]_vars
  <2> SUFFICES ASSUME Inv, Next, browser = "TERMINAL"
               PROVE  /\ browser' = "TERMINAL"
                      /\ Len(toWorker') > Len(toWorker) => ~IsPointer(Last(toWorker'))
    BY DEF Terminal
  <2>1. toWorker \in Seq(Wire) /\ Len(toWorker) \in Nat
    BY DEF Inv, Queues
  <2>2. ASSUME NEW b \in Buttons PROVE ~PointerDown(b) /\ ~PointerUp(b) /\ ~AccessibleButton(b)
    BY DEF PointerDown, CanPress, PointerUp, AccessibleButton, Terminal
  <2>3. /\ ~Move /\ ~LostPointerCapture /\ ~ReleaseAll /\ ~Focus
        /\ ~AcknowledgeNeutralization /\ ~Resume
    BY DEF Move, CanMove, LostPointerCapture, ReleaseAll, Focus,
           AcknowledgeNeutralization, Resume, Terminal
  <2>4. CASE Keyboard
    <3>1. PICK q : /\ \/ q = FocusLost
                      \/ \E op \in {"key-down", "key-up"}, k \in Keys :
                           q = KeyEdge(op, k)
                   /\ Post(q)
      BY <2>4 DEF Keyboard
    <3>2. q \in Wire /\ ~IsPointer(q)
      BY <3>1, WireKeyboard
    <3>3. toWorker' = Append(toWorker, q)
      BY <3>1 DEF Post
    <3>4. /\ Len(toWorker') = Len(toWorker) + 1
          /\ toWorker'[Len(toWorker) + 1] = q
      BY <2>1, <3>2, <3>3, AppendProperties
    <3>5. Last(toWorker') = q
      BY <3>4 DEF Last
    <3>6. browser' = browser
      BY <2>4 DEF Keyboard, page, lifecycle
    <3> QED BY <3>2, <3>5, <3>6
  <2>5. CASE SetTransform
    BY <2>1, <2>5 DEF SetTransform, lifecycle
  <2>6. CASE HandleRequest
    <3>1. toWorker # <<>> /\ toWorker' = Tail(toWorker) /\ browser' = browser
      BY <2>6 DEF HandleRequest, page, lifecycle
    <3>2. Len(toWorker') = Len(toWorker) - 1
      BY <2>1, <3>1, HeadTailProperties
    <3> QED BY <2>1, <3>1, <3>2
  <2>7. CASE ReceiveReply
    <3>1. toWorker' = toWorker
      BY <2>7 DEF ReceiveReply
    <3>2. browser' = "TERMINAL"
      <4> DEFINE r == Head(toPage)
      <4>1. \/ ReceiveDown(r.request, r.ok) \/ ReceiveUp(r.request, r.ok)
            \/ ReceiveRelease(r.ok) \/ ReceiveLoss(r)
        BY <2>7 DEF ReceiveReply
      <4> HIDE DEF r
      <4>2. CASE ReceiveDown(r.request, r.ok)
        BY <4>2 DEF ReceiveDown, CommitDown, CaptureAcquired
      <4>3. CASE ReceiveUp(r.request, r.ok)
        BY <4>3 DEF ReceiveUp, CommitUp, CaptureReleased
      <4>4. CASE ReceiveRelease(r.ok)
        BY <4>4 DEF ReceiveRelease, CaptureReleased, FailStop
      <4>5. CASE ReceiveLoss(r)
        BY <4>5 DEF ReceiveLoss, Terminal, page, lifecycle, FailStop
      <4> QED BY <4>1, <4>2, <4>3, <4>4, <4>5
    <3> QED BY <2>1, <3>1, <3>2
  <2> QED BY <2>2, <2>3, <2>4, <2>5, <2>6, <2>7 DEF Next, Event
<1> QED BY <1>1, Invariance, PTL DEF Spec, TerminalSilent

=============================================================================
