---------------------------- MODULE PointerInput ----------------------------
(***************************************************************************)
(* The pointer and keyboard path from the page to the guest worker: the    *)
(* adapter of browser/cadr-m9-pointer-adapter.mjs in its production form   *)
(* (submitPointerOperation), the lifecycle of                              *)
(* wasm/cadr-m9-interactive-lifecycle.mjs it drives, the channel of        *)
(* browser/cadr-m8-m9-worker-channel.mjs, and the worker's two             *)
(* controllers behind v6InputSubhandlerResult.                             *)
(*                                                                         *)
(* The page keeps a mirror of the buttons the guest holds; the worker has  *)
(* the truth.  Every request crosses to the worker, and its reply crosses  *)
(* back, while more browser events arrive.                                 *)
(*                                                                         *)
(* A handler that awaits an earlier transition runs when that transition   *)
(* has settled: its action is not enabled before.  Coordinates are left    *)
(* out: an event outside the layout is refused without effect.  There is   *)
(* one primary mouse pointer, so a capture owner is a Boolean.             *)
(***************************************************************************)
EXTENDS Integers, Sequences, SequencesExt

CONSTANTS
  Buttons,    \* the mouse buttons
  Keys,       \* the physical keys
  MaxEpoch,   \* MAX_U32 of the input generation
  MaxFlight   \* bound on requests and replies under way

ASSUME BoundAssumption == MaxEpoch \in Nat /\ MaxFlight \in Nat \ {0}

VARIABLES
  browser,    \* CadrM9InteractiveLifecycle.#browser; #worker follows it
  epoch,      \* its #epoch
  acked,      \* its #neutralAcknowledged
  phys,       \* CadrM9PointerAdapter.#physicalButtons
  acc,        \* its #accessibleButtons
  captured,   \* its #capturedPointerId is not null
  mapped,     \* its #transform is not null
  worker,     \* the worker's pointer and keyboard controllers
  toWorker,   \* requests posted and not yet handled
  toPage,     \* replies posted and not yet received
  crossed     \* history: the capture was dropped under a press that was
              \* posted and not yet answered

adapter == <<phys, acc, captured, mapped>>
lifecycle == <<browser, epoch, acked>>
page == <<adapter, lifecycle>>
vars == <<page, worker, toWorker, toPage, crossed>>

Accepting == {"ACTIVE", "CAPTURED"}
BrowserStates == Accepting \cup {"IDLE", "SUSPENDED", "TERMINAL"}

\* Requests.  "release" and "loss" are pointer-neutralize with the causes
\* accessibility and capture-loss; "first" marks the press that took capture.
Transition(op, src, b, first) ==
  [op |-> op, src |-> src, button |-> b, first |-> first, gen |-> epoch]
Neutralize(op) == [op |-> op, gen |-> epoch]
Motion == [op |-> "motion", gen |-> epoch]
KeyEdge(op, k) == [op |-> op, key |-> k]
FocusLost == [op |-> "focus-lost"]

IsTransition(q) == q.op \in {"down", "up"}
IsPointer(q) == q.op \in {"down", "up", "motion", "release", "loss"}

Init ==
  /\ browser = "IDLE" /\ epoch = 0 /\ acked = FALSE
  /\ phys = {} /\ acc = {} /\ captured = FALSE /\ mapped = FALSE
  /\ worker = [gen |-> 0, held |-> {}, keys |-> {}, failed |-> FALSE]
  /\ toWorker = <<>> /\ toPage = <<>> /\ crossed = FALSE

-----------------------------------------------------------------------------
\* What the page waits for

InFlight == ToSet(toWorker) \cup {r.request : r \in ToSet(toPage)}

\* #pendingPhysicalButtons, #pendingAccessibleButtons, #pendingFirstDown and
\* #pendingDeactivation: the settling of the request each was made for.
Pending(src, b) ==
  \E q \in InFlight : IsTransition(q) /\ q.src = src /\ q.button = b
AnyPending == \E q \in InFlight : IsTransition(q)
PressPending == \E q \in InFlight : q.op = "down" /\ q.src = "physical"
FirstDownPending == \E q \in InFlight : q.op = "down" /\ q.first
DeactivationPending == \E q \in InFlight : q.op = "loss"

Room == Len(toWorker) + Len(toPage) < MaxFlight

Post(q) == toWorker' = Append(toWorker, q) /\ UNCHANGED toPage
NoPost == UNCHANGED <<toWorker, toPage>>

-----------------------------------------------------------------------------
\* The lifecycle

Terminal == browser = "TERMINAL"

\* #lifecycleAcceptsInput
AcceptsInput == ~DeactivationPending /\ browser \in Accepting

\* activate(), reached through #prepareFocus.
Activated == IF browser = "IDLE" THEN "ACTIVE" ELSE browser

CaptureAnyway(s) == "CAPTURED"                                   \* mutant

\* captureAcquired() and captureReleased()
CaptureAcquired(s) == IF s = "ACTIVE" THEN "CAPTURED" ELSE s
CaptureReleased(s) == IF s = "CAPTURED" THEN "ACTIVE" ELSE s

\* #failStop: the adapter and the lifecycle end together.
FailStop ==
  /\ browser' = "TERMINAL"
  /\ phys' = {} /\ acc' = {} /\ captured' = FALSE /\ mapped' = FALSE
  /\ UNCHANGED <<epoch, acked>>

\* acknowledgeNeutralization() and resume()
AcknowledgeNeutralization ==
  /\ browser = "SUSPENDED" /\ ~acked
  /\ acked' = TRUE
  /\ UNCHANGED <<adapter, browser, epoch, worker, toWorker, toPage, crossed>>

Resume ==
  /\ browser = "SUSPENDED" /\ acked
  /\ browser' = "ACTIVE" /\ acked' = FALSE
  /\ UNCHANGED <<adapter, epoch, worker, toWorker, toPage, crossed>>

SetTransform ==
  /\ ~mapped
  /\ mapped' = TRUE
  /\ UNCHANGED <<phys, acc, captured, lifecycle, worker, toWorker, toPage,
                 crossed>>

\* focus()
Focus ==
  /\ ~Terminal /\ ~DeactivationPending /\ browser = "IDLE"
  /\ browser' = Activated
  /\ UNCHANGED <<adapter, epoch, acked, worker, toWorker, toPage, crossed>>

-----------------------------------------------------------------------------
\* The adapter's mirror

\* #acceptSourceDown and the rest of pointerDown's commit
CommitDown(b, first, state) ==
  /\ phys' = phys \cup {b}
  /\ browser' = IF first THEN CaptureAcquired(state) ELSE state

\* #acceptSourceUp and the rest of pointerUp's commit
CommitUp(b) ==
  LET last == b \in phys /\ phys = {b} IN
  /\ phys' = phys \ {b}
  /\ captured' = (captured /\ ~last)
  /\ browser' = IF last THEN CaptureReleased(browser) ELSE browser
  /\ crossed' = (crossed \/ (last /\ PressPending))

\* The commit of accessibleButton: a press or a release of that source.
CommitAccessible(op, b) ==
  acc' = IF op = "down" THEN acc \cup {b} ELSE acc \ {b}

-----------------------------------------------------------------------------
\* Browser events

CanPress(b) ==
  /\ ~Terminal /\ ~DeactivationPending /\ ~FirstDownPending
  /\ mapped /\ ~Pending("accessibility", b) /\ b \notin phys

\* pointerDown: a further button, or the first one, which takes focus and
\* capture before it is posted.  Capture may be refused by the browser.
PointerDown(b) ==
  LET first == phys = {} /\ ~captured
      state == IF first THEN Activated ELSE browser
      taken == ~first \/ state \in Accepting
  IN
  /\ CanPress(b) /\ Room
  /\ \/ /\ taken
        /\ captured' = (captured \/ first)
        /\ IF b \in acc
           THEN CommitDown(b, first, state) /\ NoPost
           ELSE /\ Post(Transition("down", "physical", b, first))
                /\ browser' = state /\ UNCHANGED phys
     \/ /\ first /\ browser' = state
        /\ NoPost /\ UNCHANGED <<phys, captured>>
  /\ UNCHANGED <<acc, mapped, epoch, acked, worker, crossed>>

PointerUp(b) ==
  /\ ~Terminal /\ ~FirstDownPending /\ AcceptsInput /\ captured
  /\ ~Pending("accessibility", b) /\ b \in phys /\ Room
  /\ IF b \in acc
     THEN CommitUp(b) /\ NoPost
     ELSE /\ Post(Transition("up", "physical", b, FALSE))
          /\ UNCHANGED <<phys, captured, browser, crossed>>
  /\ UNCHANGED <<acc, mapped, epoch, acked, worker>>

\* accessibleButton: one control both presses and releases.
AccessibleButton(b) ==
  LET op == IF b \in acc THEN "up" ELSE "down" IN
  /\ ~Terminal /\ ~FirstDownPending /\ AcceptsInput /\ Room
  /\ ~Pending("physical", b) /\ ~Pending("accessibility", b)
  /\ IF b \in phys
     THEN CommitAccessible(op, b) /\ NoPost
     ELSE Post(Transition(op, "accessibility", b, FALSE)) /\ UNCHANGED acc
  /\ UNCHANGED <<phys, captured, mapped, lifecycle, worker, crossed>>

MoveAnyTime == ~Terminal /\ browser \in Accepting               \* mutant

\* The guard of accessibleMove, which is weaker than that of pointerMove.
CanMove == ~Terminal /\ AcceptsInput

Move ==
  /\ CanMove /\ Room
  /\ Post(Motion)
  /\ UNCHANGED <<page, worker, crossed>>

LostPointerCapture ==
  /\ ~Terminal /\ ~DeactivationPending /\ ~AnyPending /\ captured /\ Room
  /\ captured' = FALSE
  /\ Post(Neutralize("loss"))
  /\ UNCHANGED <<phys, acc, mapped, lifecycle, worker, crossed>>

ReleaseAll ==
  /\ ~Terminal /\ ~DeactivationPending /\ ~AnyPending /\ Room
  /\ Post(Neutralize("release"))
  /\ UNCHANGED <<page, worker, crossed>>

\* bindCadrM8PhysicalKeyboard.  Bound: one keyboard request under way.
Keyboard ==
  /\ Room /\ \A q \in InFlight : q.op \notin {"key-down", "key-up", "focus-lost"}
  /\ \/ \E op \in {"key-down", "key-up"}, k \in Keys : Post(KeyEdge(op, k))
     \/ Post(FocusLost)
  /\ UNCHANGED <<page, worker, crossed>>

-----------------------------------------------------------------------------
\* The worker

KeyboardOnly(w) == [w EXCEPT !.keys = {}]                   \* mutant

\* neutralize() and the keyboard's clearHeldForSharedDeactivation()
Neutral(w) == [w EXCEPT !.held = {}, !.keys = {}]

AdmitsAtLimit(w, q) ==                                           \* mutant
  /\ IsPointer(q) => q.gen = w.gen
  /\ q.op = "down" => q.button \notin w.held
  /\ q.op = "up" => q.button \in w.held
  /\ q.op = "loss" => w.gen <= MaxEpoch
  /\ q.op = "key-down" => q.key \notin w.keys
  /\ q.op = "key-up" => q.key \in w.keys

\* The controllers refuse: another generation, an edge that changes nothing,
\* or no next generation.
Admits(w, q) ==
  /\ IsPointer(q) => q.gen = w.gen
  /\ q.op = "down" => q.button \notin w.held
  /\ q.op = "up" => q.button \in w.held
  /\ q.op = "loss" => w.gen < MaxEpoch
  /\ q.op = "key-down" => q.key \notin w.keys
  /\ q.op = "key-up" => q.key \in w.keys

Applied(w, q) ==
  CASE q.op = "down" -> [w EXCEPT !.held = @ \cup {q.button}]
    [] q.op = "up" -> [w EXCEPT !.held = @ \ {q.button}]
    [] q.op = "key-down" -> [w EXCEPT !.keys = @ \cup {q.key}]
    [] q.op = "key-up" -> [w EXCEPT !.keys = @ \ {q.key}]
    [] q.op \in {"release", "focus-lost"} -> Neutral(w)
    [] q.op = "loss" -> [Neutral(w) EXCEPT !.gen = @ + 1]
    [] OTHER -> w

\* A delivery that breaks off: the guest saw some of the releases, or nothing.
BrokenOff(w, q) ==
  {[w EXCEPT !.held = h, !.failed = TRUE] :
     h \in IF q.op \in {"release", "loss", "focus-lost"}
           THEN SUBSET w.held ELSE {w.held}}

\* Nobody reads the replies to a motion or to a keyboard request.
Reply(q, ok) ==
  toPage' = IF IsTransition(q) \/ q.op \in {"release", "loss"}
            THEN Append(toPage, [request |-> q, ok |-> ok,
                                 prior |-> q.gen, next |-> worker'.gen])
            ELSE toPage

\* v6InputSubhandlerResult: the preflight may refuse any request (the core is
\* not running, its ordinals are used up, the keyboard FIFO is full).
HandleRequest ==
  /\ toWorker # <<>>
  /\ LET q == Head(toWorker) IN
     \/ /\ UNCHANGED worker
        /\ Reply(q, FALSE)
     \/ /\ ~worker.failed /\ Admits(worker, q)
        /\ worker' = Applied(worker, q)
        /\ Reply(q, TRUE)
     \/ /\ ~worker.failed /\ Admits(worker, q)
        /\ worker' \in BrokenOff(worker, q)
        /\ Reply(q, FALSE)
  /\ toWorker' = Tail(toWorker)
  /\ UNCHANGED <<page, crossed>>

-----------------------------------------------------------------------------
\* Replies

Quiet == \A q \in InFlight : q.op \notin {"down", "up", "release", "loss"}

KeepsRefused(q, ok) ==                                           \* mutant
  /\ IF q.src = "accessibility"
     THEN /\ IF ok THEN CommitAccessible("down", q.button) ELSE UNCHANGED acc
          /\ UNCHANGED <<phys, captured, browser>>
     ELSE /\ IF ok THEN CommitDown(q.button, q.first, browser)
             ELSE UNCHANGED <<phys, browser>>
          /\ UNCHANGED <<captured, acc>>
  /\ UNCHANGED <<mapped, epoch, acked, crossed>>

ReceiveDown(q, ok) ==
  /\ IF q.src = "accessibility"
     THEN /\ IF ok THEN CommitAccessible("down", q.button) ELSE UNCHANGED acc
          /\ UNCHANGED <<phys, captured, browser>>
     ELSE /\ IF ok THEN CommitDown(q.button, q.first, browser)
                        /\ UNCHANGED captured
             ELSE /\ captured' = (captured /\ ~(q.first /\ phys = {}))
                  /\ UNCHANGED <<phys, browser>>
          /\ UNCHANGED acc
  /\ UNCHANGED <<mapped, epoch, acked, crossed>>

ReceiveUp(q, ok) ==
  /\ IF ~ok THEN UNCHANGED <<phys, acc, captured, browser, crossed>>
     ELSE IF q.src = "accessibility"
     THEN CommitAccessible("up", q.button)
          /\ UNCHANGED <<phys, captured, browser, crossed>>
     ELSE CommitUp(q.button) /\ UNCHANGED acc
  /\ UNCHANGED <<mapped, epoch, acked>>

ReleasedAnyway(ok) ==                                            \* mutant
  /\ phys' = {} /\ acc' = {} /\ captured' = FALSE
  /\ browser' = CaptureReleased(browser)
  /\ crossed' = PressPending
  /\ UNCHANGED <<mapped, epoch, acked>>

\* The accepted reply empties the mirror, whatever was posted meanwhile.
ReceiveRelease(ok) ==
  IF ok \/ Terminal
  THEN /\ IF ok THEN phys' = {} /\ acc' = {} /\ captured' = FALSE
          ELSE UNCHANGED <<phys, acc, captured>>
       /\ browser' = CaptureReleased(browser)
       /\ crossed' = PressPending
       /\ UNCHANGED <<mapped, epoch, acked>>
  ELSE FailStop /\ UNCHANGED crossed

LossIgnored(r) ==                                                \* mutant
  IF Terminal \/ ~r.ok THEN UNCHANGED <<page, crossed>>
  ELSE /\ browser' = "SUSPENDED" /\ epoch' = r.next /\ acked' = FALSE
       /\ phys' = {} /\ acc' = {} /\ mapped' = FALSE
       /\ crossed' = FALSE /\ UNCHANGED captured

\* externalNeutralizationAccepted(): adopt the worker's generation or end.
ReceiveLoss(r) ==
  IF Terminal THEN UNCHANGED <<page, crossed>>
  ELSE IF /\ r.ok /\ browser \in Accepting
          /\ epoch < MaxEpoch /\ r.prior = epoch /\ r.next = epoch + 1
  THEN /\ browser' = "SUSPENDED" /\ epoch' = r.next /\ acked' = FALSE
       /\ phys' = {} /\ acc' = {} /\ mapped' = FALSE
       /\ crossed' = FALSE /\ UNCHANGED captured
  ELSE FailStop /\ UNCHANGED crossed

ReceiveReply ==
  /\ toPage # <<>>
  /\ LET r == Head(toPage) IN
     CASE r.request.op = "down" -> ReceiveDown(r.request, r.ok)
       [] r.request.op = "up" -> ReceiveUp(r.request, r.ok)
       [] r.request.op = "release" -> ReceiveRelease(r.ok)
       [] OTHER -> ReceiveLoss(r)
  /\ toPage' = Tail(toPage)
  /\ UNCHANGED <<worker, toWorker>>

-----------------------------------------------------------------------------

Event ==
  \/ \E b \in Buttons : PointerDown(b) \/ PointerUp(b) \/ AccessibleButton(b)
  \/ Move \/ LostPointerCapture \/ ReleaseAll \/ Keyboard
  \/ Focus \/ SetTransform \/ AcknowledgeNeutralization \/ Resume

Next == Event \/ HandleRequest \/ ReceiveReply

\* The worker's message loop and the page's event loop both keep going.
Fairness == WF_vars(HandleRequest) /\ WF_vars(ReceiveReply)

Spec == Init /\ [][Next]_vars /\ Fairness

-----------------------------------------------------------------------------
\* Properties

Requests ==
  [op : {"down", "up"}, src : {"physical", "accessibility"},
   button : Buttons, first : BOOLEAN, gen : 0..MaxEpoch]
  \cup [op : {"motion", "release", "loss"}, gen : 0..MaxEpoch]
  \cup [op : {"key-down", "key-up"}, key : Keys] \cup {FocusLost}

\* The adapter, the lifecycle and the worker's controllers stay in their
\* domains, and no more than MaxFlight messages are under way.
PTypeOK ==
  /\ browser \in BrowserStates /\ epoch \in 0..MaxEpoch
  /\ {acked, captured, mapped, crossed} \subseteq BOOLEAN
  /\ phys \subseteq Buttons /\ acc \subseteq Buttons
  /\ worker \in [gen : 0..MaxEpoch, held : SUBSET Buttons,
                 keys : SUBSET Keys, failed : BOOLEAN]
  /\ toWorker \in Seq(Requests)
  /\ \A r \in ToSet(toPage) : r.request \in Requests /\ r.ok \in BOOLEAN
  /\ Len(toWorker) + Len(toPage) <= MaxFlight

\* Until the adapter fails, a button the guest sees held is one the page knows
\* of: it is in a mirror, or the reply that will put it there is on its way.
\* Otherwise nothing on the page would ever release it (accepted replies,
\* Release All and capture loss empty the mirrors in any order).
NoUnknownHold ==
  Terminal \/ \A b \in worker.held :
    \/ b \in phys \cup acc
    \/ \E r \in ToSet(toPage) :
         r.ok /\ r.request.op = "down" /\ r.request.button = b

\* The lifecycle's generation is the worker's, except between a capture loss
\* the worker carried out and its reply; and a pointer request that the worker
\* will handle carries the generation it will then have.  A stale request is
\* one the guest never sees and, for Release All, a fail-stop.
GenerationsAgree ==
  Terminal \/
    LET done == {r \in ToSet(toPage) : r.ok /\ r.request.op = "loss"} IN
    /\ worker.gen = epoch + (IF done = {} THEN 0 ELSE 1)
    /\ \A i \in DOMAIN toWorker : IsPointer(toWorker[i]) =>
         /\ toWorker[i].gen = worker.gen
         /\ \A j \in 1..i-1 : toWorker[j].op # "loss"

\* A suspended page leaves the guest neutral: no button is held, no edge is
\* on its way, and both mirrors and the capture are gone until it resumes.
SuspendedIsNeutral ==
  browser = "SUSPENDED" =>
    /\ worker.held = {} /\ phys = {} /\ acc = {} /\ ~captured
    /\ ~\E q \in InFlight : q.op \in {"down", "up", "motion", "loss"}

\* When every transition has settled, the capture is held exactly while the
\* physical mask is not empty, and the lifecycle says so too - unless the last
\* button's release, or Release All, dropped the capture under another press
\* that was under way: that button then has no owner and its release is refused.
CaptureFollowsPhysical ==
  Quiet /\ ~Terminal /\ ~crossed =>
    /\ captured <=> phys # {}
    /\ captured <=> browser = "CAPTURED"

\* Fail-stop is final although replies are still under way: no reply revives
\* the lifecycle, and the page posts no pointer request any more.
TerminalSilent ==
  [][Terminal =>
       /\ Terminal'
       /\ Len(toWorker') > Len(toWorker) => ~IsPointer(Last(toWorker'))]_vars

\* A lost capture is always resolved: the page is suspended with the worker's
\* agreement, or fails for good.  It refuses all pointer input meanwhile.
LossSettles ==
  DeactivationPending ~> (browser \in {"SUSPENDED", "TERMINAL"})

=============================================================================
