------------------------ MODULE M10ControllerProofs ------------------------
(***************************************************************************)
(* Proofs about M10Controller for every number of roots, sessions, writer  *)
(* epochs, losses, release attempts and published heads, and whatever      *)
(* subset of its methods the shell calls.                                  *)
(***************************************************************************)
EXTENDS M10Controller, FiniteSetTheorems, TLAPS

-----------------------------------------------------------------------------
\* The inductive invariant.  Each part takes the state it speaks of as
\* arguments, so that an action which leaves that state alone preserves it.

Entry == [generation : Nat, root : Roots]
RequestRecord == [kind : RequestKinds \cup {"none"}, root : Roots]
OpRecord ==
  [kind : {"none", "write", "mutate", "collect", "recover"},
   pc : {"none", "grant", "plan", "replan", "stage", "repair", "guest",
         "commit", "close", "collect", "recover", "failed"},
   epoch : {0} \cup Epochs, closure : Seq(Entry), root : Roots,
   captured : 0..MaxFlights]
ServiceRecord ==
  [pc : {"idle", "read", "write", "answer", "apology", "op", "wait"},
   request : RequestRecord, worker : 0..MaxFlights,
   from : {"none", "op", "answer", "apology"},
   last : BOOLEAN, done : BOOLEAN, flight : 0..MaxFlights]
GuestRecord ==
  [id : 0..MaxFlights, up : BOOLEAN, request : RequestRecord,
   acked : SUBSET Roots, suspect : BOOLEAN]
LeaseRecord ==
  [phase : {"NONE", "ACQUIRING", "HELD", "RELEASE_REQUIRED", "RELEASING",
            "RECOVERY_REQUIRED", "RECOVERING"},
   pc : {"none", "check", "pin", "recheck", "await", "reopen", "unpin"},
   session : {0} \cup Sessions, attempt : Nat, pin : {0} \cup Sessions,
   epoch : 0..MaxFlights, fresh : BOOLEAN, binding : Seq(Entry),
   resumed : BOOLEAN, fenceEpoch : 0..MaxFlights, fenceFresh : BOOLEAN]
ReleaseRecord ==
  [attempt : Nat, epoch : 0..MaxFlights, fresh : BOOLEAN,
   session : {0} \cup Sessions, pc : {"await", "reopen", "unpin"}]
DiskRecord == [session : {0} \cup Sessions, readOnly : BOOLEAN]

\* Every published tree can be read.
StoreOK(l, o, p, r) ==
  /\ l \in Seq(Entry) /\ l # <<>> /\ o \in Sessions
  /\ p \subseteq Pins /\ r \subseteq Roots /\ RootsIn(l) \subseteq r

\* Replacements are numbered in turn.
FlightsOK(fl) ==
  /\ fl \in [1..MaxFlights -> {"unused", "pending", "ok", "failed"}]
  /\ \E n \in 0..MaxFlights :
       \A f \in 1..MaxFlights : fl[f] = "unused" <=> f > n

CtlOK(s, d, l, m, mf, o) ==
  /\ s \in {"CLEAN", "IN_DOUBT", "RECOVERY_REQUIRED"}
  /\ d \in DiskRecord /\ d.session <= o
  /\ l \subseteq Sessions
  /\ m \in 0..MaxFlights /\ mf \in BOOLEAN

\* The call that holds `busy` and the bridge that may have made it: who waits
\* for whom, and that what is to be published is the request's own tree,
\* stored before the guest hears of it, over a closure of the history.
OpOK(p, b, l, r) ==
  /\ p \in OpRecord /\ b \in ServiceRecord
  /\ (p.kind = "none") = (p.pc = "none")
  /\ (p.kind = "recover") = (p.pc = "recover")
  /\ (p.pc = "failed") = (b.pc = "wait" /\ b.from = "op")
  /\ (p.kind = "write") = (b.pc = "op" \/ (b.pc = "wait" /\ b.from = "op"))
  /\ p.pc = "guest" => p.kind = "write" /\ p.root \in r
  /\ p.pc = "collect" => p.kind = "collect"
  /\ p.kind = "write" /\ p.pc \in {"stage", "guest", "commit"} =>
       p.root = b.request.root
  /\ p.pc \in {"stage", "guest", "commit"} =>
       p.closure # <<>> /\ RootsIn(p.closure) \subseteq RootsIn(l)
  /\ p.kind = "write" /\ p.pc = "close" => p.root \in RootsIn(l)

\* The writes a guest believes in are published, but for the one whose
\* publication is under way; else the guest's loss was reported.
GuestOK(g, p, l) ==
  /\ g \in GuestRecord
  /\ \/ g.suspect
     \/ g.acked \subseteq RootsIn(l)
     \/ /\ p.kind = "write" /\ p.pc = "commit"
        /\ g.acked \subseteq RootsIn(l) \cup {p.root}

\* A lease that is not free shuts out every call that holds `busy`; attempts
\* of release exist only while one is due or under way.
LeaseOK(l, k, rs, o) ==
  /\ l \in LeaseRecord /\ rs \subseteq ReleaseRecord
  /\ l.fresh = (l.epoch # 0)
  /\ l.phase # "NONE" => k = "none"
  /\ l.phase = "NONE" => l = NoLease
  /\ l.pc # "none" => l.phase \in {"ACQUIRING", "RECOVERING"}
  /\ l.pc \in {"check", "pin", "recheck"} =>
       l.phase = "ACQUIRING" /\ l.pin = l.session
  /\ rs # {} => l.phase \in {"RELEASING", "RELEASE_REQUIRED"}
  /\ l.pin <= o

\* In the session that granted it, a lease's pin is in force from the moment
\* it was made, and a held lease's closure is the active one.
FrozenOK(l, o, lg, ps) ==
  o = l.pin =>
    /\ l.phase = "HELD" \/ l.pc = "recheck" =>
         [root |-> Tail1(l.binding), session |-> l.pin] \in ps
    /\ l.phase = "HELD" => lg = l.binding

CInv ==
  /\ StoreOK(log, owner, pinned, readable)
  /\ FlightsOK(flights)
  /\ CtlOK(state, disk, live, marker, markerFailed, owner)
  /\ OpOK(op, bridge, log, readable)
  /\ GuestOK(guest, op, log)
  /\ LeaseOK(lease, op.kind, releases, owner)
  /\ FrozenOK(lease, owner, log, pinned)
  /\ opening \in BOOLEAN /\ stuck \in BOOLEAN

\* Only the bridge reports losses, and it waits for each: there is one pending
\* replacement at most, the one the bridge waits for, and no guest runs until
\* it has succeeded.  A call's second report finds the flight of its first.
ReplacedOK(b, fl, m, mf, g) ==
  /\ \A f \in 1..MaxFlights :
       fl[f] = "pending" =>
         b.pc = "wait" /\ b.flight = f /\ m \in {0, f} /\ ~g.up
  /\ m # 0 => (mf <=> fl[m] = "failed")
  /\ b.pc = "wait" => b.flight # 0
  /\ b.pc = "wait" /\ fl[b.flight] = "failed" => ~g.up
  /\ b.pc = "wait" /\ b.from = "op" => m = b.flight

RInv == CInv /\ ReplacedOK(bridge, flights, marker, markerFailed, guest)

\* What a lease under an ambiguous completion keeps: doubt, and no handle
\* before the replacement it waits for has succeeded.
DoubtOK(l, rs, s, d, fl) ==
  /\ \A t \in rs : t.fresh = (t.epoch # 0)
  /\ \A t \in rs : t.fresh /\ t.pc \in {"reopen", "unpin"} =>
                     fl[t.epoch] = "ok"
  /\ /\ l.fresh
     /\ \/ l.phase \in {"HELD", "RELEASE_REQUIRED", "RELEASING"}
        \/ l.pc \in {"check", "pin", "recheck"}
     => s = "IN_DOUBT" /\ (d = NoDisk \/ fl[l.epoch] = "ok")

DInv == DoubtOK(lease, releases, state, disk, flights) /\ opening = FALSE

-----------------------------------------------------------------------------
\* Facts about values

LEMMA Constants ==
  /\ NoOp \in OpRecord /\ NoOp.kind = "none" /\ NoOp.pc = "none"
  /\ NoService \in ServiceRecord /\ NoService.pc = "idle"
  /\ NoService.from = "none"
  /\ NoLease \in LeaseRecord /\ NoLease.phase = "NONE" /\ NoLease.pc = "none"
  /\ NoLease.epoch = 0 /\ NoLease.fresh = FALSE /\ NoLease.pin = 0
  /\ NoDisk \in DiskRecord /\ NoDisk.session = 0
  /\ NoRequest \in RequestRecord
  /\ Requests \subseteq RequestRecord
<1>1. <<>> \in Seq(Entry)
  OBVIOUS
<1> QED BY <1>1, StoreAssumption, FlightsAssumption
        DEF NoOp, OpRecord, NoService, ServiceRecord, NoLease, LeaseRecord,
            NoDisk, DiskRecord, NoRequest, RequestRecord, Requests

\* Publication adds the root of the entry it appends to the history.
LEMMA AppendRoots ==
  ASSUME NEW l \in Seq(Entry), l # <<>>, NEW r \in Roots, NEW g \in Nat
  PROVE  LET e == [generation |-> g, root |-> r]
         IN /\ Append(l, e) \in Seq(Entry) /\ Append(l, e) # <<>>
            /\ RootsIn(Append(l, e)) = RootsIn(l) \cup {r}
<1> DEFINE e == [generation |-> g, root |-> r]
<1>1. e \in Entry /\ e.root = r
  BY DEF Entry
<1> HIDE DEF e
<1>2. /\ Append(l, e) \in Seq(Entry) /\ Len(Append(l, e)) = Len(l) + 1
      /\ \A i \in 1..Len(l) : Append(l, e)[i] = l[i]
      /\ Append(l, e)[Len(l) + 1] = e
      /\ Len(l) \in Nat
  BY <1>1
<1>3. \A i \in 1..(Len(l) + 1) : i \in 1..Len(l) \/ i = Len(l) + 1
  BY <1>2
<1>4. \A i \in 1..Len(l) : i \in 1..(Len(l) + 1)
  BY <1>2
<1>5. RootsIn(Append(l, e)) \subseteq RootsIn(l) \cup {r}
  BY <1>1, <1>2, <1>3 DEF RootsIn
<1>6. RootsIn(l) \cup {r} \subseteq RootsIn(Append(l, e))
  BY <1>1, <1>2, <1>4 DEF RootsIn
<1> QED BY <1>2, <1>5, <1>6 DEF e

\* The newest root is in the history.
LEMMA TailIn ==
  ASSUME NEW l \in Seq(Entry), l # <<>>
  PROVE  Tail1(l) \in RootsIn(l) /\ Tail1(l) \in Roots
         /\ l[Len(l)].generation \in Nat
<1>1. Len(l) \in 1..Len(l) /\ l[Len(l)] \in Entry
  OBVIOUS
<1> QED BY <1>1 DEF Tail1, RootsIn, Entry

\* The next replacement takes a number that no other has.
LEMMA NextFlightUnused ==
  ASSUME FlightsOK(flights), NextFlight <= MaxFlights
  PROVE  /\ NextFlight \in 1..MaxFlights /\ flights[NextFlight] = "unused"
         /\ FlightsOK([flights EXCEPT ![NextFlight] = "pending"])
<1>1. PICK n \in 0..MaxFlights :
        \A f \in 1..MaxFlights : flights[f] = "unused" <=> f > n
  BY DEF FlightsOK
<1>2. {f \in 1..MaxFlights : flights[f] # "unused"} = 1..n
  BY <1>1, FlightsAssumption
<1>3. Cardinality(1..n) = n
  BY <1>1, FlightsAssumption, FS_Interval
<1>4. NextFlight = n + 1
  <2>1. NextFlight = 1 + Cardinality(1..n)
    BY <1>2, Zenon DEF NextFlight
  <2> QED BY <1>1, <1>3, <2>1
<1> DEFINE g == [flights EXCEPT ![n + 1] = "pending"]
<1>5. n + 1 \in 1..MaxFlights /\ flights[n + 1] = "unused"
  BY <1>1, <1>4, FlightsAssumption
<1>6. g \in [1..MaxFlights -> {"unused", "pending", "ok", "failed"}]
  BY <1>5 DEF FlightsOK
<1>7. \A f \in 1..MaxFlights : g[f] = "unused" <=> f > n + 1
  BY <1>1, <1>5, FlightsAssumption DEF FlightsOK
<1>8. n + 1 \in 0..MaxFlights
  BY <1>5
<1>9. FlightsOK(g)
  BY <1>6, <1>7, <1>8 DEF FlightsOK
<1> QED BY <1>4, <1>5, <1>9

\* A flight that was pending and settles keeps the numbering.
LEMMA FlightSettles ==
  ASSUME FlightsOK(flights), NEW f \in 1..MaxFlights, flights[f] = "pending",
         NEW x \in {"ok", "failed"}
  PROVE  FlightsOK([flights EXCEPT ![f] = x])
<1>1. PICK n \in 0..MaxFlights :
        \A h \in 1..MaxFlights : flights[h] = "unused" <=> h > n
  BY DEF FlightsOK
<1> DEFINE g == [flights EXCEPT ![f] = x]
<1>2. g \in [1..MaxFlights -> {"unused", "pending", "ok", "failed"}]
  BY DEF FlightsOK
<1>3. \A h \in 1..MaxFlights : g[h] = "unused" <=> h > n
  BY <1>1 DEF FlightsOK
<1> QED BY <1>2, <1>3 DEF FlightsOK

-----------------------------------------------------------------------------
\* The store

\* A lease stays well-formed when the disk changes hands.
LEMMA OwnerGrows ==
  ASSUME NEW o \in Nat, NEW l, NEW k, NEW rs, LeaseOK(l, k, rs, o)
  PROVE  LeaseOK(l, k, rs, o + 1) /\ l.pin \in Nat /\ l.pin # o + 1
<1>1. l.pin \in {0} \cup Sessions /\ l.pin <= o
  BY DEF LeaseOK, LeaseRecord
<1>2. {0} \cup Sessions \subseteq Nat
  BY StoreAssumption
<1>3. l.pin \in Nat
  BY <1>1, <1>2, Zenon
<1>4. l.pin <= o + 1 /\ l.pin # o + 1
  BY <1>1, <1>3
<1> QED BY <1>3, <1>4 DEF LeaseOK

\* A new session: it owns the disk and voids grants and pins.
LEMMA TakeOverOK ==
  ASSUME CInv, owner + 1 \in Sessions, TakeOver(owner + 1)
  PROVE  /\ StoreOK(log', owner', pinned', readable')
         /\ log' = log /\ readable' = readable
         /\ owner' = owner + 1 /\ owner \in Nat
         /\ CtlOK(state, disk, live, marker, markerFailed, owner')
         /\ LeaseOK(lease, op.kind, releases, owner')
         /\ FrozenOK(lease, owner', log, pinned')
<1>1. owner \in Nat
  BY StoreAssumption DEF CInv, StoreOK
<1>2. owner' = owner + 1 /\ log' = log /\ readable' = readable
      /\ pinned' \subseteq pinned
  BY DEF TakeOver
<1>3. StoreOK(log', owner', pinned', readable')
  BY <1>2 DEF CInv, StoreOK
<1>4. LeaseOK(lease, op.kind, releases, owner') /\ lease.pin # owner'
  BY <1>1, <1>2, OwnerGrows DEF CInv
<1>5. CtlOK(state, disk, live, marker, markerFailed, owner')
  <2>1. disk.session \in {0} \cup Sessions /\ disk.session <= owner
    BY DEF CInv, CtlOK, DiskRecord
  <2>2. {0} \cup Sessions \subseteq Nat
    BY StoreAssumption
  <2>3. disk.session \in Nat
    BY <2>1, <2>2, Zenon
  <2>4. disk.session <= owner'
    BY <1>1, <1>2, <2>1, <2>3
  <2> QED BY <2>4 DEF CInv, CtlOK
<1> QED BY <1>1, <1>2, <1>3, <1>4, <1>5 DEF FrozenOK

\* The controller's part of a reopening.
LEMMA ReopenedOK ==
  ASSUME CInv, NEW ro \in BOOLEAN, Reopened(ro)
  PROVE  /\ StoreOK(log', owner', pinned', readable')
         /\ log' = log /\ readable' = readable
         /\ owner' = owner + 1 /\ owner \in Nat
         /\ LeaseOK(lease, op.kind, releases, owner')
         /\ FrozenOK(lease, owner', log, pinned')
         /\ disk' \in DiskRecord /\ disk'.session = owner + 1
         /\ disk'.session <= owner' /\ live' \subseteq Sessions
<1>1. /\ owner + 1 \in Sessions /\ TakeOver(owner + 1)
      /\ disk' = [session |-> owner + 1, readOnly |-> ro]
      /\ live' = live \cup {owner + 1}
  BY DEF Reopened
<1>2. disk' \in DiskRecord /\ disk'.session = owner + 1
  BY <1>1 DEF DiskRecord
<1>3. live' \subseteq Sessions
  BY <1>1 DEF CInv, CtlOK
<1> QED BY <1>1, <1>2, <1>3, TakeOverOK

\* closeWriter leaves all but the grant alone.
LEMMA CloseWriterOK ==
  ASSUME Release \/ TryCloseWriter \/ UNCHANGED dvars
  PROVE  UNCHANGED <<log, owner, pinned, readable>>
BY DEF Release, TryCloseWriter, dvars

\* A publication that lands.
LEMMA PublishOK ==
  ASSUME CInv, PublishLands
  PROVE  /\ StoreOK(log', owner', pinned', readable')
         /\ RootsIn(log') = RootsIn(log) \cup {op.root}
         /\ UNCHANGED <<owner, pinned, readable>>
<1>1. op.root \in readable /\ UNCHANGED <<owner, pinned, readable>>
      /\ log' = Append(log, [generation |-> NextGeneration, root |-> op.root])
  BY DEF PublishLands, Publish
<1>2. log \in Seq(Entry) /\ log # <<>> /\ op.root \in Roots
  BY DEF CInv, StoreOK, OpOK, OpRecord
<1>3. NextGeneration \in Nat
  BY <1>2, TailIn DEF NextGeneration
<1>4. /\ log' \in Seq(Entry) /\ log' # <<>>
      /\ RootsIn(log') = RootsIn(log) \cup {op.root}
  BY <1>1, <1>2, <1>3, AppendRoots
<1> QED BY <1>1, <1>4 DEF CInv, StoreOK

-----------------------------------------------------------------------------
\* A loss and its replacement

\* A lease under a new fence: a held or releasing one is due for release.
LEMMA FencedOK ==
  ASSUME CInv, NEW f \in 1..MaxFlights
  PROVE  LET l == LeaseFenced(f)
         IN LeaseOK(l, op.kind, releases, owner) /\ FrozenOK(l, owner, log, pinned)
<1> DEFINE l == LeaseFenced(f)
<1>1. CASE LeaseFree
  BY <1>1 DEF LeaseFenced, CInv
<1>2. CASE ~LeaseFree
  <2>1. lease \in LeaseRecord /\ LeaseOK(lease, op.kind, releases, owner)
    BY DEF CInv, LeaseOK
  <2>2. /\ l.fresh = TRUE /\ l.epoch = f /\ f # 0 /\ f \in 0..MaxFlights
        /\ l.phase = IF lease.phase \in {"HELD", "RELEASING"}
                     THEN "RELEASE_REQUIRED" ELSE lease.phase
        /\ l.pc = lease.pc /\ l.pin = lease.pin /\ l.session = lease.session
        /\ l.binding = lease.binding
        /\ l \in LeaseRecord
    <3>1. f # 0 /\ f \in 0..MaxFlights
      BY FlightsAssumption
    <3>2. lease.attempt + 1 \in Nat
      BY <2>1 DEF LeaseRecord
    <3>3. l = [lease EXCEPT !.fresh = TRUE, !.epoch = f,
                 !.phase = IF lease.phase \in {"HELD", "RELEASING"}
                           THEN "RELEASE_REQUIRED" ELSE lease.phase,
                 !.attempt = IF lease.phase = "RELEASING"
                             THEN lease.attempt + 1 ELSE lease.attempt]
      BY <1>2 DEF LeaseFenced
    <3> HIDE DEF l
    <3> QED BY <2>1, <3>1, <3>2, <3>3 DEF LeaseRecord
  <2> HIDE DEF l
  <2>3. LeaseOK(l, op.kind, releases, owner)
    BY <1>2, <2>1, <2>2 DEF LeaseOK, LeaseFree
  <2>4. FrozenOK(l, owner, log, pinned)
    BY <2>2 DEF FrozenOK, CInv
  <2> QED BY <2>3, <2>4 DEF l
<1> QED BY <1>1, <1>2

\* invalidateAfterAmbiguousGuest, whoever reports.
LEMMA ReportOK ==
  ASSUME CInv, NEW b \in ServiceRecord, NEW g \in GuestRecord, Report(b, g)
  PROVE  /\ FlightsOK(flights')
         /\ CtlOK(state', disk', live', marker', markerFailed', owner)
         /\ LeaseOK(lease', op.kind, releases, owner)
         /\ FrozenOK(lease', owner, log, pinned)
         /\ bridge' \in ServiceRecord /\ bridge'.pc = "wait"
         /\ bridge'.from = b.from /\ bridge'.request = b.request
         /\ guest' \in GuestRecord
         /\ guest' = g \/ guest'.acked = {}
<1>1. CASE Joins /\ bridge' = [b EXCEPT !.pc = "wait", !.flight = marker]
           /\ guest' = g /\ UNCHANGED <<ctl, lease>>
  <2>1. marker \in 0..MaxFlights
    BY DEF CInv, CtlOK
  <2>2. /\ bridge' \in ServiceRecord /\ bridge'.pc = "wait"
        /\ bridge'.from = b.from /\ bridge'.request = b.request
    BY <1>1, <2>1 DEF ServiceRecord
  <2> QED BY <1>1, <2>2 DEF CInv, ctl
<1>2. CASE ~Joins /\ ~(Joins /\ guest' = g)
  <2>1. /\ NextFlight <= MaxFlights
        /\ state' = "IN_DOUBT" /\ marker' = NextFlight /\ markerFailed' = FALSE
        /\ flights' = [flights EXCEPT ![NextFlight] = "pending"]
        /\ lease' = LeaseFenced(NextFlight)
        /\ disk' = NoDisk /\ live' = live \ {disk.session}
        /\ bridge' = [b EXCEPT !.pc = "wait", !.flight = NextFlight]
        /\ guest' = [g EXCEPT !.up = FALSE, !.request = NoRequest, !.acked = {}]
    BY <1>2 DEF Report
  <2>2. NextFlight \in 1..MaxFlights /\ FlightsOK(flights')
    BY <2>1, NextFlightUnused DEF CInv
  <2>3. NextFlight \in 0..MaxFlights
    BY <2>2, FlightsAssumption
  <2>4. CtlOK(state', disk', live', marker', markerFailed', owner)
    <3>1. owner \in Nat
      BY StoreAssumption DEF CInv, StoreOK
    <3>2. disk' \in DiskRecord /\ disk'.session <= owner
      BY <2>1, <3>1, Constants
    <3>3. live' \subseteq Sessions
      BY <2>1 DEF CInv, CtlOK
    <3> QED BY <2>1, <2>3, <3>2, <3>3 DEF CtlOK
  <2>5. /\ LeaseOK(lease', op.kind, releases, owner)
        /\ FrozenOK(lease', owner, log, pinned)
    BY <2>1, <2>2, FencedOK
  <2>6. /\ bridge' \in ServiceRecord /\ bridge'.pc = "wait"
        /\ bridge'.from = b.from /\ bridge'.request = b.request
    BY <2>1, <2>3 DEF ServiceRecord
  <2>7. guest' \in GuestRecord /\ guest'.acked = {}
    BY <2>1, Constants DEF GuestRecord
  <2> QED BY <2>2, <2>4, <2>5, <2>6, <2>7
<1> QED BY <1>1, <1>2 DEF Report

\* What a settled replacement leaves.
LEMMA WorkerReplacedOK ==
  ASSUME CInv, NEW f \in 1..MaxFlights, WorkerReplaced(f) PROVE CInv'
<1>1. FlightsOK(flights')
  BY FlightSettles DEF WorkerReplaced, CInv
<1>2. GuestOK(guest', op, log)
  <2>1. NewWorker(f) \in GuestRecord /\ NewWorker(f).acked = {}
    BY Constants DEF NewWorker, GuestRecord
  <2> QED BY <2>1 DEF GuestOK, WorkerReplaced
<1> QED BY <1>1, <1>2 DEF WorkerReplaced, CInv, dvars

LEMMA ReplacementFailsOK ==
  ASSUME CInv, NEW f \in 1..MaxFlights, ReplacementFails(f) PROVE CInv'
<1>1. FlightsOK(flights')
  BY FlightSettles DEF ReplacementFails, CInv
<1>2. CtlOK(state', disk', live', marker', markerFailed', owner)
  BY DEF ReplacementFails, CInv, CtlOK
<1> QED BY <1>1, <1>2 DEF ReplacementFails, CInv, dvars

-----------------------------------------------------------------------------
\* The bridge

\* A request or an answer that the bridge keeps to itself.
LEMMA CaughtOK ==
  ASSUME CInv, NEW st
  PROVE  /\ Caught(st) \in ServiceRecord
         /\ Caught(st).pc \in {"apology", "idle"} /\ Caught(st).from = "none"
<1>1. bridge \in ServiceRecord
  BY DEF CInv, OpOK
<1>2. /\ [bridge EXCEPT !.pc = "apology", !.from = "none"] \in ServiceRecord
      /\ [bridge EXCEPT !.pc = "apology", !.from = "none"].pc = "apology"
      /\ [bridge EXCEPT !.pc = "apology", !.from = "none"].from = "none"
  BY <1>1 DEF ServiceRecord
<1> QED BY <1>2, Constants DEF Caught

\* A bridge that serves no write leaves the running call alone.
LEMMA BridgeAside ==
  ASSUME OpOK(op, bridge, log, readable), op.kind # "write",
         NEW b \in ServiceRecord, b.pc # "op", b.pc = "wait" => b.from # "op"
  PROVE  OpOK(op, b, log, readable)
BY DEF OpOK

\* The host raises a request.
LEMMA GuestIssuesOK ==
  ASSUME CInv, NEW q \in Requests, GuestIssues(q) PROVE CInv'
<1>1. q \in RequestRecord
  BY Constants
<1>2. GuestOK(guest', op, log)
  BY <1>1 DEF GuestIssues, CInv, GuestOK, GuestRecord
<1> QED BY <1>2 DEF GuestIssues, CInv, dvars, ctl

LEMMA BridgeTakesOK == ASSUME CInv, BridgeTakes PROVE CInv'
<1>1. /\ bridge' \in ServiceRecord
      /\ bridge'.pc \in {"read", "write", "answer"}
  <2>1. guest.request \in RequestRecord /\ guest.id \in 0..MaxFlights
    BY DEF CInv, GuestOK, GuestRecord
  <2>2. NoService \in ServiceRecord
    BY Constants
  <2> QED BY <2>1, <2>2 DEF BridgeTakes, ServiceRecord
<1>2. OpOK(op, bridge, log, readable) /\ op.kind # "write"
  BY Constants DEF CInv, OpOK, BridgeTakes
<1>3. OpOK(op, bridge', log, readable)
  BY <1>1, <1>2, BridgeAside
<1> QED BY <1>3 DEF BridgeTakes, CInv, dvars, ctl

LEMMA BridgeReadsOK == ASSUME CInv, BridgeReads PROVE CInv'
<1>1. bridge.pc = "read" /\ bridge \in ServiceRecord
  BY DEF BridgeReads, CInv, OpOK
<1>2. [bridge EXCEPT !.pc = "answer"] \in ServiceRecord
      /\ [bridge EXCEPT !.pc = "answer"].pc = "answer"
  BY <1>1 DEF ServiceRecord
<1>3. bridge' \in ServiceRecord /\ bridge'.pc \in {"answer", "apology", "idle"}
  BY <1>1, <1>2, CaughtOK DEF BridgeReads
<1>4. OpOK(op, bridge, log, readable) /\ op.kind # "write"
  BY <1>1 DEF CInv, OpOK
<1>5. OpOK(op, bridge', log, readable)
  BY <1>3, <1>4, BridgeAside
<1> QED BY <1>5 DEF BridgeReads, CInv, dvars, ctl

\* A call that begins to hold `busy`.
LEMMA OpCallOK ==
  ASSUME NEW k \in {"write", "mutate", "collect"}
  PROVE  /\ OpCall(k) \in OpRecord /\ OpCall(k).kind = k
         /\ OpCall(k).pc = "grant"
<1>1. NoOp \in OpRecord
  BY Constants
<1> QED BY <1>1 DEF OpCall, OpRecord

LEMMA BridgeWritesOK == ASSUME CInv, BridgeWrites PROVE CInv'
<1>1. bridge.pc = "write" /\ bridge \in ServiceRecord
  BY DEF BridgeWrites, CInv, OpOK
<1>2. CASE CanMutate /\ op' = OpCall("write")
           /\ bridge' = [bridge EXCEPT !.pc = "op"]
  <2>1. bridge' \in ServiceRecord /\ bridge'.pc = "op"
    BY <1>1, <1>2 DEF ServiceRecord
  <2>2. OpOK(op', bridge', log, readable)
    BY <1>2, <2>1, OpCallOK DEF OpOK
  <2>3. GuestOK(guest, op', log) /\ LeaseOK(lease, op'.kind, releases, owner)
    <3>1. op.kind = "none" /\ lease.phase = "NONE"
      BY <1>2 DEF CanMutate, Busy, LeaseFree
    <3> QED BY <3>1 DEF CInv, GuestOK, LeaseOK
  <2> QED BY <2>2, <2>3 DEF BridgeWrites, CInv, dvars, ctl
<1>3. CASE bridge' = Caught(state) /\ UNCHANGED op
  <2>1. bridge' \in ServiceRecord /\ bridge'.pc \in {"apology", "idle"}
    BY <1>1, <1>3, CaughtOK
  <2>2. OpOK(op, bridge, log, readable) /\ op.kind # "write"
    BY <1>1 DEF CInv, OpOK
  <2>3. OpOK(op, bridge', log, readable)
    BY <2>1, <2>2, BridgeAside
  <2> QED BY <1>3, <2>3 DEF BridgeWrites, CInv, dvars, ctl
<1> QED BY <1>2, <1>3 DEF BridgeWrites

\* What becomes of the guest when a completion arrives.
LEMMA ConsumedOK ==
  ASSUME CInv, NEW ok \in BOOLEAN
  PROVE  /\ Consumed(ok) \in GuestRecord
         /\ Consumed(ok).suspect = guest.suspect
         /\ guest.acked \subseteq Consumed(ok).acked
         /\ Consumed(ok).acked \subseteq guest.acked \cup
              (IF ok THEN {bridge.request.root} ELSE {})
<1>1. guest \in GuestRecord /\ bridge.request.root \in Roots
  BY DEF CInv, GuestOK, OpOK, ServiceRecord, RequestRecord
<1> DEFINE a == IF ok /\ bridge.request.kind = "write"
                THEN guest.acked \cup {bridge.request.root} ELSE guest.acked
<1>2. a \subseteq Roots /\ guest.acked \subseteq a
      /\ a \subseteq guest.acked \cup (IF ok THEN {bridge.request.root} ELSE {})
  BY <1>1 DEF GuestRecord
<1>3. Consumed(ok) = [guest EXCEPT !.request = NoRequest, !.acked = a]
  BY DEF Consumed
<1> HIDE DEF a
<1>4. Consumed(ok) \in GuestRecord /\ Consumed(ok).suspect = guest.suspect
      /\ Consumed(ok).acked = a
  BY <1>1, <1>2, <1>3, Constants DEF GuestRecord
<1> QED BY <1>2, <1>4

LEMMA SuspectedOK ==
  ASSUME NEW g \in GuestRecord
  PROVE  Suspected(g) \in GuestRecord /\ Suspected(g).suspect
BY DEF Suspected, GuestRecord

\* A guest whose completion may or may not have arrived.
LEMMA LostOK ==
  ASSUME CInv, NEW ok \in BOOLEAN, NEW g \in GuestsAfterLoss(ok)
  PROVE  g \in GuestRecord
<1>1. guest \in GuestRecord
  BY DEF CInv, GuestOK
<1> QED BY <1>1, ConsumedOK DEF GuestsAfterLoss

\* A reported guest needs no publication, nor does one that was terminated.
LEMMA ReportedGuest ==
  ASSUME NEW g \in GuestRecord, g.suspect \/ g.acked = {}
  PROVE  \A p, l : GuestOK(g, p, l)
BY DEF GuestOK

LEMMA BridgeAnswersOK == ASSUME CInv, BridgeAnswers PROVE CInv'
<1>1. /\ bridge.pc \in {"answer", "apology"} /\ bridge \in ServiceRecord
      /\ OpOK(op, bridge, log, readable) /\ op.kind # "write"
      /\ UNCHANGED <<dvars, op, opening, releases, stuck>>
  BY DEF BridgeAnswers, CInv, OpOK
<1>2. CASE guest' = Consumed(FALSE) /\ bridge' = NoService
           /\ UNCHANGED <<ctl, lease>>
  <2>1. GuestOK(guest', op, log)
    BY <1>2, ConsumedOK DEF CInv, GuestOK
  <2>2. OpOK(op, bridge', log, readable)
    BY <1>1, <1>2, Constants, BridgeAside
  <2> QED BY <1>1, <1>2, <2>1, <2>2 DEF CInv, dvars, ctl
<1>3. CASE /\ bridge' = IF bridge.pc = "answer" THEN Caught(state) ELSE NoService
           /\ UNCHANGED <<ctl, lease, guest>>
  <2>1. bridge' \in ServiceRecord /\ bridge'.pc \in {"apology", "idle"}
    BY <1>3, CaughtOK, Constants
  <2>2. OpOK(op, bridge', log, readable)
    BY <1>1, <2>1, BridgeAside
  <2> QED BY <1>1, <1>3, <2>2 DEF CInv, dvars, ctl
<1>4. ASSUME NEW g \in GuestsAfterLoss(FALSE),
             Report([bridge EXCEPT !.from = bridge.pc], Suspected(g))
      PROVE  CInv'
  <2> DEFINE b == [bridge EXCEPT !.from = bridge.pc]
  <2>1. b \in ServiceRecord /\ b.from # "op"
    BY <1>1 DEF ServiceRecord
  <2> HIDE DEF b
  <2>2. Suspected(g) \in GuestRecord /\ Suspected(g).suspect
    BY LostOK, SuspectedOK
  <2>3. Report(b, Suspected(g))
    BY <1>4 DEF b
  <2>4. /\ FlightsOK(flights')
        /\ CtlOK(state', disk', live', marker', markerFailed', owner)
        /\ LeaseOK(lease', op.kind, releases, owner)
        /\ FrozenOK(lease', owner, log, pinned)
        /\ bridge' \in ServiceRecord /\ bridge'.pc = "wait"
        /\ bridge'.from # "op"
        /\ guest' \in GuestRecord
        /\ guest'.suspect \/ guest'.acked = {}
    BY <2>1, <2>2, <2>3, ReportOK
  <2>5. OpOK(op, bridge', log, readable)
    BY <1>1, <2>4, BridgeAside
  <2>6. GuestOK(guest', op, log)
    BY <2>4, ReportedGuest
  <2> QED BY <1>1, <2>4, <2>5, <2>6 DEF CInv, dvars
<1> QED BY <1>2, <1>3, <1>4 DEF BridgeAnswers

\* No lease is held under a call that holds `busy`.
LEMMA BusyLease ==
  ASSUME CInv, op.kind # "none"
  PROVE  /\ lease = NoLease /\ releases = {}
         /\ \A k : LeaseOK(lease, k, releases, owner)
         /\ \A o, l, q : FrozenOK(lease, o, l, q)
<1>1. lease = NoLease /\ releases = {}
  BY Constants DEF CInv, LeaseOK
<1> QED BY <1>1, Constants DEF CInv, LeaseOK, FrozenOK

\* publishPlan's failure after the guest may have advanced.
LEMMA FailsAfterGuestOK ==
  ASSUME CInv, op.kind = "write", op.pc # "none",
         NEW b \in ServiceRecord, NEW g \in GuestRecord,
         FailsAfterGuest(b, g)
  PROVE  /\ FlightsOK(flights')
         /\ CtlOK(state', disk', live', marker', markerFailed', owner)
         /\ LeaseOK(lease', op'.kind, releases, owner)
         /\ \A l : FrozenOK(lease', owner, l, pinned)
         /\ \A l, r : OpOK(op', bridge', l, r)
         /\ \A l : GuestOK(guest', op', l)
<1> DEFINE c == [b EXCEPT !.from = "op"]
<1>1. c \in ServiceRecord /\ c.from = "op"
  BY DEF ServiceRecord
<1> HIDE DEF c
<1>2. Suspected(g) \in GuestRecord /\ Suspected(g).suspect
  BY SuspectedOK
<1>3. Report(c, Suspected(g)) /\ op' = [op EXCEPT !.pc = "failed"]
  BY DEF FailsAfterGuest, c
<1>4. /\ FlightsOK(flights')
      /\ CtlOK(state', disk', live', marker', markerFailed', owner)
      /\ LeaseOK(lease', op.kind, releases, owner)
      /\ bridge' \in ServiceRecord /\ bridge'.pc = "wait"
      /\ bridge'.from = "op"
      /\ guest' \in GuestRecord
      /\ guest'.suspect \/ guest'.acked = {}
  BY <1>1, <1>2, <1>3, ReportOK
<1>5. op' \in OpRecord /\ op'.kind = "write" /\ op'.pc = "failed"
  BY <1>3 DEF CInv, OpOK, OpRecord
<1>6. \A l, r : OpOK(op', bridge', l, r)
  BY <1>4, <1>5 DEF OpOK
<1>7. \A l : GuestOK(guest', op', l)
  BY <1>4, ReportedGuest
<1>8. \A l : FrozenOK(lease', owner, l, pinned)
  BY <1>4, Constants DEF LeaseOK, FrozenOK
<1> QED BY <1>4, <1>5, <1>6, <1>7, <1>8

\* The tree that the guest is told of, and what becomes of the guest.
LEMMA CompletesWrite ==
  ASSUME CInv, BridgeCompletesWrite
  PROVE  /\ op.kind = "write" /\ op.pc = "guest" /\ bridge.pc = "op"
         /\ op.root = bridge.request.root /\ op.root \in readable
BY DEF BridgeCompletesWrite, CInv, OpOK

LEMMA BridgeCompletesWriteOK == ASSUME CInv, BridgeCompletesWrite PROVE CInv'
<1>1. /\ op.kind = "write" /\ op.pc = "guest" /\ bridge.pc = "op"
      /\ op.root = bridge.request.root
      /\ op.closure \in Seq(Entry) /\ op.closure # <<>>
      /\ RootsIn(op.closure) \subseteq RootsIn(log)
      /\ UNCHANGED <<dvars, opening, releases, stuck>>
  BY CompletesWrite DEF BridgeCompletesWrite, CInv, OpOK, OpRecord
<1>2. CASE /\ guest' = Consumed(TRUE)
           /\ bridge' = [bridge EXCEPT !.done = TRUE]
           /\ op' = [op EXCEPT !.pc = IF op.root = Tail1(op.closure)
                                      THEN "close" ELSE "commit"]
           /\ UNCHANGED <<ctl, lease>>
  <2>1. bridge' \in ServiceRecord /\ bridge'.pc = "op"
        /\ bridge'.request = bridge.request
    BY <1>1, <1>2 DEF CInv, OpOK, ServiceRecord
  <2>2. /\ op' \in OpRecord /\ op'.kind = op.kind /\ op'.root = op.root
        /\ op'.closure = op.closure
        /\ op'.pc = IF op.root = Tail1(op.closure) THEN "close" ELSE "commit"
    BY <1>2 DEF CInv, OpOK, OpRecord
  <2>3. op'.pc = "close" => op.root \in RootsIn(log)
    BY <1>1, <2>2, TailIn
  <2>4. OpOK(op', bridge', log, readable)
    BY <1>1, <2>1, <2>2, <2>3 DEF OpOK
  <2>5. GuestOK(guest', op', log)
    <3>1. guest.suspect \/ guest.acked \subseteq RootsIn(log)
      BY <1>1 DEF CInv, GuestOK
    <3>2. /\ guest' \in GuestRecord /\ guest'.suspect = guest.suspect
          /\ guest'.acked \subseteq guest.acked \cup {op.root}
      BY <1>1, <1>2, ConsumedOK
    <3>3. op'.kind = "write" /\ op'.root = op.root
          /\ op'.pc \in {"close", "commit"}
      BY <1>1, <2>2
    <3> QED BY <2>3, <3>1, <3>2, <3>3 DEF GuestOK
  <2>6. LeaseOK(lease, op'.kind, releases, owner)
    BY <1>1, BusyLease
  <2> QED BY <1>1, <1>2, <2>4, <2>5, <2>6 DEF CInv, dvars, ctl
<1>3. ASSUME NEW b \in ServiceRecord, NEW g \in GuestRecord,
             FailsAfterGuest(b, g)
      PROVE  CInv'
  BY <1>1, <1>3, FailsAfterGuestOK DEF CInv, dvars
<1>4. [bridge EXCEPT !.last = TRUE] \in ServiceRecord
      /\ bridge \in ServiceRecord /\ guest \in GuestRecord
  BY DEF CInv, OpOK, ServiceRecord, GuestOK
<1> QED BY <1>2, <1>3, <1>4, LostOK DEF BridgeCompletesWrite

LEMMA BridgeResumesOK == ASSUME CInv, BridgeResumes PROVE CInv'
<1>1. /\ bridge.pc = "wait" /\ bridge \in ServiceRecord
      /\ OpOK(op, bridge, log, readable) /\ GuestOK(guest, op, log)
      /\ UNCHANGED <<dvars, opening, releases, stuck>>
  BY DEF BridgeResumes, ContinuationDue, CInv, OpOK
<1>2. CASE bridge.from = "op" /\ Report([bridge EXCEPT !.last = TRUE], guest)
           /\ UNCHANGED op
  <2> DEFINE b == [bridge EXCEPT !.last = TRUE]
  <2>1. b \in ServiceRecord /\ b.from = "op"
    BY <1>1, <1>2 DEF ServiceRecord
  <2> HIDE DEF b
  <2>2. guest \in GuestRecord /\ op.pc = "failed" /\ op.kind = "write"
    BY <1>1, <1>2 DEF GuestOK, OpOK
  <2>3. /\ FlightsOK(flights')
        /\ CtlOK(state', disk', live', marker', markerFailed', owner)
        /\ LeaseOK(lease', op.kind, releases, owner)
        /\ FrozenOK(lease', owner, log, pinned)
        /\ bridge' \in ServiceRecord /\ bridge'.pc = "wait"
        /\ bridge'.from = "op" /\ guest' \in GuestRecord
        /\ guest' = guest \/ guest'.acked = {}
    BY <1>2, <2>1, <2>2, ReportOK DEF b
  <2>4. OpOK(op, bridge', log, readable)
    BY <1>1, <1>2, <2>2, <2>3 DEF OpOK
  <2>5. GuestOK(guest', op, log)
    BY <1>1, <2>3, ReportedGuest
  <2> QED BY <1>1, <1>2, <2>3, <2>4, <2>5 DEF CInv, dvars
<1>3. CASE /\ bridge.from = "op" /\ op' = NoOp
           /\ bridge' = IF bridge.done THEN NoService ELSE Caught(state)
           /\ UNCHANGED <<ctl, lease, guest>>
  <2>1. bridge' \in ServiceRecord /\ bridge'.pc \in {"apology", "idle"}
    BY <1>3, CaughtOK, Constants
  <2>2. OpOK(op', bridge', log, readable)
    BY <1>3, <2>1, Constants DEF OpOK
  <2>3. op.pc = "failed" /\ op.kind = "write"
    BY <1>1, <1>3 DEF OpOK
  <2>4. GuestOK(guest, op', log)
    BY <1>1, <2>3 DEF GuestOK
  <2>5. LeaseOK(lease, op'.kind, releases, owner)
    BY <2>3, BusyLease
  <2> QED BY <1>1, <1>3, <2>2, <2>4, <2>5 DEF CInv, dvars, ctl
<1>4. CASE /\ bridge.from # "op"
           /\ bridge' = IF bridge.from = "answer" THEN Caught(state)
                                                  ELSE NoService
           /\ UNCHANGED <<ctl, op, lease, guest>>
  <2>1. bridge' \in ServiceRecord /\ bridge'.pc \in {"apology", "idle"}
    BY <1>4, CaughtOK, Constants
  <2>2. op.kind # "write"
    BY <1>1, <1>4 DEF OpOK
  <2>3. OpOK(op, bridge', log, readable)
    BY <1>1, <2>1, <2>2, BridgeAside
  <2> QED BY <1>1, <1>4, <2>3 DEF CInv, dvars, ctl
<1> QED BY <1>2, <1>3, <1>4 DEF BridgeResumes

-----------------------------------------------------------------------------
\* The calls that hold `busy`

\* More history disturbs neither a call nor a guest.
LEMMA GrowOK ==
  ASSUME NEW l, NEW m, RootsIn(l) \subseteq RootsIn(m)
  PROVE  /\ \A p, b, r : OpOK(p, b, l, r) => OpOK(p, b, m, r)
         /\ \A g, p : GuestOK(g, p, l) => GuestOK(g, p, m)
<1>1. ASSUME NEW p, NEW b, NEW r, OpOK(p, b, l, r) PROVE OpOK(p, b, m, r)
  BY <1>1 DEF OpOK
<1>2. ASSUME NEW g, NEW p, GuestOK(g, p, l) PROVE GuestOK(g, p, m)
  BY <1>2 DEF GuestOK
<1> QED BY <1>1, <1>2

LEMMA HostBeginsOK == ASSUME CInv, NEW k, HostBegins(k) PROVE CInv'
<1>1. /\ op' = OpCall(k) /\ k \in {"mutate", "collect"}
      /\ op.kind = "none" /\ lease.phase = "NONE"
      /\ UNCHANGED <<dvars, ctl, opening, lease, releases, stuck, bridge, guest>>
  BY DEF HostBegins, CanMutate, Busy, LeaseFree
<1>2. op' \in OpRecord /\ op'.kind = k /\ op'.pc = "grant"
  BY <1>1, OpCallOK
<1>3. OpOK(op', bridge, log, readable)
  BY <1>1, <1>2 DEF CInv, OpOK
<1>4. GuestOK(guest, op', log) /\ LeaseOK(lease, op'.kind, releases, owner)
  BY <1>1 DEF CInv, GuestOK, LeaseOK
<1> QED BY <1>1, <1>3, <1>4 DEF CInv, dvars, ctl

\* A call that ends: nobody waits for it any more.
LEMMA OpEndsOK ==
  ASSUME CInv, op.kind # "none", op' = NoOp,
         \/ bridge' = bridge /\ op.kind # "write"
         \/ bridge' \in ServiceRecord /\ bridge'.pc \in {"apology", "idle"}
  PROVE  /\ OpOK(op', bridge', log, readable)
         /\ op'.kind = "none"
         /\ op.kind # "write" \/ op.pc # "commit" => GuestOK(guest, op', log)
<1>1. OpOK(op', bridge', log, readable)
  <2>1. CASE bridge' = bridge /\ op.kind # "write"
    BY <2>1, Constants DEF CInv, OpOK
  <2>2. CASE bridge' \in ServiceRecord /\ bridge'.pc \in {"apology", "idle"}
    BY <2>2, Constants DEF OpOK
  <2> QED BY <2>1, <2>2
<1>2. op.kind # "write" \/ op.pc # "commit" => GuestOK(guest, op', log)
  BY DEF CInv, GuestOK
<1> QED BY <1>1, <1>2, Constants

LEMMA OpThrowsOK ==
  ASSUME CInv, op.kind # "none", op.pc # "commit", NEW st, OpThrows(st)
  PROVE  /\ OpOK(op', bridge', log, readable)
         /\ op'.kind = "none" /\ GuestOK(guest, op', log)
<1>1. /\ op' = NoOp
      /\ \/ bridge' = bridge /\ op.kind # "write"
         \/ bridge' \in ServiceRecord /\ bridge'.pc \in {"apology", "idle"}
  BY CaughtOK DEF OpThrows
<1> QED BY <1>1, OpEndsOK

\* Between calls the lease may be anything, during one it is free.
LEMMA BusyStep ==
  ASSUME CInv, op.kind # "none" PROVE LeaseOK(lease, op'.kind, releases, owner)
BY BusyLease

\* A failure before the guest was told: the call goes on to a reopening, or
\* ends at once when there is no disk.
LEMMA RetreatsOK ==
  ASSUME CInv, NEW pc \in {"replan", "repair"},
         op.pc \in {"plan", "stage", "commit", "close"},
         op.kind # "write" \/ op.pc \in {"plan", "stage"},
         Retreats(pc)
  PROVE  /\ OpOK(op', bridge', log, readable) /\ GuestOK(guest, op', log)
         /\ live' \subseteq Sessions
<1>1. op.kind \notin {"none", "recover"} /\ op \in OpRecord
      /\ live \subseteq Sessions
      /\ GuestOK(guest, op, log) /\ OpOK(op, bridge, log, readable)
  BY DEF CInv, OpOK, CtlOK
<1>2. CASE disk = NoDisk
  <2>1. /\ op' = NoOp /\ live' = live
        /\ \/ bridge' = bridge /\ op.kind # "write"
           \/ bridge' \in ServiceRecord /\ bridge'.pc \in {"apology", "idle"}
    BY <1>2, CaughtOK DEF Retreats, OpThrows
  <2> QED BY <1>1, <2>1, OpEndsOK
<1>3. CASE disk # NoDisk
  <2>1. /\ live' = live \ {disk.session} /\ bridge' = bridge
        /\ op' = [op EXCEPT !.pc = pc]
    BY <1>3 DEF Retreats
  <2>2. op' \in OpRecord /\ op'.kind = op.kind /\ op'.pc = pc
    BY <1>1, <2>1 DEF OpRecord
  <2>3. OpOK(op', bridge', log, readable)
    BY <1>1, <2>1, <2>2 DEF OpOK
  <2>4. GuestOK(guest, op', log)
    BY <1>1 DEF GuestOK
  <2> QED BY <1>1, <2>1, <2>3, <2>4
<1> QED BY <1>2, <1>3

\* The controller's state when only the open handles change.
LEMMA LiveOK ==
  ASSUME CInv, live' \subseteq Sessions,
         UNCHANGED <<state, disk, marker, markerFailed>>
  PROVE  CtlOK(state', disk', live', marker', markerFailed', owner)
BY DEF CInv, CtlOK

LEMMA OpGrantsOK == ASSUME CInv, OpGrants PROVE CInv'
<1>1. /\ op.pc = "grant" /\ op.kind \notin {"none", "recover"}
      /\ UNCHANGED <<ctl, opening, lease, releases, stuck, guest>>
      /\ LeaseOK(lease, op'.kind, releases, owner)
      /\ OpOK(op, bridge, log, readable) /\ GuestOK(guest, op, log)
  <2>1. op.pc = "grant" /\ op.kind \notin {"none", "recover"}
    BY DEF OpGrants, CInv, OpOK
  <2> QED BY <2>1, BusyStep DEF OpGrants, CInv
<1>2. CASE /\ issued + 1 \in Epochs /\ Grant(issued + 1)
           /\ op' = [op EXCEPT !.epoch = issued + 1,
                !.pc = IF op.kind = "collect" THEN "collect" ELSE "plan"]
           /\ UNCHANGED bridge
  <2>1. UNCHANGED <<log, owner, pinned, readable>>
    BY <1>2 DEF Grant
  <2>2. /\ op' \in OpRecord /\ op'.kind = op.kind
        /\ op'.pc = IF op.kind = "collect" THEN "collect" ELSE "plan"
    BY <1>1, <1>2 DEF OpOK, OpRecord
  <2>3. OpOK(op', bridge, log, readable)
    BY <1>1, <2>2 DEF OpOK
  <2>4. GuestOK(guest, op', log)
    BY <1>1 DEF GuestOK
  <2> QED BY <1>1, <1>2, <2>1, <2>3, <2>4 DEF CInv, ctl
<1>3. CASE OpThrows(state) /\ UNCHANGED dvars
  <2>1. OpOK(op', bridge', log, readable) /\ GuestOK(guest, op', log)
    BY <1>1, <1>3, OpThrowsOK
  <2> QED BY <1>1, <1>3, <2>1 DEF CInv, ctl, dvars
<1> QED BY <1>2, <1>3 DEF OpGrants

LEMMA OpPlansOK == ASSUME CInv, OpPlans PROVE CInv'
<1>1. /\ op.pc = "plan" /\ op.kind \notin {"none", "recover"}
      /\ LeaseOK(lease, op'.kind, releases, owner)
      /\ OpOK(op, bridge, log, readable) /\ GuestOK(guest, op, log)
  <2>1. op.pc = "plan" /\ op.kind \notin {"none", "recover"}
    BY DEF OpPlans, CInv, OpOK
  <2> QED BY <2>1, BusyStep DEF CInv
<1>2. UNCHANGED <<state, disk, marker, markerFailed, flights, opening, lease,
                  releases, stuck, guest>>
  BY DEF OpPlans
<1>3. ASSUME NEW r \in Roots, op.kind = "write" => r = bridge.request.root,
             op' = [op EXCEPT !.closure = log, !.root = r,
                      !.pc = IF r = Tail1(log) THEN GuestFirst(op.kind, "close")
                                               ELSE "stage"],
             UNCHANGED <<dvars, live, bridge>>
      PROVE  CInv'
  <2>1. /\ log \in Seq(Entry) /\ log # <<>> /\ Tail1(log) \in RootsIn(log)
        /\ RootsIn(log) \subseteq readable
    BY TailIn DEF CInv, StoreOK
  <2>2. GuestFirst(op.kind, "close") = IF op.kind = "write" THEN "guest" ELSE "close"
    BY DEF GuestFirst
  <2>3. /\ op' \in OpRecord /\ op'.kind = op.kind /\ op'.root = r
        /\ op'.closure = log
        /\ op'.pc = IF r = Tail1(log) THEN GuestFirst(op.kind, "close")
                                      ELSE "stage"
    BY <1>1, <1>3, <2>1, <2>2 DEF OpOK, OpRecord
  <2>4. op'.pc = "guest" => op.kind = "write" /\ r \in readable
    BY <2>1, <2>2, <2>3
  <2>5. op'.pc \in {"guest", "close", "stage"}
        /\ (op.kind = "write" => op'.pc # "close")
    BY <2>2, <2>3
  <2>6. OpOK(op', bridge, log, readable)
    BY <1>1, <1>3, <2>1, <2>3, <2>4, <2>5 DEF OpOK
  <2>7. GuestOK(guest, op', log)
    BY <1>1 DEF GuestOK
  <2> QED BY <1>1, <1>2, <1>3, <2>6, <2>7 DEF CInv, dvars
<1>4. CASE TryCloseWriter /\ Retreats("replan")
  <2>1. UNCHANGED <<log, owner, pinned, readable>>
    BY <1>4, CloseWriterOK
  <2>2. OpOK(op', bridge', log, readable) /\ GuestOK(guest, op', log)
        /\ live' \subseteq Sessions
    BY <1>1, <1>4, RetreatsOK
  <2>3. CtlOK(state', disk', live', marker', markerFailed', owner)
    BY <1>2, <2>2, LiveOK
  <2> QED BY <1>1, <1>2, <2>1, <2>2, <2>3 DEF CInv
<1>5. CASE OpThrows(state) /\ UNCHANGED <<dvars, live>>
  <2>1. OpOK(op', bridge', log, readable) /\ GuestOK(guest, op', log)
    BY <1>1, <1>5, OpThrowsOK
  <2> QED BY <1>1, <1>2, <1>5, <2>1 DEF CInv, dvars
<1> QED BY <1>3, <1>4, <1>5 DEF OpPlans

LEMMA OpStagesOK == ASSUME CInv, OpStages PROVE CInv'
<1>1. /\ op.pc = "stage" /\ op.kind \notin {"none", "recover"}
      /\ LeaseOK(lease, op'.kind, releases, owner)
      /\ OpOK(op, bridge, log, readable) /\ GuestOK(guest, op, log)
      /\ op.root \in Roots
  <2>1. op.pc = "stage" /\ op.kind \notin {"none", "recover"}
    BY DEF OpStages, CInv, OpOK
  <2> QED BY <2>1, BusyStep DEF CInv, OpOK, OpRecord
<1>2. UNCHANGED <<state, disk, marker, markerFailed, flights, opening, lease,
                  releases, stuck, guest>>
  BY DEF OpStages
<1>3. CASE /\ Stage(op.root) /\ UNCHANGED <<live, bridge>>
           /\ op' = [op EXCEPT !.pc = GuestFirst(op.kind, "commit")]
  <2>1. /\ readable' = readable \cup {op.root}
        /\ UNCHANGED <<log, owner, pinned>>
    BY <1>3 DEF Stage
  <2>2. /\ op' \in OpRecord /\ op'.kind = op.kind /\ op'.root = op.root
        /\ op'.closure = op.closure
        /\ op'.pc = IF op.kind = "write" THEN "guest" ELSE "commit"
    BY <1>1, <1>3 DEF OpOK, OpRecord, GuestFirst
  <2>3. OpOK(op', bridge, log, readable')
    BY <1>1, <2>1, <2>2 DEF OpOK
  <2>4. StoreOK(log, owner, pinned, readable')
    BY <1>1, <2>1 DEF CInv, StoreOK
  <2>5. GuestOK(guest, op', log)
    BY <1>1 DEF GuestOK
  <2> QED BY <1>1, <1>2, <1>3, <2>1, <2>3, <2>4, <2>5 DEF CInv
<1>4. CASE TryCloseWriter /\ Retreats("repair")
  <2>1. UNCHANGED <<log, owner, pinned, readable>>
    BY <1>4, CloseWriterOK
  <2>2. OpOK(op', bridge', log, readable) /\ GuestOK(guest, op', log)
        /\ live' \subseteq Sessions
    BY <1>1, <1>4, RetreatsOK
  <2>3. CtlOK(state', disk', live', marker', markerFailed', owner)
    BY <1>2, <2>2, LiveOK
  <2> QED BY <1>1, <1>2, <2>1, <2>2, <2>3 DEF CInv
<1> QED BY <1>3, <1>4 DEF OpStages

LEMMA OpReopensOK == ASSUME CInv, OpReopens PROVE CInv'
<1>1. /\ op.pc \in {"replan", "repair"} /\ op.kind # "none"
      /\ \A k : LeaseOK(lease, k, releases, owner)
  <2>1. op.pc \in {"replan", "repair"} /\ op.kind # "none"
    BY DEF OpReopens, CInv, OpOK
  <2> QED BY <2>1, BusyLease
<1>2. UNCHANGED <<marker, markerFailed, flights, opening, lease, releases,
                  stuck, guest>>
  BY DEF OpReopens
<1>3. ASSUME NEW ro \in BOOLEAN, Reopened(ro), state' = StateAfter(ro),
             OpThrows(StateAfter(ro))
      PROVE  CInv'
  <2>1. OpOK(op', bridge', log, readable) /\ GuestOK(guest, op', log)
        /\ op'.kind = "none"
    BY <1>1, <1>3, OpThrowsOK
  <2>2. CtlOK(state', disk', live', marker, markerFailed, owner')
    BY <1>3, ReopenedOK DEF CtlOK, CInv, StateAfter
  <2>3. LeaseOK(lease, op'.kind, releases, owner')
    <3>1. owner \in Nat /\ owner' = owner + 1
      BY <1>3, ReopenedOK
    <3> QED BY <1>1, <3>1, OwnerGrows
  <2> QED BY <1>2, <1>3, <2>1, <2>2, <2>3, ReopenedOK DEF CInv
<1>4. CASE OpThrows(state) /\ UNCHANGED <<dvars, state, disk, live>>
  <2>1. OpOK(op', bridge', log, readable) /\ GuestOK(guest, op', log)
    BY <1>1, <1>4, OpThrowsOK
  <2> QED BY <1>1, <1>2, <1>4, <2>1 DEF CInv, dvars
<1>5. CASE /\ disk' = NoDisk /\ state' = "RECOVERY_REQUIRED"
           /\ OpThrows("RECOVERY_REQUIRED") /\ UNCHANGED <<dvars, live>>
  <2>1. OpOK(op', bridge', log, readable) /\ GuestOK(guest, op', log)
    BY <1>1, <1>5, OpThrowsOK
  <2>2. CtlOK(state', disk', live, marker, markerFailed, owner)
    <3>1. owner \in Nat
      BY StoreAssumption DEF CInv, StoreOK
    <3> QED BY <1>5, <3>1, Constants DEF CInv, CtlOK
  <2> QED BY <1>1, <1>2, <1>5, <2>1, <2>2 DEF CInv, dvars
<1> QED BY <1>3, <1>4, <1>5 DEF OpReopens

\* The failure of a call that publishes for the host, before or after the
\* publication has landed.
LEMMA HostLateFailureOK ==
  ASSUME CInv, op.kind # "write", op.pc \in {"commit", "close"}, LateFailure
  PROVE  /\ OpOK(op', bridge', log, readable) /\ GuestOK(guest, op', log)
         /\ CtlOK(state', disk', live', marker', markerFailed', owner)
         /\ UNCHANGED <<flights, lease, guest>>
<1>1. /\ Retreats("repair")
      /\ UNCHANGED <<state, disk, marker, markerFailed, flights, lease, guest>>
  BY DEF LateFailure
<1>2. OpOK(op', bridge', log, readable) /\ GuestOK(guest, op', log)
      /\ live' \subseteq Sessions
  BY <1>1, RetreatsOK
<1>3. CtlOK(state', disk', live', marker', markerFailed', owner)
  BY <1>1, <1>2, LiveOK
<1> QED BY <1>1, <1>2, <1>3

\* The same failure of a guest's write is a loss.
LEMMA WriteLateFailureOK ==
  ASSUME CInv, op.kind = "write", op.pc \in {"commit", "close"}, LateFailure
  PROVE  /\ FlightsOK(flights')
         /\ CtlOK(state', disk', live', marker', markerFailed', owner)
         /\ LeaseOK(lease', op'.kind, releases, owner)
         /\ \A l : FrozenOK(lease', owner, l, pinned)
         /\ \A l, r : OpOK(op', bridge', l, r)
         /\ \A l : GuestOK(guest', op', l)
<1>1. [bridge EXCEPT !.last = TRUE] \in ServiceRecord /\ guest \in GuestRecord
  BY DEF CInv, OpOK, ServiceRecord, GuestOK
<1>2. FailsAfterGuest([bridge EXCEPT !.last = TRUE], guest)
  BY DEF LateFailure
<1> QED BY <1>1, <1>2, FailsAfterGuestOK

LEMMA OpCommitsOK == ASSUME CInv, OpCommits PROVE CInv'
<1>1. /\ op.pc = "commit" /\ op.kind # "none"
      /\ UNCHANGED <<opening, releases, stuck>>
      /\ \A k : LeaseOK(lease, k, releases, owner)
      /\ \A l : FrozenOK(lease, owner, l, pinned)
      /\ GuestOK(guest, op, log)
  <2>1. op.pc = "commit" /\ op.kind # "none"
    BY DEF OpCommits, CInv, OpOK
  <2> QED BY <2>1, BusyLease DEF OpCommits, CInv
<1>2. CASE /\ PublishLands /\ state' = "CLEAN" /\ OpSucceeds
           /\ UNCHANGED <<disk, live, marker, markerFailed, flights, lease, guest>>
  <2>1. /\ StoreOK(log', owner', pinned', readable')
        /\ RootsIn(log') = RootsIn(log) \cup {op.root}
        /\ UNCHANGED <<owner, pinned, readable>>
    BY <1>2, PublishOK
  <2>2. /\ op' = NoOp
        /\ \/ bridge' = bridge /\ op.kind # "write"
           \/ bridge' \in ServiceRecord /\ bridge'.pc \in {"apology", "idle"}
    BY <1>2, Constants DEF OpSucceeds
  <2>3. OpOK(op', bridge', log, readable)
    BY <1>1, <2>2, OpEndsOK
  <2>4. OpOK(op', bridge', log', readable)
    BY <2>1, <2>3, GrowOK
  <2>5. GuestOK(guest, op', log')
    BY <1>1, <2>1 DEF GuestOK
  <2>6. CtlOK(state', disk', live', marker', markerFailed', owner)
    BY <1>2 DEF CInv, CtlOK
  <2> QED BY <1>1, <1>2, <2>1, <2>4, <2>5, <2>6 DEF CInv
<1>3. CASE LateFailure /\ PublishLands
  <2>1. /\ StoreOK(log', owner', pinned', readable')
        /\ RootsIn(log) \subseteq RootsIn(log')
        /\ UNCHANGED <<owner, pinned, readable>>
    BY <1>3, PublishOK
  <2>2. CASE op.kind = "write"
    BY <1>1, <1>3, <2>1, <2>2, WriteLateFailureOK DEF CInv
  <2>3. CASE op.kind # "write"
    <3>1. /\ OpOK(op', bridge', log, readable) /\ GuestOK(guest, op', log)
          /\ CtlOK(state', disk', live', marker', markerFailed', owner)
          /\ UNCHANGED <<flights, lease, guest>>
      BY <1>1, <1>3, <2>3, HostLateFailureOK
    <3>2. OpOK(op', bridge', log', readable) /\ GuestOK(guest, op', log')
      BY <2>1, <3>1, GrowOK
    <3> QED BY <1>1, <2>1, <3>1, <3>2 DEF CInv
  <2> QED BY <2>2, <2>3
<1>4. CASE LateFailure /\ IF op.kind = "write" THEN UNCHANGED dvars
                                               ELSE TryCloseWriter
  <2>1. UNCHANGED <<log, owner, pinned, readable>>
    BY <1>4, CloseWriterOK
  <2>2. CASE op.kind = "write"
    BY <1>1, <1>4, <2>1, <2>2, WriteLateFailureOK DEF CInv
  <2>3. CASE op.kind # "write"
    BY <1>1, <1>4, <2>1, <2>3, HostLateFailureOK DEF CInv
  <2> QED BY <2>2, <2>3
<1> QED BY <1>2, <1>3, <1>4 DEF OpCommits

LEMMA OpClosesOK == ASSUME CInv, OpCloses PROVE CInv'
<1>1. /\ op.pc = "close" /\ op.kind # "none"
      /\ UNCHANGED <<opening, releases, stuck>>
      /\ \A k : LeaseOK(lease, k, releases, owner)
      /\ \A l : FrozenOK(lease, owner, l, pinned)
  <2>1. op.pc = "close" /\ op.kind # "none"
    BY DEF OpCloses, CInv, OpOK
  <2> QED BY <2>1, BusyLease DEF OpCloses, CInv
<1>2. ASSUME UNCHANGED <<log, owner, pinned, readable>>,
             UNCHANGED <<ctl, lease, guest>>, op' = NoOp,
             \/ bridge' = bridge /\ op.kind # "write"
             \/ bridge' \in ServiceRecord /\ bridge'.pc \in {"apology", "idle"}
      PROVE  CInv'
  <2>1. OpOK(op', bridge', log, readable) /\ GuestOK(guest, op', log)
    BY <1>1, <1>2, OpEndsOK
  <2> QED BY <1>1, <1>2, <2>1 DEF CInv, ctl
<1>3. CASE Release /\ OpSucceeds /\ UNCHANGED <<ctl, lease, guest>>
  <2>1. /\ op' = NoOp
        /\ \/ bridge' = bridge /\ op.kind # "write"
           \/ bridge' \in ServiceRecord /\ bridge'.pc \in {"apology", "idle"}
    BY <1>3, Constants DEF OpSucceeds
  <2> QED BY <1>2, <1>3, <2>1, CloseWriterOK
<1>4. CASE op.kind = "collect" /\ op' = NoOp
           /\ UNCHANGED <<dvars, ctl, bridge, lease, guest>>
  BY <1>2, <1>4 DEF dvars
<1>5. CASE LateFailure /\ IF op.kind = "write" THEN UNCHANGED dvars
                                               ELSE TryCloseWriter
  <2>1. UNCHANGED <<log, owner, pinned, readable>>
    BY <1>5, CloseWriterOK
  <2>2. CASE op.kind = "write"
    BY <1>1, <1>5, <2>1, <2>2, WriteLateFailureOK DEF CInv
  <2>3. CASE op.kind # "write"
    BY <1>1, <1>5, <2>1, <2>3, HostLateFailureOK DEF CInv
  <2> QED BY <2>2, <2>3
<1> QED BY <1>3, <1>4, <1>5 DEF OpCloses

\* Collection keeps every tree that the history needs.
LEMMA OpCollectsOK == ASSUME CInv, OpCollects PROVE CInv'
<1>1. /\ op.pc = "collect" /\ op.kind = "collect"
      /\ UNCHANGED <<ctl, opening, lease, releases, stuck, bridge, guest>>
      /\ LeaseOK(lease, op'.kind, releases, owner)
      /\ OpOK(op, bridge, log, readable) /\ GuestOK(guest, op, log)
  <2>1. op.pc = "collect" /\ op.kind = "collect"
    BY DEF OpCollects, CInv, OpOK
  <2> QED BY <2>1, BusyStep DEF OpCollects, CInv
<1>2. CASE /\ readable' \in {readable, Needed} /\ Needed \subseteq readable
           /\ UNCHANGED <<log, owner, issued, grant, pinned>>
           /\ op' = [op EXCEPT !.pc = "close"]
  <2>1. RootsIn(log) \subseteq Needed
    BY DEF RootsIn, Needed
  <2>2. StoreOK(log, owner, pinned, readable')
    BY <1>2, <2>1 DEF CInv, StoreOK
  <2>3. op' \in OpRecord /\ op'.kind = "collect" /\ op'.pc = "close"
    BY <1>1, <1>2 DEF OpOK, OpRecord
  <2>4. OpOK(op', bridge, log, readable')
    BY <1>1, <2>3 DEF OpOK
  <2>5. GuestOK(guest, op', log)
    BY <1>1 DEF GuestOK
  <2> QED BY <1>1, <1>2, <2>2, <2>4, <2>5 DEF CInv, ctl
<1>3. CASE TryCloseWriter /\ op' = NoOp
  <2>1. UNCHANGED <<log, owner, pinned, readable>>
    BY <1>3, CloseWriterOK
  <2>2. OpOK(op', bridge', log, readable) /\ GuestOK(guest, op', log)
    BY <1>1, <1>3, OpEndsOK
  <2> QED BY <1>1, <2>1, <2>2 DEF CInv, ctl
<1> QED BY <1>2, <1>3 DEF OpCollects

-----------------------------------------------------------------------------
\* open, recover, close, another tab

\* Nothing that the controller shows changes but the disk it holds.
LEMMA NoDiskOK ==
  ASSUME CInv, disk' = NoDisk, live' = live \ {disk.session},
         UNCHANGED <<state, marker, markerFailed>>
  PROVE  CtlOK(state', disk', live', marker', markerFailed', owner)
<1>1. owner \in Nat
  BY StoreAssumption DEF CInv, StoreOK
<1> QED BY <1>1, Constants DEF CInv, CtlOK

LEMMA HostOpensOK == ASSUME CInv, HostOpens PROVE CInv'
BY DEF CInv, HostOpens, dvars, ctl

LEMMA OpenSettlesOK == ASSUME CInv, OpenSettles PROVE CInv'
<1>1. /\ opening' = FALSE
      /\ UNCHANGED <<marker, markerFailed, flights, op, lease, releases, stuck,
                     bridge, guest>>
  BY DEF OpenSettles
<1>2. ASSUME NEW ro \in BOOLEAN, Reopened(ro), state' = StateAfter(ro)
      PROVE  CInv'
  <2>1. CtlOK(state', disk', live', marker, markerFailed, owner')
    BY <1>2, ReopenedOK DEF CtlOK, CInv, StateAfter
  <2> QED BY <1>1, <1>2, <2>1, ReopenedOK DEF CInv
<1>3. CASE UNCHANGED <<dvars, disk, live, state>>
  BY <1>1, <1>3 DEF CInv, dvars
<1> QED BY <1>2, <1>3 DEF OpenSettles

LEMMA HostRecoversOK == ASSUME CInv, HostRecovers PROVE CInv'
<1>1. /\ op' = [NoOp EXCEPT !.kind = "recover", !.pc = "recover",
                            !.captured = marker]
      /\ op.kind = "none" /\ lease.phase = "NONE"
      /\ UNCHANGED <<dvars, state, marker, markerFailed, flights, opening, lease,
                     releases, stuck, bridge, guest>>
  BY DEF HostRecovers, Busy, LeaseFree
<1>2. CtlOK(state', disk', live', marker', markerFailed', owner)
  BY NoDiskOK DEF HostRecovers
<1>3. op' \in OpRecord /\ op'.kind = "recover" /\ op'.pc = "recover"
  BY <1>1, Constants DEF CInv, CtlOK, OpRecord
<1>4. OpOK(op', bridge, log, readable)
  BY <1>1, <1>3 DEF CInv, OpOK
<1>5. GuestOK(guest, op', log) /\ LeaseOK(lease, op'.kind, releases, owner)
  BY <1>1 DEF CInv, GuestOK, LeaseOK
<1> QED BY <1>1, <1>2, <1>4, <1>5 DEF CInv, dvars

LEMMA RecoverSettlesOK == ASSUME CInv, RecoverSettles PROVE CInv'
<1>1. /\ op.kind = "recover" /\ op.pc = "recover" /\ op' = NoOp
      /\ UNCHANGED <<flights, opening, lease, releases, stuck, bridge, guest>>
  BY DEF RecoverSettles, CInv, OpOK
<1>2. OpOK(op', bridge', log, readable) /\ GuestOK(guest, op', log)
  BY <1>1, OpEndsOK
<1>3. \A k : LeaseOK(lease, k, releases, owner)
  BY <1>1, BusyLease
<1>4. ASSUME NEW ro \in BOOLEAN, Reopened(ro),
             state' \in {"CLEAN", "RECOVERY_REQUIRED"},
             marker' \in {0, marker}, markerFailed' \in {FALSE, markerFailed}
      PROVE  CInv'
  <2>1. marker' \in 0..MaxFlights /\ markerFailed' \in BOOLEAN
    <3>1. 0 \in 0..MaxFlights
      BY FlightsAssumption
    <3>2. marker \in 0..MaxFlights /\ markerFailed \in BOOLEAN
      BY DEF CInv, CtlOK
    <3> QED BY <1>4, <3>1, <3>2
  <2>2. CtlOK(state', disk', live', marker', markerFailed', owner')
    BY <1>4, <2>1, ReopenedOK DEF CtlOK
  <2>3. LeaseOK(lease, op'.kind, releases, owner')
    <3>1. owner \in Nat /\ owner' = owner + 1
      BY <1>4, ReopenedOK
    <3> QED BY <1>3, <3>1, OwnerGrows
  <2> QED BY <1>1, <1>2, <1>4, <2>2, <2>3, ReopenedOK DEF CInv
<1>5. CASE /\ state' = "RECOVERY_REQUIRED"
           /\ UNCHANGED <<dvars, disk, live, marker, markerFailed>>
  <2>1. CtlOK(state', disk', live', marker', markerFailed', owner)
    BY <1>5 DEF CInv, CtlOK
  <2> QED BY <1>1, <1>2, <1>3, <1>5, <2>1 DEF CInv, dvars
<1> QED BY <1>4, <1>5 DEF RecoverSettles, Cleared

LEMMA HostClosesOK == ASSUME CInv, HostCloses PROVE CInv'
<1>1. CtlOK(state', disk', live', marker', markerFailed', owner)
  BY NoDiskOK DEF HostCloses
<1> QED BY <1>1 DEF HostCloses, CInv, dvars

LEMMA RivalTakesOverOK == ASSUME CInv, RivalTakesOver PROVE CInv'
<1>1. /\ owner + 1 \in Sessions /\ TakeOver(owner + 1)
      /\ UNCHANGED <<ctl, op, opening, lease, releases, stuck, bridge, guest>>
  BY DEF RivalTakesOver
<1> QED BY <1>1, TakeOverOK DEF CInv, ctl

-----------------------------------------------------------------------------
\* Snapshot review

\* A lease that is not held and awaits no confirmation promises nothing.
LEMMA Unfrozen ==
  ASSUME NEW l, l.phase # "HELD", l.pc # "recheck"
  PROVE  \A o, g, ps : FrozenOK(l, o, g, ps)
BY DEF FrozenOK

\* While a lease is being acquired or given up, no call runs and no release.
LEMMA Acquisition ==
  ASSUME CInv, lease.phase \in {"ACQUIRING", "RECOVERING", "RECOVERY_REQUIRED"}
  PROVE  /\ op.kind = "none" /\ releases = {} /\ lease \in LeaseRecord
         /\ lease.fresh = (lease.epoch # 0) /\ lease.pin <= owner
         /\ lease.resumed \in BOOLEAN
BY DEF CInv, LeaseOK, LeaseRecord

LEMMA FreeLeaseOK ==
  ASSUME NEW o \in Nat, NEW k PROVE LeaseOK(NoLease, k, {}, o)
<1>1. NoLease.pin <= o
  BY Constants
<1>2. ASSUME NEW l, l = NoLease PROVE LeaseOK(l, k, {}, o)
  <2>1. /\ l \in LeaseRecord /\ l.phase = "NONE" /\ l.pc = "none"
        /\ l.epoch = 0 /\ l.fresh = FALSE /\ l.pin <= o
    BY <1>1, <1>2, Constants
  <2> QED BY <1>2, <2>1 DEF LeaseOK
<1> QED BY <1>2

LEMMA NoLeaseOK ==
  ASSUME CInv PROVE LeaseOK(NoLease, op.kind, {}, owner)
<1>1. owner \in Nat
  BY StoreAssumption DEF CInv, StoreOK
<1> QED BY <1>1, FreeLeaseOK

\* The lease of a new acquisition.
LEMMA AcquiringOK ==
  ASSUME CInv, op.kind = "none", NEW again \in BOOLEAN
  PROVE  /\ LeaseOK(Acquiring(again), op.kind, {}, owner)
         /\ \A o, g, ps : FrozenOK(Acquiring(again), o, g, ps)
<1> DEFINE l == Acquiring(again)
<1>1. disk.session \in {0} \cup Sessions /\ disk.session <= owner
  BY DEF CInv, CtlOK, DiskRecord
<1>2. /\ l \in LeaseRecord /\ l.phase = "ACQUIRING" /\ l.pc = "check"
      /\ l.pin = disk.session /\ l.session = disk.session
      /\ l.fresh = FALSE /\ l.epoch = 0
  BY <1>1, Constants DEF Acquiring, LeaseRecord
<1> HIDE DEF l
<1>3. LeaseOK(l, op.kind, {}, owner)
  BY <1>1, <1>2 DEF LeaseOK
<1>4. \A o, g, ps : FrozenOK(l, o, g, ps)
  BY <1>2, Unfrozen
<1> QED BY <1>3, <1>4 DEF l

LEMMA AcquireBeginsOK == ASSUME CInv, AcquireBegins PROVE CInv'
<1>1. op.kind = "none" /\ lease.phase = "NONE" /\ lease' = Acquiring(FALSE)
      /\ UNCHANGED <<dvars, ctl, op, opening, releases, stuck, bridge, guest>>
  BY DEF AcquireBegins, CanAcquire, Accessible, Busy, LeaseFree
<1>2. releases = {}
  BY <1>1 DEF CInv, LeaseOK
<1>3. /\ LeaseOK(lease', op.kind, releases, owner)
      /\ FrozenOK(lease', owner, log, pinned)
  BY <1>1, <1>2, AcquiringOK
<1> QED BY <1>1, <1>3 DEF CInv, dvars, ctl

\* What a step of an acquisition leaves to show.
LEMMA LeaseStepOK ==
  ASSUME CInv, UNCHANGED <<ctl, log, owner, readable, op, opening, releases, bridge,
                           guest>>,
         StoreOK(log, owner, pinned', readable), stuck' \in BOOLEAN,
         LeaseOK(lease', op.kind, releases, owner),
         FrozenOK(lease', owner, log, pinned')
  PROVE  CInv'
BY DEF CInv, ctl

\* An acquisition that ends without a pin.
LEMMA AcquireFailsOK ==
  ASSUME CInv, lease.phase \in {"ACQUIRING", "RECOVERING"}, AcquireFails
  PROVE  /\ LeaseOK(lease', op.kind, releases, owner)
         /\ \A o, g, ps : FrozenOK(lease', o, g, ps)
         /\ stuck' \in BOOLEAN
<1>1. op.kind = "none" /\ releases = {} /\ lease.resumed \in BOOLEAN
  BY Acquisition
<1>2. lease' = NoLease /\ stuck' = lease.resumed
  BY DEF AcquireFails
<1>3. NoLease.phase # "HELD" /\ NoLease.pc # "recheck"
  BY Constants
<1> QED BY <1>1, <1>2, <1>3, NoLeaseOK, Unfrozen

LEMMA AcquireChecksOK == ASSUME CInv, AcquireChecks PROVE CInv'
<1>1. /\ lease.pc = "check" /\ lease.phase = "ACQUIRING"
      /\ lease.pin = lease.session
      /\ UNCHANGED <<dvars, ctl, op, opening, releases, bridge, guest>>
  BY DEF AcquireChecks, CInv, LeaseOK
<1>2. CASE lease' = [lease EXCEPT !.pc = "pin", !.binding = log]
           /\ UNCHANGED stuck
  <2>1. log \in Seq(Entry) /\ LeaseOK(lease, op.kind, releases, owner)
    BY DEF CInv, StoreOK
  <2>2. /\ lease' \in LeaseRecord /\ lease'.pc = "pin"
        /\ lease'.phase = "ACQUIRING" /\ lease'.pin = lease.pin
        /\ lease'.session = lease.session /\ lease'.fresh = lease.fresh
        /\ lease'.epoch = lease.epoch
    BY <1>1, <1>2, <2>1 DEF LeaseOK, LeaseRecord
  <2>3. LeaseOK(lease', op.kind, releases, owner)
    BY <1>1, <2>1, <2>2 DEF LeaseOK
  <2>4. FrozenOK(lease', owner, log, pinned)
    BY <2>2, Unfrozen
  <2> QED BY <1>1, <1>2, <2>3, <2>4 DEF CInv, dvars, ctl
<1>3. CASE AcquireFails
  BY <1>1, <1>3, AcquireFailsOK DEF CInv, dvars, ctl
<1> QED BY <1>2, <1>3 DEF AcquireChecks

\* A rollback keeps the lease and captures its fence.
LEMMA RollingBackOK ==
  ASSUME CInv, NEW l, LeaseOK(l, op.kind, releases, owner),
         l.phase \in {"ACQUIRING", "RECOVERING"}
  PROVE  /\ LeaseOK(RollingBack(l), op.kind, releases, owner)
         /\ \A o, g, ps : FrozenOK(RollingBack(l), o, g, ps)
<1> DEFINE m == RollingBack(l)
<1>1. l \in LeaseRecord
  BY DEF LeaseOK
<1>2. /\ m \in LeaseRecord /\ m.pc \in {"await", "reopen"}
      /\ m.phase = l.phase /\ m.pin = l.pin /\ m.fresh = l.fresh
      /\ m.epoch = l.epoch
  BY <1>1 DEF RollingBack, LeaseRecord
<1> HIDE DEF m
<1>3. LeaseOK(m, op.kind, releases, owner)
  BY <1>2 DEF LeaseOK
<1>4. \A o, g, ps : FrozenOK(m, o, g, ps)
  BY <1>2, Unfrozen
<1> QED BY <1>3, <1>4 DEF m

\* The pin that an acquisition makes.
LEMMA PinOK ==
  ASSUME CInv, lease.pin \in Sessions, Pin(ReviewPin)
  PROVE  /\ UNCHANGED <<log, owner, readable>>
         /\ StoreOK(log, owner, pinned', readable)
         /\ [root |-> Tail1(lease.binding), session |-> lease.pin] \in pinned'
<1>1. /\ ReviewPin.root \in readable /\ pinned' = pinned \cup {ReviewPin}
      /\ UNCHANGED <<log, owner, readable>>
  BY DEF Pin
<1>2. ReviewPin = [root |-> Tail1(lease.binding), session |-> lease.pin]
  BY DEF ReviewPin
<1>3. Tail1(lease.binding) \in Roots
  BY <1>1, <1>2 DEF CInv, StoreOK
<1>4. ReviewPin \in [root : Roots, session : Sessions]
  BY <1>2, <1>3
<1>5. ReviewPin \in Pins
  BY <1>4, StoreAssumption
<1> QED BY <1>1, <1>2, <1>5 DEF CInv, StoreOK

LEMMA AcquirePinsOK == ASSUME CInv, AcquirePins PROVE CInv'
<1>1. /\ lease.pc = "pin" /\ lease.phase = "ACQUIRING"
      /\ lease.pin = lease.session
      /\ UNCHANGED <<ctl, op, opening, releases, bridge, guest>>
      /\ LeaseOK(lease, op.kind, releases, owner)
      /\ StoreOK(log, owner, pinned, readable) /\ stuck \in BOOLEAN
  BY DEF AcquirePins, CInv, LeaseOK
<1>2. CASE /\ Usable(lease.session) /\ Pin(ReviewPin)
           /\ lease' = IF Continuous THEN [lease EXCEPT !.pc = "recheck"]
                                     ELSE RollingBack(lease)
           /\ UNCHANGED stuck
  <2>1. lease.pin \in Sessions
    BY <1>1, <1>2 DEF Usable, CInv, CtlOK
  <2>2. /\ UNCHANGED <<log, owner, readable>>
        /\ StoreOK(log, owner, pinned', readable)
        /\ [root |-> Tail1(lease.binding), session |-> lease.pin] \in pinned'
    BY <1>2, <2>1, PinOK
  <2>3. CASE lease' = [lease EXCEPT !.pc = "recheck"]
    <3>1. /\ lease' \in LeaseRecord /\ lease'.pc = "recheck"
          /\ lease'.phase = "ACQUIRING" /\ lease'.pin = lease.pin
          /\ lease'.session = lease.session /\ lease'.fresh = lease.fresh
          /\ lease'.epoch = lease.epoch /\ lease'.binding = lease.binding
      BY <1>1, <2>3 DEF LeaseOK, LeaseRecord
    <3>2. LeaseOK(lease', op.kind, releases, owner)
      BY <1>1, <3>1 DEF LeaseOK
    <3>3. FrozenOK(lease', owner, log, pinned')
      BY <2>2, <3>1 DEF FrozenOK
    <3> QED BY <1>1, <1>2, <2>2, <3>2, <3>3, LeaseStepOK
  <2>4. CASE lease' = RollingBack(lease)
    <3>1. /\ LeaseOK(lease', op.kind, releases, owner)
          /\ FrozenOK(lease', owner, log, pinned')
      BY <1>1, <2>4, RollingBackOK
    <3> QED BY <1>1, <1>2, <2>2, <3>1, LeaseStepOK
  <2> QED BY <1>2, <2>3, <2>4
<1>3. CASE AcquireFails /\ UNCHANGED dvars
  BY <1>1, <1>3, AcquireFailsOK DEF CInv, dvars, ctl
<1>4. CASE AcquireFails /\ lease.session = owner /\ Pin(ReviewPin)
  <2>1. lease.pin \in Sessions
    BY <1>1, <1>4 DEF StoreOK
  <2>2. /\ UNCHANGED <<log, owner, readable>>
        /\ StoreOK(log, owner, pinned', readable)
    BY <1>4, <2>1, PinOK
  <2>3. /\ LeaseOK(lease', op.kind, releases, owner)
        /\ FrozenOK(lease', owner, log, pinned') /\ stuck' \in BOOLEAN
    BY <1>1, <1>4, AcquireFailsOK
  <2> QED BY <1>1, <2>2, <2>3, LeaseStepOK
<1> QED BY <1>2, <1>3, <1>4 DEF AcquirePins

LEMMA AcquireRechecksOK == ASSUME CInv, AcquireRechecks PROVE CInv'
<1>1. /\ lease.pc = "recheck" /\ lease.phase = "ACQUIRING"
      /\ op.kind = "none" /\ releases = {}
      /\ UNCHANGED <<dvars, ctl, op, opening, releases, stuck, bridge, guest>>
      /\ LeaseOK(lease, op.kind, releases, owner)
      /\ FrozenOK(lease, owner, log, pinned)
  BY DEF AcquireRechecks, CInv, LeaseOK
<1>2. CASE /\ log = lease.binding
           /\ lease' = [lease EXCEPT !.phase = "HELD", !.pc = "none",
                                     !.resumed = FALSE]
  <2>1. /\ lease' \in LeaseRecord /\ lease'.pc = "none"
        /\ lease'.phase = "HELD" /\ lease'.pin = lease.pin
        /\ lease'.fresh = lease.fresh /\ lease'.epoch = lease.epoch
        /\ lease'.binding = lease.binding
    BY <1>1, <1>2 DEF LeaseOK, LeaseRecord
  <2>2. LeaseOK(lease', op.kind, releases, owner)
    BY <1>1, <2>1 DEF LeaseOK
  <2>3. FrozenOK(lease', owner, log, pinned)
    BY <1>1, <1>2, <2>1 DEF FrozenOK
  <2> QED BY <1>1, <2>2, <2>3 DEF CInv, dvars, ctl
<1>3. CASE lease' = RollingBack(lease)
  <2>1. /\ LeaseOK(lease', op.kind, releases, owner)
        /\ FrozenOK(lease', owner, log, pinned)
    BY <1>1, <1>3, RollingBackOK
  <2> QED BY <1>1, <2>1 DEF CInv, dvars, ctl
<1> QED BY <1>2, <1>3 DEF AcquireRechecks

LEMMA RollbackFailsOK ==
  ASSUME CInv, lease.phase \in {"ACQUIRING", "RECOVERING"}, RollbackFails
  PROVE  /\ LeaseOK(lease', op.kind, releases, owner)
         /\ \A o, g, ps : FrozenOK(lease', o, g, ps)
         /\ stuck' \in BOOLEAN
<1>1. op.kind = "none" /\ releases = {} /\ lease \in LeaseRecord
      /\ lease.fresh = (lease.epoch # 0) /\ lease.pin <= owner
  BY Acquisition
<1>2. /\ lease' = [lease EXCEPT !.phase = "RECOVERY_REQUIRED", !.pc = "none",
                                !.resumed = FALSE]
      /\ stuck' \in BOOLEAN
  BY DEF RollbackFails
<1>3. /\ lease' \in LeaseRecord /\ lease'.phase = "RECOVERY_REQUIRED"
      /\ lease'.pc = "none" /\ lease'.pin = lease.pin
      /\ lease'.fresh = lease.fresh /\ lease'.epoch = lease.epoch
  BY <1>1, <1>2 DEF LeaseRecord
<1>4. LeaseOK(lease', op.kind, releases, owner)
  BY <1>1, <1>3 DEF LeaseOK
<1> QED BY <1>2, <1>3, <1>4, Unfrozen

\* Who is in the middle of an acquisition or its rollback.
LEMMA Rolling ==
  ASSUME CInv, lease.pc # "none"
  PROVE  /\ lease.phase \in {"ACQUIRING", "RECOVERING"}
         /\ LeaseOK(lease, op.kind, releases, owner)
         /\ StoreOK(log, owner, pinned, readable) /\ stuck \in BOOLEAN
BY DEF CInv, LeaseOK

LEMMA RollbackAwaitsOK == ASSUME CInv, RollbackAwaits PROVE CInv'
<1>1. /\ lease.pc = "await"
      /\ UNCHANGED <<dvars, ctl, op, opening, releases, bridge, guest>>
  BY DEF RollbackAwaits
<1>2. /\ lease.phase \in {"ACQUIRING", "RECOVERING"}
      /\ LeaseOK(lease, op.kind, releases, owner)
  BY <1>1, Rolling
<1>3. CASE lease' = [lease EXCEPT !.pc = "reopen"] /\ UNCHANGED stuck
  <2>1. /\ lease' \in LeaseRecord /\ lease'.pc = "reopen"
        /\ lease'.phase = lease.phase /\ lease'.pin = lease.pin
        /\ lease'.fresh = lease.fresh /\ lease'.epoch = lease.epoch
    BY <1>2, <1>3 DEF LeaseOK, LeaseRecord
  <2>2. LeaseOK(lease', op.kind, releases, owner)
    BY <1>2, <2>1 DEF LeaseOK
  <2>3. FrozenOK(lease', owner, log, pinned)
    BY <1>2, <2>1, Unfrozen
  <2> QED BY <1>1, <1>3, <2>2, <2>3 DEF CInv, dvars, ctl
<1>4. CASE RollbackFails
  BY <1>1, <1>2, <1>4, RollbackFailsOK DEF CInv, dvars, ctl
<1> QED BY <1>3, <1>4 DEF RollbackAwaits

LEMMA RollbackReopensOK == ASSUME CInv, RollbackReopens PROVE CInv'
<1>1. /\ lease.pc = "reopen"
      /\ UNCHANGED <<marker, markerFailed, flights, op, opening, releases,
                     bridge, guest>>
  BY DEF RollbackReopens
<1>2. /\ lease.phase \in {"ACQUIRING", "RECOVERING"}
      /\ op.kind = "none" /\ releases = {} /\ lease \in LeaseRecord
      /\ lease.fresh = (lease.epoch # 0) /\ lease.pin <= owner
  BY <1>1, Rolling, Acquisition
<1>3. CASE /\ Reopened(FALSE) /\ state' = "CLEAN"
           /\ lease' = [lease EXCEPT !.pc = "unpin", !.session = owner + 1]
           /\ UNCHANGED stuck
  <2>1. /\ owner + 1 \in Sessions
        /\ StoreOK(log', owner', pinned', readable')
        /\ log' = log /\ readable' = readable
        /\ owner' = owner + 1 /\ owner \in Nat
        /\ LeaseOK(lease, op.kind, releases, owner')
        /\ disk' \in DiskRecord /\ disk'.session <= owner'
        /\ live' \subseteq Sessions
    BY <1>3, ReopenedOK DEF Reopened
  <2>2. /\ lease' \in LeaseRecord /\ lease'.pc = "unpin"
        /\ lease'.phase = lease.phase /\ lease'.pin = lease.pin
        /\ lease'.fresh = lease.fresh /\ lease'.epoch = lease.epoch
    BY <1>2, <1>3, <2>1 DEF LeaseRecord
  <2>3. LeaseOK(lease', op.kind, releases, owner')
    BY <1>2, <2>1, <2>2 DEF LeaseOK
  <2>4. FrozenOK(lease', owner', log', pinned')
    BY <1>2, <2>2, Unfrozen
  <2>5. CtlOK(state', disk', live', marker', markerFailed', owner')
    BY <1>1, <1>3, <2>1 DEF CInv, CtlOK
  <2> QED BY <1>1, <1>3, <2>1, <2>3, <2>4, <2>5 DEF CInv
<1>4. CASE RollbackFails /\ UNCHANGED <<dvars, disk, live, state>>
  BY <1>1, <1>2, <1>4, RollbackFailsOK DEF CInv, dvars
<1> QED BY <1>3, <1>4 DEF RollbackReopens

\* Giving up pins leaves the store well-formed.
LEMMA UnpinOK ==
  ASSUME CInv, NEW ps, Unpin(ps)
  PROVE  /\ UNCHANGED <<log, owner, readable>>
         /\ StoreOK(log, owner, pinned', readable)
BY DEF Unpin, CInv, StoreOK

LEMMA RollbackUnpinsOK == ASSUME CInv, RollbackUnpins PROVE CInv'
<1>1. /\ lease.pc = "unpin"
      /\ UNCHANGED <<ctl, op, opening, releases, bridge, guest>>
  BY DEF RollbackUnpins
<1>2. /\ lease.phase \in {"ACQUIRING", "RECOVERING"}
      /\ op.kind = "none" /\ releases = {} /\ stuck \in BOOLEAN
  BY <1>1, Rolling, Acquisition
<1>3. CASE /\ Unpin({ReviewPin})
           /\ \/ lease' = Acquiring(TRUE) /\ UNCHANGED stuck
              \/ AcquireFails
  <2>1. UNCHANGED <<log, owner, readable>>
        /\ StoreOK(log, owner, pinned', readable)
    BY <1>3, UnpinOK
  <2>2. /\ LeaseOK(lease', op.kind, releases, owner)
        /\ FrozenOK(lease', owner, log, pinned') /\ stuck' \in BOOLEAN
    BY <1>2, <1>3, AcquiringOK, AcquireFailsOK
  <2> QED BY <1>1, <2>1, <2>2, LeaseStepOK
<1>4. CASE RollbackFails /\ UNCHANGED dvars
  BY <1>1, <1>2, <1>4, RollbackFailsOK DEF CInv, dvars, ctl
<1> QED BY <1>3, <1>4 DEF RollbackUnpins

LEMMA AcquireResumesOK == ASSUME CInv, AcquireResumes PROVE CInv'
<1> DEFINE l == [lease EXCEPT !.phase = "RECOVERING", !.resumed = TRUE]
<1>1. /\ lease.phase = "RECOVERY_REQUIRED" /\ lease' = RollingBack(l)
      /\ UNCHANGED <<dvars, ctl, op, opening, releases, stuck, bridge, guest>>
  BY DEF AcquireResumes
<1>2. LeaseOK(lease, op.kind, releases, owner) /\ lease.pc = "none"
  BY <1>1 DEF CInv, LeaseOK, LeaseRecord
<1>3. /\ l \in LeaseRecord /\ l.phase = "RECOVERING" /\ l.pc = "none"
      /\ l.pin = lease.pin /\ l.fresh = lease.fresh /\ l.epoch = lease.epoch
  BY <1>2 DEF LeaseOK, LeaseRecord
<1> HIDE DEF l
<1>4. LeaseOK(l, op.kind, releases, owner)
  BY <1>1, <1>2, <1>3 DEF LeaseOK
<1>5. /\ LeaseOK(lease', op.kind, releases, owner)
      /\ FrozenOK(lease', owner, log, pinned)
  BY <1>1, <1>3, <1>4, RollingBackOK
<1> QED BY <1>1, <1>5 DEF CInv, dvars, ctl

\* While a release is under way nothing else is.
LEMMA Releasing ==
  ASSUME CInv, lease.phase \in {"HELD", "RELEASE_REQUIRED", "RELEASING"}
  PROVE  /\ op.kind = "none" /\ lease.pc = "none"
         /\ lease \in LeaseRecord /\ releases \subseteq ReleaseRecord
         /\ lease.fresh = (lease.epoch # 0) /\ lease.pin <= owner
BY DEF CInv, LeaseOK

\* A step of a release: the lease keeps its fence and its pin.
LEMMA ReleaseKeeps ==
  ASSUME NEW o, NEW k, k = "none", NEW l \in LeaseRecord, NEW m \in LeaseRecord,
         NEW rs \in SUBSET ReleaseRecord,
         m.phase \in {"RELEASING", "RELEASE_REQUIRED"}, m.pc = "none",
         m.fresh = (m.epoch # 0), m.pin = l.pin, l.pin <= o
  PROVE  /\ LeaseOK(m, k, rs, o)
         /\ \A h, g, ps : FrozenOK(m, h, g, ps)
BY DEF LeaseOK, FrozenOK

LEMMA ReleaseBeginsOK == ASSUME CInv, ReleaseBegins PROVE CInv'
<1> DEFINE t == [attempt |-> lease.attempt + 1, epoch |-> lease.epoch,
                 fresh |-> lease.fresh, session |-> lease.session,
                 pc |-> IF lease.fresh THEN "await"
                        ELSE IF lease.phase = "RELEASE_REQUIRED" THEN "reopen"
                        ELSE "unpin"]
<1>1. /\ lease.phase \in {"HELD", "RELEASE_REQUIRED"}
      /\ lease' = [lease EXCEPT !.phase = "RELEASING",
                                !.attempt = lease.attempt + 1]
      /\ releases' = releases \cup {t}
      /\ UNCHANGED <<dvars, ctl, op, opening, stuck, bridge, guest>>
  BY DEF ReleaseBegins
<1>2. /\ op.kind = "none" /\ lease.pc = "none"
      /\ lease \in LeaseRecord /\ releases \subseteq ReleaseRecord
      /\ lease.fresh = (lease.epoch # 0) /\ lease.pin <= owner
  BY <1>1, Releasing
<1>3. lease.attempt + 1 \in Nat
  BY <1>2 DEF LeaseRecord
<1>4. t \in ReleaseRecord
  BY <1>2, <1>3 DEF LeaseRecord, ReleaseRecord
<1>5. /\ lease' \in LeaseRecord /\ lease'.phase = "RELEASING"
      /\ lease'.pc = "none" /\ lease'.pin = lease.pin
      /\ lease'.fresh = lease.fresh /\ lease'.epoch = lease.epoch
  BY <1>1, <1>2, <1>3 DEF LeaseRecord
<1> HIDE DEF t
<1>6. releases' \in SUBSET ReleaseRecord
  BY <1>1, <1>2, <1>4
<1>7. /\ LeaseOK(lease', op.kind, releases', owner)
      /\ FrozenOK(lease', owner, log, pinned)
  BY <1>2, <1>5, <1>6, ReleaseKeeps
<1> QED BY <1>1, <1>7 DEF CInv, dvars, ctl

\* An attempt stands for a lease that is to be released.
LEMMA AttemptOK ==
  ASSUME CInv, NEW t \in releases
  PROVE  /\ lease.phase \in {"RELEASING", "RELEASE_REQUIRED"}
         /\ op.kind = "none" /\ lease.pc = "none"
         /\ lease \in LeaseRecord /\ releases \subseteq ReleaseRecord
         /\ lease.fresh = (lease.epoch # 0) /\ lease.pin <= owner
BY DEF CInv, LeaseOK

\* A release that fails.
LEMMA ReleaseThrowsOK ==
  ASSUME CInv, NEW t \in releases, ReleaseThrows(t)
  PROVE  /\ \A o : lease.pin <= o => LeaseOK(lease', op.kind, releases', o)
         /\ \A o, g, ps : FrozenOK(lease', o, g, ps)
<1>1. /\ lease.phase \in {"RELEASING", "RELEASE_REQUIRED"}
      /\ op.kind = "none" /\ lease.pc = "none"
      /\ lease \in LeaseRecord /\ releases \subseteq ReleaseRecord
      /\ lease.fresh = (lease.epoch # 0)
  BY AttemptOK
<1>2. releases' \in SUBSET ReleaseRecord
  BY <1>1 DEF ReleaseThrows
<1>3. /\ lease' \in LeaseRecord
      /\ lease'.phase \in {"RELEASING", "RELEASE_REQUIRED"}
      /\ lease'.pc = "none" /\ lease'.pin = lease.pin
      /\ lease'.fresh = lease.fresh /\ lease'.epoch = lease.epoch
  <2>1. CASE lease' = lease
    BY <1>1, <2>1
  <2>2. CASE lease' = [lease EXCEPT !.phase = "RELEASE_REQUIRED"]
    BY <1>1, <2>2 DEF LeaseRecord
  <2> QED BY <2>1, <2>2 DEF ReleaseThrows
<1>4. ASSUME NEW o, lease.pin <= o
      PROVE  /\ LeaseOK(lease', op.kind, releases', o)
             /\ \A h, g, ps : FrozenOK(lease', h, g, ps)
  BY <1>1, <1>2, <1>3, <1>4, ReleaseKeeps
<1>5. \A h, g, ps : FrozenOK(lease', h, g, ps)
  BY <1>3, Unfrozen
<1> QED BY <1>4, <1>5

\* A release that goes on.
LEMMA ReleaseMovesOK ==
  ASSUME CInv, NEW t \in releases, NEW u \in ReleaseRecord, ReleaseMoves(t, u),
         NEW s \in {0} \cup Sessions, lease' = [lease EXCEPT !.session = s]
  PROVE  /\ \A o : lease.pin <= o => LeaseOK(lease', op.kind, releases', o)
         /\ \A o, g, ps : FrozenOK(lease', o, g, ps)
<1>1. /\ lease.phase \in {"RELEASING", "RELEASE_REQUIRED"}
      /\ op.kind = "none" /\ lease.pc = "none"
      /\ lease \in LeaseRecord /\ releases \subseteq ReleaseRecord
      /\ lease.fresh = (lease.epoch # 0)
  BY AttemptOK
<1>2. releases' \in SUBSET ReleaseRecord
  BY <1>1 DEF ReleaseMoves
<1>3. /\ lease' \in LeaseRecord /\ lease'.phase = lease.phase
      /\ lease'.pc = "none" /\ lease'.pin = lease.pin
      /\ lease'.fresh = lease.fresh /\ lease'.epoch = lease.epoch
  BY <1>1 DEF LeaseRecord
<1>4. ASSUME NEW o, lease.pin <= o PROVE LeaseOK(lease', op.kind, releases', o)
  <2>1. lease'.phase \in {"RELEASING", "RELEASE_REQUIRED"}
        /\ lease'.fresh = (lease'.epoch # 0)
    BY <1>1, <1>3
  <2> QED BY <1>1, <1>2, <1>3, <1>4, <2>1, ReleaseKeeps
<1>5. \A h, g, ps : FrozenOK(lease', h, g, ps)
  BY <1>1, <1>3, Unfrozen
<1> QED BY <1>4, <1>5

LEMMA ReleaseAwaitsOK ==
  ASSUME CInv, NEW t \in releases, ReleaseAwaits(t) PROVE CInv'
<1>1. UNCHANGED <<dvars, ctl, op, opening, stuck, bridge, guest>>
  BY DEF ReleaseAwaits
<1>2. /\ t \in ReleaseRecord /\ lease \in LeaseRecord /\ lease.pin <= owner
  BY AttemptOK
<1>3. CASE ReleaseThrows(t)
  BY <1>1, <1>2, <1>3, ReleaseThrowsOK DEF CInv, dvars, ctl
<1>4. CASE ReleaseMoves(t, [t EXCEPT !.pc = "reopen"]) /\ UNCHANGED lease
  <2> DEFINE u == [t EXCEPT !.pc = "reopen"]
  <2>1. u \in ReleaseRecord
    BY <1>2 DEF ReleaseRecord
  <2>2. lease.session \in {0} \cup Sessions
        /\ lease' = [lease EXCEPT !.session = lease.session]
    BY <1>2, <1>4 DEF LeaseRecord
  <2> HIDE DEF u
  <2>3. ReleaseMoves(t, u)
    BY <1>4 DEF u
  <2>4. /\ LeaseOK(lease', op.kind, releases', owner)
        /\ FrozenOK(lease', owner, log, pinned)
    BY <1>2, <2>1, <2>2, <2>3, ReleaseMovesOK
  <2> QED BY <1>1, <2>4 DEF CInv, dvars, ctl
<1> QED BY <1>3, <1>4 DEF ReleaseAwaits

LEMMA ReleaseReopensOK ==
  ASSUME CInv, NEW t \in releases, ReleaseReopens(t) PROVE CInv'
<1>1. UNCHANGED <<marker, markerFailed, flights, op, opening, stuck, bridge,
                  guest>>
  BY DEF ReleaseReopens
<1>2. /\ t \in ReleaseRecord /\ lease \in LeaseRecord /\ lease.pin <= owner
  BY AttemptOK
<1>3. owner \in Nat /\ lease.pin <= owner + 1
  <2>1. owner \in Nat
    BY StoreAssumption DEF CInv, StoreOK
  <2>2. lease.pin \in {0} \cup Sessions /\ {0} \cup Sessions \subseteq Nat
    BY <1>2, StoreAssumption DEF LeaseRecord
  <2>3. lease.pin \in Nat
    BY <2>2, Zenon
  <2> QED BY <1>2, <2>1, <2>3
<1>4. CASE /\ Reopened(FALSE) /\ state' = IF t.fresh THEN state ELSE "CLEAN"
           /\ lease' = [lease EXCEPT !.session = owner + 1]
           /\ ReleaseMoves(t, [t EXCEPT !.pc = "unpin", !.session = owner + 1])
  <2> DEFINE u == [t EXCEPT !.pc = "unpin", !.session = owner + 1]
  <2>1. /\ owner + 1 \in Sessions
        /\ StoreOK(log', owner', pinned', readable')
        /\ log' = log /\ readable' = readable /\ owner' = owner + 1
        /\ disk' \in DiskRecord /\ disk'.session <= owner'
        /\ live' \subseteq Sessions
    BY <1>4, ReopenedOK DEF Reopened
  <2>2. u \in ReleaseRecord
    BY <1>2, <2>1 DEF ReleaseRecord
  <2> HIDE DEF u
  <2>3. ReleaseMoves(t, u)
    BY <1>4 DEF u
  <2>4. /\ LeaseOK(lease', op.kind, releases', owner')
        /\ FrozenOK(lease', owner', log', pinned')
    BY <1>3, <1>4, <2>1, <2>2, <2>3, ReleaseMovesOK
  <2>5. CtlOK(state', disk', live', marker', markerFailed', owner')
    BY <1>1, <1>4, <2>1 DEF CInv, CtlOK
  <2> QED BY <1>1, <2>1, <2>4, <2>5 DEF CInv
<1>5. CASE /\ owner + 1 \in Sessions /\ TakeOver(owner + 1)
           /\ ReleaseThrows(t) /\ UNCHANGED <<state, disk, live>>
  <2>1. /\ LeaseOK(lease', op.kind, releases', owner + 1)
        /\ \A o, g, ps : FrozenOK(lease', o, g, ps)
    BY <1>3, <1>5, ReleaseThrowsOK
  <2> QED BY <1>1, <1>5, <2>1, TakeOverOK DEF CInv
<1>6. CASE ReleaseThrows(t) /\ UNCHANGED <<dvars, state, disk, live>>
  BY <1>1, <1>2, <1>6, ReleaseThrowsOK DEF CInv, dvars
<1> QED BY <1>4, <1>5, <1>6 DEF ReleaseReopens

LEMMA ReleaseUnpinsOK ==
  ASSUME CInv, NEW t \in releases, ReleaseUnpins(t) PROVE CInv'
<1>1. UNCHANGED <<disk, live, flights, op, opening, stuck, bridge, guest>>
  BY DEF ReleaseUnpins
<1>2. lease.pin <= owner /\ op.kind = "none"
  BY AttemptOK
<1>3. Unpin({ReviewPin}) \/ UNCHANGED dvars
  BY DEF ReleaseUnpins
<1>4. UNCHANGED <<log, owner, readable>>
      /\ StoreOK(log, owner, pinned', readable)
  BY <1>3, UnpinOK DEF CInv, dvars
<1>5. CASE ReleaseThrows(t) /\ UNCHANGED <<state, marker, markerFailed>>
  <2>1. /\ LeaseOK(lease', op.kind, releases', owner)
        /\ FrozenOK(lease', owner, log, pinned')
    BY <1>2, <1>5, ReleaseThrowsOK
  <2> QED BY <1>1, <1>4, <1>5, <2>1 DEF CInv
<1>6. CASE /\ lease' = NoLease /\ releases' = {}
           /\ IF t.fresh /\ state = "IN_DOUBT"
              THEN Cleared(t.epoch) /\ state' = "CLEAN"
              ELSE UNCHANGED <<state, marker, markerFailed>>
  <2>1. /\ LeaseOK(lease', op.kind, releases', owner)
        /\ FrozenOK(lease', owner, log, pinned')
    BY <1>2, <1>6, NoLeaseOK, Unfrozen, Constants
  <2>2. /\ state' \in {state, "CLEAN"} /\ marker' \in {0, marker}
        /\ markerFailed' \in {FALSE, markerFailed}
    BY <1>6 DEF Cleared
  <2>3. 0 \in 0..MaxFlights
    BY FlightsAssumption
  <2>4. CtlOK(state', disk', live', marker', markerFailed', owner)
    BY <1>1, <2>2, <2>3 DEF CInv, CtlOK
  <2> QED BY <1>1, <1>4, <2>1, <2>4 DEF CInv
<1> QED BY <1>5, <1>6 DEF ReleaseUnpins

-----------------------------------------------------------------------------
\* The invariant holds initially and is kept by every step

LEMMA InitOK == ASSUME CInit PROVE CInv
<1> DEFINE e == [generation |-> 0, root |-> EmptyRoot]
<1>1. /\ log = <<e>> /\ owner = 1 /\ pinned = {} /\ readable = {EmptyRoot}
      /\ state = "CLEAN" /\ disk = [session |-> 1, readOnly |-> FALSE]
      /\ live = {1} /\ marker = 0 /\ markerFailed = FALSE
      /\ flights = [f \in 1..MaxFlights |-> "unused"]
      /\ op = NoOp /\ opening = FALSE /\ lease = NoLease /\ releases = {}
      /\ stuck = FALSE /\ bridge = NoService /\ guest = NewWorker(0)
  BY DEF CInit, DInit
<1>2. StoreOK(log, owner, pinned, readable)
  <2>1. e \in Entry /\ e.root = EmptyRoot /\ EmptyRoot \in Roots
    BY StoreAssumption DEF Entry
  <2> HIDE DEF e
  <2>2. log \in Seq(Entry) /\ Len(log) = 1 /\ log[1] = e
    BY <1>1, <2>1
  <2>3. RootsIn(log) \subseteq {EmptyRoot} /\ log # <<>>
    BY <2>1, <2>2 DEF RootsIn
  <2> QED BY <1>1, <2>1, <2>2, <2>3, StoreAssumption DEF StoreOK
<1>3. FlightsOK(flights)
  <2>1. 0 \in 0..MaxFlights
    BY FlightsAssumption
  <2>2. \A f \in 1..MaxFlights : flights[f] = "unused" /\ f > 0
    BY <1>1
  <2>3. flights \in [1..MaxFlights -> {"unused", "pending", "ok", "failed"}]
    BY <1>1
  <2> QED BY <2>1, <2>2, <2>3 DEF FlightsOK
<1>4. CtlOK(state, disk, live, marker, markerFailed, owner)
  <2>1. disk \in DiskRecord /\ disk.session <= owner
    BY <1>1, StoreAssumption DEF DiskRecord
  <2>2. marker \in 0..MaxFlights
    BY <1>1, FlightsAssumption
  <2> QED BY <1>1, <2>1, <2>2, StoreAssumption DEF CtlOK
<1>5. OpOK(op, bridge, log, readable)
  BY <1>1, Constants DEF OpOK
<1>6. GuestOK(guest, op, log)
  <2>1. 0 \in 0..MaxFlights
    BY FlightsAssumption
  <2>2. NewWorker(0) \in GuestRecord /\ NewWorker(0).acked = {}
    BY <2>1, Constants DEF NewWorker, GuestRecord
  <2> QED BY <1>1, <2>2 DEF GuestOK
<1>7. LeaseOK(lease, op.kind, releases, owner)
  BY <1>1, FreeLeaseOK
<1>8. FrozenOK(lease, owner, log, pinned)
  BY <1>1, Constants, Unfrozen
<1> QED BY <1>1, <1>2, <1>3, <1>4, <1>5, <1>6, <1>7, <1>8 DEF CInv

LEMMA StepOK == ASSUME CInv, [CNext]_cvars PROVE CInv'
<1>1. CASE UNCHANGED cvars
  BY <1>1 DEF cvars, dvars, ctl, CInv
<1>2. CASE BridgeResumes
  BY <1>2, BridgeResumesOK
<1>3. CASE Environment
  <2>1. CASE RivalTakesOver
    BY <2>1, RivalTakesOverOK
  <2>2. CASE \E q \in Requests : GuestIssues(q)
    BY <2>2, GuestIssuesOK
  <2>3. CASE \E k \in HostCalls : HostBegins(k)
    BY <2>3, HostBeginsOK
  <2>4. CASE HostOpens \/ HostRecovers \/ HostCloses
    BY <2>4, HostOpensOK, HostRecoversOK, HostClosesOK
  <2>5. CASE AcquireBegins \/ AcquireResumes \/ ReleaseBegins
    BY <2>5, AcquireBeginsOK, AcquireResumesOK, ReleaseBeginsOK
  <2> QED BY <1>3, <2>1, <2>2, <2>3, <2>4, <2>5 DEF Environment
<1>4. CASE Replacement
  BY <1>4, WorkerReplacedOK, ReplacementFailsOK DEF Replacement
<1>5. CASE BridgeStep
  BY <1>5, BridgeTakesOK, BridgeReadsOK, BridgeWritesOK, BridgeAnswersOK,
     BridgeCompletesWriteOK DEF BridgeStep
<1>6. CASE OpStep
  BY <1>6, OpGrantsOK, OpPlansOK, OpStagesOK, OpCommitsOK, OpClosesOK,
     OpCollectsOK, OpReopensOK, RecoverSettlesOK DEF OpStep
<1>7. CASE OpenSettles
  BY <1>7, OpenSettlesOK
<1>8. CASE AcquireStep
  BY <1>8, AcquireChecksOK, AcquirePinsOK, AcquireRechecksOK,
     RollbackAwaitsOK, RollbackReopensOK, RollbackUnpinsOK DEF AcquireStep
<1>9. CASE \E t \in releases : ReleaseStep(t)
  BY <1>9, ReleaseAwaitsOK, ReleaseReopensOK, ReleaseUnpinsOK DEF ReleaseStep
<1> QED BY <1>1, <1>2, <1>3, <1>4, <1>5, <1>6, <1>7, <1>8, <1>9 DEF CNext

\* In every reachable state the controller, the bridge, the guest, the lease and
\* its releases agree: the roots of the history are readable, a running call
\* publishes what the guest asked for, and no lease is held under it.
THEOREM Invariance == CSpec => []CInv
<1>1. CInit => CInv
  BY InitOK
<1>2. CInv /\ [CNext]_cvars => CInv'
  BY StepOK
<1> QED BY <1>1, <1>2, PTL DEF CSpec

\* Every variable keeps its type, whatever the store, the guest, the network
\* and the other tabs do.
THEOREM TypeCorrect == CSpec => []CTypeOK
<1>1. CInv => CTypeOK
  <2> SUFFICES ASSUME CInv PROVE CTypeOK
    OBVIOUS
  <2>1. /\ state \in {"CLEAN", "IN_DOUBT", "RECOVERY_REQUIRED"}
        /\ disk \in [session : {0} \cup Sessions, readOnly : BOOLEAN]
        /\ live \subseteq Sessions /\ owner \in Sessions
        /\ marker \in 0..MaxFlights /\ markerFailed \in BOOLEAN
        /\ flights \in [1..MaxFlights -> {"unused", "pending", "ok", "failed"}]
        /\ pinned \subseteq Pins /\ readable \subseteq Roots
        /\ opening \in BOOLEAN
    BY DEF CInv, CtlOK, StoreOK, FlightsOK, DiskRecord
  <2>2. op.kind \in {"none", "write", "mutate", "collect", "recover"}
    BY DEF CInv, OpOK, OpRecord
  <2>3. /\ lease.session \in {0} \cup Sessions /\ lease.epoch \in 0..MaxFlights
        /\ lease.fresh <=> lease.epoch # 0
    BY DEF CInv, LeaseOK, LeaseRecord
  <2>4. guest.acked \subseteq Roots
    BY DEF CInv, GuestOK, GuestRecord
  <2> QED BY <2>1, <2>2, <2>3, <2>4 DEF CTypeOK
<1> QED BY <1>1, Invariance, PTL

\* No write that the running guest was told is done is silently lost: it is in
\* the published history, or the call that publishes it still runs, or its
\* loss was reported to the controller.
THEOREM AckedPublished == CSpec => []AckedIsPublished
<1>1. CInv => AckedIsPublished
  BY DEF CInv, GuestOK, AckedIsPublished
<1> QED BY <1>1, Invariance, PTL

\* While a review lease is held in its own session, the reviewed closure is
\* the active one and its root is pinned.
THEOREM ReviewStaysFrozen == CSpec => []ReviewFrozen
<1>1. CInv => ReviewFrozen
  BY DEF CInv, FrozenOK, ReviewFrozen, ReviewPin
<1> QED BY <1>1, Invariance, PTL

-----------------------------------------------------------------------------
\* One replacement for one loss

NonePending == \A f \in 1..MaxFlights : flights[f] # "pending"

\* A bridge that does not wait, or whose flight has settled, leaves none pending.
LEMMA Settled ==
  ASSUME RInv, bridge.pc # "wait" \/ ContinuationDue
  PROVE  NonePending
BY DEF RInv, ReplacedOK, NonePending, ContinuationDue

\* A bridge that stops waiting.
LEMMA StopsWaiting ==
  ASSUME RInv, NonePending, NEW b, b.pc # "wait", NEW g
  PROVE  ReplacedOK(b, flights, marker, markerFailed, g)
BY DEF RInv, ReplacedOK, NonePending

LEMMA ReportReplaces ==
  ASSUME RInv, NonePending, NEW b \in ServiceRecord, NEW g \in GuestRecord,
         Report(b, g)
  PROVE  ReplacedOK(bridge', flights', marker', markerFailed', guest')
<1>1. FlightsOK(flights) /\ marker \in 0..MaxFlights
      /\ (marker # 0 => (markerFailed <=> flights[marker] = "failed"))
  BY DEF RInv, ReplacedOK, CInv, CtlOK
<1>2. CASE Joins /\ bridge' = [b EXCEPT !.pc = "wait", !.flight = marker]
           /\ UNCHANGED <<ctl, lease>>
  <2>1. bridge'.pc = "wait" /\ bridge'.flight = marker /\ bridge'.from = b.from
    BY <1>2 DEF ServiceRecord
  <2>2. marker # 0 /\ ~markerFailed
        /\ UNCHANGED <<flights, marker, markerFailed>>
    BY <1>2 DEF Joins, ctl
  <2> QED BY <1>1, <2>1, <2>2 DEF ReplacedOK, NonePending
<1>3. CASE /\ NextFlight <= MaxFlights
           /\ marker' = NextFlight /\ markerFailed' = FALSE
           /\ flights' = [flights EXCEPT ![NextFlight] = "pending"]
           /\ bridge' = [b EXCEPT !.pc = "wait", !.flight = NextFlight]
           /\ guest' = [g EXCEPT !.up = FALSE, !.request = NoRequest,
                                 !.acked = {}]
  <2>1. NextFlight \in 1..MaxFlights
    BY <1>1, <1>3, NextFlightUnused
  <2>2. bridge'.pc = "wait" /\ bridge'.flight = NextFlight
    BY <1>3 DEF ServiceRecord
  <2>3. ~guest'.up
    BY <1>3 DEF GuestRecord
  <2>4. /\ flights'[NextFlight] = "pending"
        /\ \A f \in 1..MaxFlights : flights'[f] = "pending" => f = NextFlight
    BY <1>1, <1>3, <2>1 DEF FlightsOK, NonePending
  <2> QED BY <1>3, <2>1, <2>2, <2>3, <2>4 DEF ReplacedOK
<1> QED BY <1>2, <1>3 DEF Report

LEMMA ReplacementReplaces ==
  ASSUME RInv, Replacement
  PROVE  ReplacedOK(bridge', flights', marker', markerFailed', guest')
<1>1. PICK f \in 1..MaxFlights : WorkerReplaced(f) \/ ReplacementFails(f)
  BY DEF Replacement
<1>2. /\ flights[f] = "pending" /\ UNCHANGED <<bridge, marker>>
      /\ flights \in [1..MaxFlights -> {"unused", "pending", "ok", "failed"}]
  BY <1>1 DEF WorkerReplaced, ReplacementFails, RInv, CInv, FlightsOK
<1>3. /\ bridge.pc = "wait" /\ bridge.flight = f /\ marker \in {0, f}
      /\ ~guest.up
      /\ \A h \in 1..MaxFlights : flights[h] = "pending" => h = f
      /\ marker # 0 => (markerFailed <=> flights[marker] = "failed")
      /\ bridge.from = "op" => marker = f
  BY <1>2 DEF RInv, ReplacedOK
<1>4. CASE WorkerReplaced(f)
  <2>1. flights' = [flights EXCEPT ![f] = "ok"] /\ UNCHANGED markerFailed
    BY <1>4 DEF WorkerReplaced
  <2>2. flights'[f] = "ok"
        /\ \A h \in 1..MaxFlights : flights'[h] # "pending"
    BY <1>2, <1>3, <2>1
  <2> QED BY <1>2, <1>3, <2>1, <2>2 DEF ReplacedOK
<1>5. CASE ReplacementFails(f)
  <2>1. flights' = [flights EXCEPT ![f] = "failed"] /\ markerFailed' = TRUE
        /\ UNCHANGED guest
    BY <1>5 DEF ReplacementFails
  <2>2. flights'[f] = "failed"
        /\ \A h \in 1..MaxFlights : flights'[h] # "pending"
    BY <1>2, <1>3, <2>1
  <2> QED BY <1>2, <1>3, <2>1, <2>2 DEF ReplacedOK
<1> QED BY <1>1, <1>4, <1>5

\* What a step does to the guest that runs: it learns of writes whose tree is
\* stored, and it is taken down only under suspicion.
GuestServed == /\ guest'.acked \ guest.acked \subseteq readable
               /\ guest.up /\ ~guest'.up => guest'.suspect

\* Of a report the guest learns nothing, and keeps its suspicion.
LEMMA ReportServes ==
  ASSUME NEW b, NEW g \in GuestRecord, Report(b, g)
  PROVE  guest'.acked \subseteq g.acked /\ guest'.suspect = g.suspect
         /\ (Joins => guest' = g)
BY DEF Report, GuestRecord

\* A first report: what the lost completion brought, and the suspicion.
LEMMA FirstReportServes ==
  ASSUME RInv, bridge.pc # "wait", NEW ok \in BOOLEAN,
         ok => bridge.request.root \in readable,
         NEW g, g \in GuestsAfterLoss(ok) \/ g = guest,
         NEW b \in ServiceRecord, Report(b, Suspected(g))
  PROVE  /\ ReplacedOK(bridge', flights', marker', markerFailed', guest')
         /\ GuestServed
<1>1. CInv /\ guest \in GuestRecord
  BY DEF RInv, CInv, GuestOK
<1>2. g \in GuestRecord /\ g.acked \ guest.acked \subseteq readable
  BY <1>1, ConsumedOK DEF GuestsAfterLoss
<1>3. /\ Suspected(g) \in GuestRecord /\ Suspected(g).suspect
      /\ Suspected(g).acked = g.acked
  BY <1>2 DEF Suspected, GuestRecord
<1>4. guest'.acked \subseteq g.acked /\ guest'.suspect
  BY <1>3, ReportServes
<1>5. NonePending
  BY Settled
<1>6. ReplacedOK(bridge', flights', marker', markerFailed', guest')
  BY <1>3, <1>5, ReportReplaces
<1> QED BY <1>2, <1>4, <1>6 DEF GuestServed

\* Most steps concern neither the bridge nor the guest nor the replacements.
LEMMA Elsewhere ==
  ASSUME RInv, UNCHANGED <<bridge, flights, marker, markerFailed, guest>>
  PROVE  /\ ReplacedOK(bridge', flights', marker', markerFailed', guest')
         /\ GuestServed
BY DEF RInv, GuestServed

\* Others end the bridge's service without a loss.
LEMMA ServiceEnds ==
  ASSUME RInv, bridge.pc # "wait" \/ ContinuationDue, bridge'.pc # "wait",
         UNCHANGED <<flights, marker, markerFailed, guest>>
  PROVE  /\ ReplacedOK(bridge', flights', marker', markerFailed', guest')
         /\ GuestServed
<1>1. NonePending
  BY Settled
<1> QED BY <1>1, StopsWaiting DEF GuestServed

LEMMA BridgeStepServes ==
  ASSUME RInv, BridgeStep
  PROVE  /\ ReplacedOK(bridge', flights', marker', markerFailed', guest')
         /\ GuestServed
<1>1. CInv /\ bridge \in ServiceRecord /\ guest \in GuestRecord
  BY DEF RInv, CInv, OpOK, GuestOK
<1>2. CASE BridgeTakes \/ BridgeReads \/ BridgeWrites
  <2>1. bridge.pc # "wait" /\ UNCHANGED <<flights, marker, markerFailed, guest>>
    BY <1>2, Constants DEF BridgeTakes, BridgeReads, BridgeWrites, ctl
  <2>2. bridge'.pc # "wait"
    <3>1. CASE BridgeTakes
      <4>1. NoService \in ServiceRecord
        BY Constants
      <4> QED BY <3>1, <4>1 DEF BridgeTakes, ServiceRecord
    <3>2. CASE BridgeReads
      <4>1. bridge' = [bridge EXCEPT !.pc = "answer"] \/ bridge' = Caught(state)
        BY <3>2 DEF BridgeReads
      <4> QED BY <1>1, <4>1, CaughtOK DEF ServiceRecord
    <3>3. CASE BridgeWrites
      <4>1. bridge' = [bridge EXCEPT !.pc = "op"] \/ bridge' = Caught(state)
        BY <3>3 DEF BridgeWrites
      <4> QED BY <1>1, <4>1, CaughtOK DEF ServiceRecord
    <3> QED BY <1>2, <3>1, <3>2, <3>3
  <2> QED BY <2>1, <2>2, ServiceEnds
<1>3. CASE BridgeAnswers
  <2>1. bridge.pc # "wait"
    BY <1>3 DEF BridgeAnswers
  <2>2. CASE guest' = Consumed(FALSE) /\ bridge' = NoService
             /\ UNCHANGED <<ctl, lease>>
    <3>1. GuestServed
      <4>1. guest'.acked \subseteq guest.acked
        BY <1>1, <2>2, ConsumedOK
      <4>2. guest'.up = guest.up
        BY <1>1, <2>2 DEF Consumed, GuestRecord
      <4> QED BY <4>1, <4>2 DEF GuestServed
    <3>2. ReplacedOK(bridge', flights', marker', markerFailed', guest')
      BY <2>1, <2>2, Settled, StopsWaiting, Constants DEF ctl
    <3> QED BY <3>1, <3>2
  <2>3. CASE /\ bridge' = IF bridge.pc = "answer" THEN Caught(state)
                                                  ELSE NoService
             /\ UNCHANGED <<ctl, lease, guest>>
    <3>1. bridge'.pc # "wait"
      BY <1>1, <2>3, CaughtOK, Constants
    <3> QED BY <2>1, <2>3, <3>1, ServiceEnds DEF ctl
  <2>4. ASSUME NEW g \in GuestsAfterLoss(FALSE),
               Report([bridge EXCEPT !.from = bridge.pc], Suspected(g))
        PROVE  /\ ReplacedOK(bridge', flights', marker', markerFailed', guest')
               /\ GuestServed
    <3> DEFINE b == [bridge EXCEPT !.from = bridge.pc]
    <3>1. b \in ServiceRecord
      BY <1>1, <1>3 DEF ServiceRecord, BridgeAnswers
    <3>2. Report(b, Suspected(g))
      BY <2>4
    <3> HIDE DEF b
    <3> QED BY <2>1, <3>1, <3>2, FirstReportServes
  <2> QED BY <1>3, <2>2, <2>3, <2>4 DEF BridgeAnswers
<1>4. CASE BridgeCompletesWrite
  <2>1. bridge.pc # "wait" /\ bridge.request.root \in readable
    BY <1>1, <1>4, CompletesWrite
  <2>2. CASE guest' = Consumed(TRUE) /\ bridge' = [bridge EXCEPT !.done = TRUE]
             /\ UNCHANGED <<ctl, lease>>
    <3>1. GuestServed
      <4>1. guest'.acked \subseteq guest.acked \cup {bridge.request.root}
        BY <1>1, <2>2, ConsumedOK
      <4>2. guest'.up = guest.up
        BY <1>1, <2>2 DEF Consumed, GuestRecord
      <4> QED BY <2>1, <4>1, <4>2 DEF GuestServed
    <3>2. bridge'.pc # "wait"
      BY <1>1, <2>1, <2>2 DEF ServiceRecord
    <3>3. ReplacedOK(bridge', flights', marker', markerFailed', guest')
      BY <2>1, <2>2, <3>2, Settled, StopsWaiting DEF ctl
    <3> QED BY <3>1, <3>3
  <2>3. ASSUME NEW c \in ServiceRecord, NEW g,
               g \in GuestsAfterLoss(TRUE) \/ g = guest, FailsAfterGuest(c, g)
        PROVE  /\ ReplacedOK(bridge', flights', marker', markerFailed', guest')
               /\ GuestServed
    <3> DEFINE b == [c EXCEPT !.from = "op"]
    <3>1. b \in ServiceRecord
      BY DEF ServiceRecord
    <3>2. Report(b, Suspected(g))
      BY <2>3 DEF FailsAfterGuest
    <3> HIDE DEF b
    <3> QED BY <2>1, <2>3, <3>1, <3>2, FirstReportServes
  <2>4. [bridge EXCEPT !.last = TRUE] \in ServiceRecord
    BY <1>1 DEF ServiceRecord
  <2> QED BY <1>1, <1>4, <2>2, <2>3, <2>4 DEF BridgeCompletesWrite
<1> QED BY <1>2, <1>3, <1>4 DEF BridgeStep

\* The second report of a loss joins the flight of the first, unless that
\* failed and no guest runs.
LEMMA BridgeResumesServes ==
  ASSUME RInv, BridgeResumes
  PROVE  /\ ReplacedOK(bridge', flights', marker', markerFailed', guest')
         /\ GuestServed
<1>1. /\ CInv /\ bridge \in ServiceRecord /\ guest \in GuestRecord
      /\ ContinuationDue /\ bridge.pc = "wait"
      /\ ReplacedOK(bridge, flights, marker, markerFailed, guest)
  BY DEF RInv, CInv, OpOK, GuestOK, BridgeResumes, ContinuationDue
<1>2. CASE bridge.from = "op" /\ Report([bridge EXCEPT !.last = TRUE], guest)
  <2> DEFINE b == [bridge EXCEPT !.last = TRUE]
  <2>1. b \in ServiceRecord
    BY <1>1 DEF ServiceRecord
  <2>2. Report(b, guest)
    BY <1>2
  <2> HIDE DEF b
  <2>3. ReplacedOK(bridge', flights', marker', markerFailed', guest')
    BY <1>1, <2>1, <2>2, Settled, ReportReplaces
  <2>4. ~Superseding
    <3>1. op.kind = "write"
      BY <1>1, <1>2 DEF CInv, OpOK
    <3> QED BY <1>1, <3>1, BusyLease, Constants DEF Superseding
  <2>5. Joins \/ ~guest.up
    BY <1>1, <1>2, <2>4 DEF Joins, ReplacedOK
  <2>6. GuestServed
    BY <1>1, <2>2, <2>5, ReportServes DEF GuestServed
  <2> QED BY <2>3, <2>6
<1>3. CASE /\ \/ bridge' = Caught(state)
              \/ bridge' = NoService
           /\ UNCHANGED <<ctl, lease, guest>>
  <2>1. bridge'.pc # "wait"
    BY <1>1, <1>3, CaughtOK, Constants
  <2> QED BY <1>1, <1>3, <2>1, ServiceEnds DEF ctl
<1> QED BY <1>2, <1>3 DEF BridgeResumes

\* A call that ends while it runs takes the bridge's service with it.
LEMMA CallEnds ==
  ASSUME RInv, op.pc # "failed",
         \/ bridge' = bridge
         \/ op.kind = "write" /\ (bridge' = NoService \/ \E st : bridge' = Caught(st)),
         UNCHANGED <<flights, marker, markerFailed, guest>>
  PROVE  /\ ReplacedOK(bridge', flights', marker', markerFailed', guest')
         /\ GuestServed
<1>1. CASE bridge' = bridge
  BY <1>1, Elsewhere
<1>2. CASE op.kind = "write" /\ (bridge' = NoService \/ \E st : bridge' = Caught(st))
  <2>1. CInv /\ bridge.pc # "wait"
    BY <1>2 DEF RInv, CInv, OpOK
  <2>2. bridge'.pc # "wait"
    BY <1>2, <2>1, CaughtOK, Constants
  <2> QED BY <2>1, <2>2, ServiceEnds
<1> QED BY <1>1, <1>2

LEMMA LateFailureServes ==
  ASSUME RInv, op.pc \in {"commit", "close"}, LateFailure
  PROVE  /\ ReplacedOK(bridge', flights', marker', markerFailed', guest')
         /\ GuestServed
<1>1. CASE op.kind = "write"
  <2>1. bridge.pc # "wait" /\ bridge \in ServiceRecord
    BY <1>1 DEF RInv, CInv, OpOK
  <2> DEFINE b == [[bridge EXCEPT !.last = TRUE] EXCEPT !.from = "op"]
  <2>2. b \in ServiceRecord
    BY <2>1 DEF ServiceRecord
  <2>3. Report(b, Suspected(guest))
    BY <1>1 DEF LateFailure, FailsAfterGuest
  <2> HIDE DEF b
  <2> QED BY <2>1, <2>2, <2>3, FirstReportServes
<1>2. CASE op.kind # "write"
  <2>1. bridge' = bridge /\ UNCHANGED <<flights, marker, markerFailed, guest>>
    BY <1>2 DEF LateFailure, Retreats, OpThrows
  <2> QED BY <2>1, Elsewhere
<1> QED BY <1>1, <1>2

LEMMA OpStepServes ==
  ASSUME RInv, OpStep
  PROVE  /\ ReplacedOK(bridge', flights', marker', markerFailed', guest')
         /\ GuestServed
<1>1. CASE OpGrants \/ OpPlans \/ OpStages \/ OpReopens
  <2>1. op.pc # "failed" /\ UNCHANGED <<flights, marker, markerFailed, guest>>
    BY <1>1 DEF OpGrants, OpPlans, OpStages, OpReopens, ctl
  <2>2. \/ bridge' = bridge
        \/ op.kind = "write" /\ \E st : bridge' = Caught(st)
    BY <1>1 DEF OpGrants, OpPlans, OpStages, OpReopens, Retreats, OpThrows
  <2> QED BY <2>1, <2>2, CallEnds
<1>2. CASE OpCommits \/ OpCloses
  <2>1. op.pc \in {"commit", "close"}
    BY <1>2 DEF OpCommits, OpCloses
  <2>2. CASE LateFailure
    BY <2>1, <2>2, LateFailureServes
  <2>3. CASE (OpSucceeds \/ bridge' = bridge)
             /\ UNCHANGED <<flights, marker, markerFailed, guest>>
    <3>1. bridge' = bridge \/ (op.kind = "write" /\ bridge' = NoService)
      BY <2>3 DEF OpSucceeds
    <3> QED BY <2>1, <2>3, <3>1, CallEnds
  <2> QED BY <1>2, <2>2, <2>3 DEF OpCommits, OpCloses, ctl
<1>3. CASE OpCollects
  BY <1>3, Elsewhere DEF OpCollects, ctl
<1>4. CASE RecoverSettles
  <2>1. op.kind # "write" /\ UNCHANGED <<bridge, flights, guest>>
        /\ \/ UNCHANGED <<marker, markerFailed>>
           \/ marker' = 0 /\ markerFailed' = FALSE
    BY <1>4 DEF RInv, CInv, OpOK, RecoverSettles, Cleared
  <2>2. bridge.pc = "wait" => bridge.from # "op"
    BY <2>1 DEF RInv, CInv, OpOK
  <2> QED BY <2>1, <2>2 DEF RInv, ReplacedOK, GuestServed
<1> QED BY <1>1, <1>2, <1>3, <1>4 DEF OpStep

LEMMA ReleaseStepServes ==
  ASSUME RInv, NEW t \in releases, ReleaseStep(t)
  PROVE  /\ ReplacedOK(bridge', flights', marker', markerFailed', guest')
         /\ GuestServed
<1>1. CASE ReleaseAwaits(t) \/ ReleaseReopens(t)
  BY <1>1, Elsewhere DEF ReleaseAwaits, ReleaseReopens, ctl
<1>2. CASE ReleaseUnpins(t)
  <2>1. UNCHANGED <<bridge, flights, guest>>
        /\ \/ UNCHANGED <<marker, markerFailed>>
           \/ marker' = 0 /\ markerFailed' = FALSE
    BY <1>2 DEF ReleaseUnpins, Cleared
  <2>2. op.kind = "none"
    BY AttemptOK DEF RInv
  <2>3. bridge.pc = "wait" => bridge.from # "op"
    BY <2>2 DEF RInv, CInv, OpOK
  <2> QED BY <2>1, <2>3 DEF RInv, ReplacedOK, GuestServed
<1> QED BY <1>1, <1>2 DEF ReleaseStep

LEMMA EnvironmentServes ==
  ASSUME RInv, Environment \/ AcquireStep \/ OpenSettles
  PROVE  /\ ReplacedOK(bridge', flights', marker', markerFailed', guest')
         /\ GuestServed
<1>1. CASE \E q \in Requests : GuestIssues(q)
  <2>1. guest'.up = guest.up /\ guest'.acked = guest.acked
        /\ UNCHANGED <<bridge, flights, marker, markerFailed>>
    BY <1>1 DEF GuestIssues, RInv, CInv, GuestOK, GuestRecord, ctl
  <2> QED BY <2>1 DEF RInv, ReplacedOK, GuestServed
<1>2. CASE AcquireStep \/ OpenSettles
  BY <1>2, Elsewhere
     DEF AcquireStep, OpenSettles, AcquireChecks, AcquirePins, AcquireRechecks,
         RollbackAwaits, RollbackReopens, RollbackUnpins, ctl
<1>3. CASE /\ Environment
           /\ ~ \E q \in Requests : GuestIssues(q)
  BY <1>3, Elsewhere
     DEF Environment, RivalTakesOver, HostBegins, HostOpens, HostRecovers,
         HostCloses, AcquireBegins, AcquireResumes, ReleaseBegins, ctl
<1> QED BY <1>1, <1>2, <1>3

LEMMA StepServes ==
  ASSUME RInv, CNext
  PROVE  /\ ReplacedOK(bridge', flights', marker', markerFailed', guest')
         /\ GuestServed
<1>1. CASE Replacement
  <2>1. ReplacedOK(bridge', flights', marker', markerFailed', guest')
    BY <1>1, ReplacementReplaces
  <2>2. GuestServed
    <3>1. PICK f \in 1..MaxFlights : WorkerReplaced(f) \/ ReplacementFails(f)
      BY <1>1 DEF Replacement
    <3> QED BY <3>1 DEF WorkerReplaced, ReplacementFails, NewWorker, GuestServed
  <2> QED BY <2>1, <2>2
<1> QED BY <1>1, BridgeResumesServes, BridgeStepServes, OpStepServes,
           EnvironmentServes, ReleaseStepServes DEF CNext

LEMMA ReplacedInvariance == CSpec => []RInv
<1>1. CInit => RInv
  <2> SUFFICES ASSUME CInit PROVE RInv
    OBVIOUS
  <2>1. bridge = NoService /\ marker = 0
        /\ flights = [f \in 1..MaxFlights |-> "unused"]
    BY DEF CInit
  <2> QED BY <2>1, InitOK, Constants DEF RInv, ReplacedOK
<1>2. RInv /\ [CNext]_cvars => RInv'
  <2> SUFFICES ASSUME RInv, [CNext]_cvars PROVE RInv'
    OBVIOUS
  <2>1. CInv'
    BY StepOK DEF RInv
  <2>2. ReplacedOK(bridge', flights', marker', markerFailed', guest')
    <3>1. CASE UNCHANGED cvars
      BY <3>1 DEF RInv, cvars, ctl
    <3> QED BY <3>1, StepServes
  <2> QED BY <2>1, <2>2 DEF RInv
<1> QED BY <1>1, <1>2, PTL DEF CSpec

\* The guest is told that a write is done only after its whole tree is stored,
\* also when the answer is lost on its way back.
THEOREM GuestToldLast == CSpec => StagedBeforeGuest
<1>1. RInv /\ [CNext]_cvars => [guest'.acked \ guest.acked \subseteq readable]_cvars
  BY StepServes DEF GuestServed
<1> QED BY <1>1, ReplacedInvariance, PTL DEF CSpec, StagedBeforeGuest

\* A guest is taken down only when a completion to that very guest was lost or
\* its publication failed: the second report of a loss joins the first one's
\* replacement and never takes down the worker that it brought up.
THEOREM OneReplacementPerLoss == CSpec => OnlySuspectsReplaced
<1>1. RInv /\ [CNext]_cvars => [guest.up /\ ~guest'.up => guest'.suspect]_cvars
  BY StepServes DEF GuestServed
<1> QED BY <1>1, ReplacedInvariance, PTL DEF CSpec, OnlySuspectsReplaced

-----------------------------------------------------------------------------
\* A lease under doubt, when the shell opens no disk during a review

DoubtKept == DoubtOK(lease', releases', state', disk', flights')

\* A lease that is not fresh, or neither held nor on the way to be, and no
\* attempt to release it.
LEMMA Undoubted ==
  ASSUME NEW l, \/ ~l.fresh
                \/ /\ l.phase \notin {"HELD", "RELEASE_REQUIRED", "RELEASING"}
                   /\ l.pc \notin {"check", "pin", "recheck"}
  PROVE  \A s, d, fl : DoubtOK(l, {}, s, d, fl)
BY DEF DoubtOK

\* A settled or new flight takes no success from another.
LEMMA FlightsKept ==
  ASSUME CInv, DInv, NEW f \in 1..MaxFlights, flights[f] # "ok", NEW x,
         flights' = [flights EXCEPT ![f] = x]
  PROVE  /\ \A g \in 1..MaxFlights : flights[g] = "ok" => flights'[g] = "ok"
         /\ \A t \in releases : t.fresh => t.epoch \in 1..MaxFlights
         /\ lease.fresh => lease.epoch \in 1..MaxFlights
<1>1. flights \in [1..MaxFlights -> {"unused", "pending", "ok", "failed"}]
  BY DEF CInv, FlightsOK
<1>2. releases \subseteq ReleaseRecord /\ lease \in LeaseRecord
      /\ (lease.fresh <=> lease.epoch # 0)
  BY DEF CInv, LeaseOK
<1>3. \A t \in releases : t.fresh = (t.epoch # 0)
  BY DEF DInv, DoubtOK
<1> QED BY <1>1, <1>2, <1>3, FlightsAssumption DEF ReleaseRecord, LeaseRecord

LEMMA ReportDoubts ==
  ASSUME CInv, DInv, NEW b, NEW g, Report(b, g), UNCHANGED releases
  PROVE  DoubtKept
<1>1. CASE UNCHANGED <<ctl, lease>>
  BY <1>1 DEF DInv, DoubtKept, ctl
<1>2. CASE /\ NextFlight <= MaxFlights /\ state' = "IN_DOUBT" /\ disk' = NoDisk
           /\ flights' = [flights EXCEPT ![NextFlight] = "pending"]
  <2>1. NextFlight \in 1..MaxFlights /\ flights[NextFlight] = "unused"
    BY <1>2, NextFlightUnused DEF CInv
  <2>2. /\ \A h \in 1..MaxFlights : flights[h] = "ok" => flights'[h] = "ok"
        /\ \A t \in releases : t.fresh => t.epoch \in 1..MaxFlights
    BY <1>2, <2>1, FlightsKept
  <2> QED BY <1>2, <2>2 DEF DInv, DoubtOK, DoubtKept
<1> QED BY <1>1, <1>2 DEF Report

LEMMA ReplacementDoubts ==
  ASSUME CInv, DInv, Replacement PROVE DoubtKept
<1>1. PICK f \in 1..MaxFlights : WorkerReplaced(f) \/ ReplacementFails(f)
  BY DEF Replacement
<1>2. flights[f] = "pending" /\ UNCHANGED <<state, disk, lease, releases>>
      /\ \E x : flights' = [flights EXCEPT ![f] = x]
  BY <1>1 DEF WorkerReplaced, ReplacementFails
<1>3. /\ \A h \in 1..MaxFlights : flights[h] = "ok" => flights'[h] = "ok"
      /\ \A t \in releases : t.fresh => t.epoch \in 1..MaxFlights
      /\ lease.fresh => lease.epoch \in 1..MaxFlights
  BY <1>2, FlightsKept
<1> QED BY <1>2, <1>3 DEF DInv, DoubtOK, DoubtKept

\* A call that holds `busy` meets no lease.
LEMMA BusyDoubts ==
  ASSUME CInv, op.kind # "none", lease' = lease, releases' = releases
  PROVE  DoubtKept
BY BusyLease, Undoubted, Constants DEF DoubtKept

LEMMA BridgeDoubts ==
  ASSUME CInv, DInv, BridgeStep \/ BridgeResumes PROVE DoubtKept
<1>1. UNCHANGED releases
  BY DEF BridgeStep, BridgeResumes, BridgeTakes, BridgeReads, BridgeWrites,
         BridgeAnswers, BridgeCompletesWrite
<1>2. UNCHANGED <<ctl, lease>> \/ \E b, g : Report(b, g)
  BY DEF BridgeStep, BridgeResumes, BridgeTakes, BridgeReads, BridgeWrites,
         BridgeAnswers, BridgeCompletesWrite, FailsAfterGuest
<1>3. CASE UNCHANGED <<ctl, lease>>
  BY <1>1, <1>3 DEF DInv, DoubtKept, ctl
<1> QED BY <1>1, <1>2, <1>3, ReportDoubts

LEMMA OpDoubts == ASSUME CInv, DInv, OpStep PROVE DoubtKept
<1>1. op.kind # "none" /\ releases' = releases
  BY DEF OpStep, OpGrants, OpPlans, OpStages, OpCommits, OpCloses, OpCollects,
         OpReopens, RecoverSettles, CInv, OpOK
<1>2. lease' = lease \/ LateFailure
  BY DEF OpStep, OpGrants, OpPlans, OpStages, OpCommits, OpCloses, OpCollects,
         OpReopens, RecoverSettles
<1>3. CASE LateFailure
  <2>1. lease' = lease \/ \E b, g : Report(b, g)
    BY <1>3 DEF LateFailure, FailsAfterGuest
  <2> QED BY <1>1, <2>1, ReportDoubts, BusyDoubts
<1> QED BY <1>1, <1>2, <1>3, BusyDoubts

LEMMA AcquireDoubts ==
  ASSUME CInv, DInv, AcquireStep \/ AcquireResumes \/ AcquireBegins
  PROVE  DoubtKept
<1>1. releases' = {}
  <2>1. releases' = releases /\ (lease.pc # "none"
          \/ lease.phase \in {"NONE", "RECOVERY_REQUIRED"})
    BY DEF AcquireStep, AcquireResumes, AcquireBegins, AcquireChecks, AcquirePins,
           AcquireRechecks, RollbackAwaits, RollbackReopens, RollbackUnpins,
           CanAcquire, LeaseFree
  <2>2. releases = {}
    BY <2>1 DEF CInv, LeaseOK
  <2> QED BY <2>1, <2>2
<1>2. lease \in LeaseRecord /\ (lease.pc # "none" =>
        lease.phase \in {"ACQUIRING", "RECOVERING"})
  BY DEF CInv, LeaseOK
<1>3. CASE \/ lease' = NoLease
           \/ lease' = Acquiring(TRUE) \/ lease' = Acquiring(FALSE)
  <2>1. ~lease'.fresh
    BY <1>3, Constants DEF Acquiring, LeaseRecord
  <2> QED BY <1>1, <2>1, Undoubted DEF DoubtKept
<1>4. CASE \E l \in LeaseRecord : /\ l.phase \in {"ACQUIRING", "RECOVERING"}
                                 /\ lease' = RollingBack(l)
  <2>1. /\ lease'.phase \in {"ACQUIRING", "RECOVERING"}
        /\ lease'.pc \in {"await", "reopen"}
    BY <1>4 DEF RollingBack, LeaseRecord
  <2> QED BY <1>1, <2>1, Undoubted DEF DoubtKept
<1>5. CASE AcquireChecks
  <2>1. CASE /\ Continuous /\ lease.pc = "check"
             /\ lease' = [lease EXCEPT !.pc = "pin", !.binding = log]
    <3>1. ~lease.fresh
      BY <2>1 DEF DInv, DoubtOK, Continuous
    <3>2. ~lease'.fresh
      BY <1>2, <2>1, <3>1 DEF LeaseRecord
    <3> QED BY <1>1, <3>2, Undoubted DEF DoubtKept
  <2> QED BY <1>3, <1>5, <2>1 DEF AcquireChecks, AcquireFails
<1>6. CASE AcquirePins
  <2>1. CASE /\ Continuous /\ lease.pc = "pin"
             /\ lease' = [lease EXCEPT !.pc = "recheck"]
    <3>1. ~lease.fresh
      BY <2>1 DEF DInv, DoubtOK, Continuous
    <3>2. ~lease'.fresh
      BY <1>2, <2>1, <3>1 DEF LeaseRecord
    <3> QED BY <1>1, <3>2, Undoubted DEF DoubtKept
  <2> QED BY <1>2, <1>3, <1>4, <1>6, <2>1 DEF AcquirePins, AcquireFails
<1>7. CASE AcquireRechecks
  <2>1. CASE /\ Continuous /\ lease.pc = "recheck"
             /\ lease' = [lease EXCEPT !.phase = "HELD", !.pc = "none",
                                       !.resumed = FALSE]
    <3>1. ~lease.fresh
      BY <2>1 DEF DInv, DoubtOK, Continuous
    <3>2. ~lease'.fresh
      BY <1>2, <2>1, <3>1 DEF LeaseRecord
    <3> QED BY <1>1, <3>2, Undoubted DEF DoubtKept
  <2> QED BY <1>2, <1>4, <1>7, <2>1 DEF AcquireRechecks
<1>8. CASE RollbackFails
  <2>1. lease'.phase = "RECOVERY_REQUIRED" /\ lease'.pc = "none"
    BY <1>2, <1>8 DEF RollbackFails, LeaseRecord
  <2> QED BY <1>1, <2>1, Undoubted DEF DoubtKept
<1>9. CASE lease.pc \in {"await", "reopen"} /\
           \/ lease' = [lease EXCEPT !.pc = "reopen"]
           \/ lease' = [lease EXCEPT !.pc = "unpin", !.session = owner + 1]
  <2>1. /\ lease'.phase \in {"ACQUIRING", "RECOVERING"}
        /\ lease'.pc \in {"reopen", "unpin"}
    BY <1>2, <1>9 DEF LeaseRecord
  <2> QED BY <1>1, <2>1, Undoubted DEF DoubtKept
<1>10. CASE RollbackAwaits \/ RollbackReopens
  BY <1>8, <1>9, <1>10 DEF RollbackAwaits, RollbackReopens
<1>11. CASE RollbackUnpins
  BY <1>3, <1>8, <1>11 DEF RollbackUnpins, AcquireFails
<1>12. CASE AcquireResumes
  <2> DEFINE l == [lease EXCEPT !.phase = "RECOVERING", !.resumed = TRUE]
  <2>1. l \in LeaseRecord /\ l.phase = "RECOVERING" /\ lease' = RollingBack(l)
    BY <1>2, <1>12 DEF AcquireResumes, LeaseRecord
  <2> HIDE DEF l
  <2> QED BY <1>4, <2>1
<1>13. CASE AcquireBegins
  BY <1>3, <1>13 DEF AcquireBegins
<1> QED BY <1>5, <1>6, <1>7, <1>10, <1>11, <1>12, <1>13 DEF AcquireStep

LEMMA ReleaseBeginsDoubts ==
  ASSUME CInv, DInv, ReleaseBegins PROVE DoubtKept
<1> DEFINE t == [attempt |-> lease.attempt + 1, epoch |-> lease.epoch,
                 fresh |-> lease.fresh, session |-> lease.session,
                 pc |-> IF lease.fresh THEN "await"
                        ELSE IF lease.phase = "RELEASE_REQUIRED" THEN "reopen"
                        ELSE "unpin"]
<1>1. /\ lease.phase \in {"HELD", "RELEASE_REQUIRED"}
      /\ lease' = [lease EXCEPT !.phase = "RELEASING",
                                !.attempt = lease.attempt + 1]
      /\ releases' = releases \cup {t}
      /\ UNCHANGED <<state, disk, flights>>
  BY DEF ReleaseBegins, ctl
<1>2. /\ lease \in LeaseRecord /\ lease.fresh = (lease.epoch # 0)
  BY <1>1, Releasing
<1>3. /\ t.fresh = (t.epoch # 0)
      /\ ~(t.fresh /\ t.pc \in {"reopen", "unpin"})
  BY <1>2
<1> HIDE DEF t
<1>4. lease'.fresh = lease.fresh /\ lease'.epoch = lease.epoch
  BY <1>1, <1>2 DEF LeaseRecord
<1> QED BY <1>1, <1>3, <1>4 DEF DInv, DoubtOK, DoubtKept

\* A failed attempt leaves the lease due for release under the same fence.
LEMMA ReleaseThrowsDoubts ==
  ASSUME CInv, DInv, NEW t \in releases, ReleaseThrows(t),
         UNCHANGED <<disk, flights>>, state' = state
  PROVE  DoubtKept
<1>1. /\ lease.phase \in {"RELEASING", "RELEASE_REQUIRED"}
      /\ lease \in LeaseRecord
  BY AttemptOK
<1>2. lease'.fresh = lease.fresh /\ lease'.epoch = lease.epoch
  BY <1>1 DEF ReleaseThrows, LeaseRecord
<1>3. releases' \subseteq releases
  BY DEF ReleaseThrows
<1> QED BY <1>1, <1>2, <1>3 DEF DInv, DoubtOK, DoubtKept

LEMMA ReleaseDoubts ==
  ASSUME CInv, DInv, NEW t \in releases, ReleaseStep(t) PROVE DoubtKept
<1>1. /\ lease.phase \in {"RELEASING", "RELEASE_REQUIRED"}
      /\ lease \in LeaseRecord /\ t \in ReleaseRecord
  BY AttemptOK
<1>2. CASE ReleaseThrows(t) /\ UNCHANGED <<state, disk, flights>>
  BY <1>2, ReleaseThrowsDoubts
<1>3. CASE ReleaseAwaits(t)
  <2>1. UNCHANGED <<state, disk, flights>>
    BY <1>3 DEF ReleaseAwaits, ctl
  <2>2. CASE flights[t.epoch] = "ok" /\ UNCHANGED lease
             /\ ReleaseMoves(t, [t EXCEPT !.pc = "reopen"])
    <3> DEFINE u == [t EXCEPT !.pc = "reopen"]
    <3>1. u.fresh = t.fresh /\ u.epoch = t.epoch /\ flights[u.epoch] = "ok"
      BY <1>1, <2>2 DEF ReleaseRecord
    <3>2. releases' = (releases \ {t}) \cup {u}
      BY <2>2 DEF ReleaseMoves
    <3> HIDE DEF u
    <3> QED BY <2>1, <2>2, <3>1, <3>2 DEF DInv, DoubtOK, DoubtKept
  <2> QED BY <1>2, <1>3, <2>1, <2>2 DEF ReleaseAwaits
<1>4. CASE ReleaseReopens(t)
  <2>1. CASE /\ t.pc = "reopen" /\ FenceHolds(t) /\ UNCHANGED flights
             /\ state' = IF t.fresh THEN state ELSE "CLEAN"
             /\ lease' = [lease EXCEPT !.session = owner + 1]
             /\ ReleaseMoves(t, [t EXCEPT !.pc = "unpin", !.session = owner + 1])
    <3> DEFINE u == [t EXCEPT !.pc = "unpin", !.session = owner + 1]
    <3>1. u.fresh = t.fresh /\ u.epoch = t.epoch
      BY <1>1 DEF ReleaseRecord
    <3>2. releases' = (releases \ {t}) \cup {u}
      BY <2>1 DEF ReleaseMoves
    <3>3. /\ lease'.fresh = lease.fresh /\ lease'.epoch = lease.epoch
          /\ lease.fresh = t.fresh /\ lease.epoch = t.epoch
      BY <1>1, <2>1 DEF LeaseRecord, FenceHolds
    <3>4. t.fresh => flights[t.epoch] = "ok" /\ state' = state
      BY <2>1 DEF DInv, DoubtOK
    <3> HIDE DEF u
    <3> QED BY <1>1, <2>1, <3>1, <3>2, <3>3, <3>4 DEF DInv, DoubtOK, DoubtKept
  <2> QED BY <1>2, <1>4, <2>1 DEF ReleaseReopens
<1>5. CASE ReleaseUnpins(t)
  <2>1. CASE lease' = NoLease /\ releases' = {}
    BY <2>1, Undoubted, Constants DEF DoubtKept
  <2> QED BY <1>2, <1>5, <2>1 DEF ReleaseUnpins
<1> QED BY <1>3, <1>4, <1>5 DEF ReleaseStep

\* The shell's calls but for open() leave no disk behind that was not there.
LEMMA EnvironmentDoubts ==
  ASSUME CInv, DInv, Environment, "open" \notin HostCalls
  PROVE  DoubtKept /\ opening' = FALSE
<1>1. opening' = FALSE
  BY DEF Environment, RivalTakesOver, GuestIssues, HostBegins, HostOpens,
         HostRecovers, HostCloses, AcquireBegins, AcquireResumes,
         ReleaseBegins, DInv
<1>2. CASE AcquireBegins \/ AcquireResumes \/ ReleaseBegins
  BY <1>1, <1>2, AcquireDoubts, ReleaseBeginsDoubts
<1>3. CASE /\ UNCHANGED <<lease, releases, state, flights>>
           /\ disk' = disk \/ disk' = NoDisk
  BY <1>1, <1>3 DEF DInv, DoubtOK, DoubtKept
<1>4. CASE RivalTakesOver \/ (\E q \in Requests : GuestIssues(q))
           \/ (\E k \in HostCalls : HostBegins(k)) \/ HostOpens
  BY <1>3, <1>4 DEF RivalTakesOver, GuestIssues, HostBegins, HostOpens, ctl
<1>5. CASE HostRecovers \/ HostCloses
  BY <1>3, <1>5 DEF HostRecovers, HostCloses
<1> QED BY <1>1, <1>2, <1>4, <1>5 DEF Environment

\* When the shell opens no disk behind a review, a lease under an ambiguous
\* completion keeps the controller in doubt, and without a handle until the
\* replacement for the last loss has succeeded.
THEOREM LeaseDoubts ==
  ASSUME "open" \notin HostCalls PROVE CSpec => []LeaseKeepsDoubt
<1>1. CInit => CInv /\ DInv
  <2> SUFFICES ASSUME CInit PROVE CInv /\ DInv
    OBVIOUS
  <2>1. lease = NoLease /\ releases = {} /\ opening = FALSE
    BY DEF CInit
  <2> QED BY <2>1, InitOK, Undoubted, Constants DEF DInv
<1>2. (CInv /\ DInv) /\ [CNext]_cvars => (CInv /\ DInv)'
  <2> SUFFICES ASSUME CInv, DInv, [CNext]_cvars PROVE CInv' /\ DInv'
    OBVIOUS
  <2>1. CInv'
    BY StepOK
  <2>2. CASE UNCHANGED cvars
    BY <2>1, <2>2 DEF DInv, cvars, ctl
  <2>3. CASE Environment
    BY <2>1, <2>3, EnvironmentDoubts DEF DInv, DoubtKept
  <2>4. CASE OpenSettles
    BY <2>4 DEF OpenSettles, DInv
  <2>5. CASE Replacement \/ BridgeStep \/ BridgeResumes \/ OpStep \/ AcquireStep
             \/ \E t \in releases : ReleaseStep(t)
    <3>1. opening' = opening
      BY <2>5 DEF Replacement, WorkerReplaced, ReplacementFails, BridgeStep,
         BridgeTakes, BridgeReads, BridgeWrites, BridgeAnswers,
         BridgeCompletesWrite, BridgeResumes, OpStep, OpGrants, OpPlans,
         OpStages, OpCommits, OpCloses, OpCollects, OpReopens, RecoverSettles,
         AcquireStep, AcquireChecks, AcquirePins, AcquireRechecks,
         RollbackAwaits, RollbackReopens, RollbackUnpins, ReleaseStep,
         ReleaseAwaits, ReleaseReopens, ReleaseUnpins
    <3>2. DoubtKept
      BY <2>5, ReplacementDoubts, BridgeDoubts, OpDoubts, AcquireDoubts,
         ReleaseDoubts
    <3> QED BY <2>1, <3>1, <3>2 DEF DInv, DoubtKept
  <2> QED BY <2>1, <2>2, <2>3, <2>4, <2>5 DEF CNext
<1>3. CInv /\ DInv => LeaseKeepsDoubt
  BY DEF DInv, DoubtOK, LeaseKeepsDoubt
<1> QED BY <1>1, <1>2, <1>3, PTL DEF CSpec

=============================================================================
