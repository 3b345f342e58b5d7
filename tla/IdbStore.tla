------------------------------ MODULE IdbStore ------------------------------
(***************************************************************************)
(* The durable disk overlay of cadr-web/browser/cadr-m10-indexeddb.mjs.    *)
(*                                                                         *)
(* One IndexedDB database holds one private CADR disk: a control record    *)
(* (meta), the head, the activation log, content-addressed pages, radix    *)
(* nodes and manifests, and root references (pins).  Any number of tabs    *)
(* and workers open it; each opening gets a handle with a session number,  *)
(* and only the newest session may change the control records.            *)
(*                                                                         *)
(* One action is one atomic IndexedDB transaction, or the synchronous code *)
(* between two awaits.  A long operation (commit, compact, pinRoot, stage, *)
(* reopen) is therefore a program counter per handle, and every await is a *)
(* point where other handles, other operations of the same handle, a tab   *)
(* crash or damage to a stored record may intervene.                       *)
(*                                                                         *)
(* Data abstraction.  A root node is named by its content, so it is        *)
(* represented by the set of pages its tree maps; the inner radix nodes    *)
(* travel with it.  A manifest hash commits to the parent's hash, so a     *)
(* manifest is represented by the chain of [generation, root] entries from *)
(* genesis to itself.                                                      *)
(***************************************************************************)
EXTENDS Integers, FiniteSets, Sequences, SequencesExt

CONSTANTS
  Handles,        \* handle slots: disk handles alive in some tab or worker
  Backends,       \* createCadrM10IndexedDbBackend instances, one per realm
  BackendOf,      \* the backend that each handle slot belongs to
  Pages,          \* contents of a 1024-byte page
  Kinds,          \* ROOT_REFERENCE_KINDS in use
  MaxActivations, \* CADR_M10_MAX_ACTIVATION_RECORDS
  MaxSession, MaxWriter, MaxGeneration, MaxRef, \* MAX_U64 of each counter
  MaxInFlight,    \* bound on operations in flight at once
  DamageKinds,    \* which stored records the environment may damage
  MaxDamage       \* how many times it may do so

ASSUME BackendAssumption == BackendOf \in [Handles -> Backends]
ASSUME KindAssumption == Kinds \subseteq {"snapshot", "clone", "export"}
ASSUME BoundAssumption ==
  /\ {MaxSession, MaxWriter, MaxGeneration, MaxRef, MaxInFlight,
      MaxDamage} \subseteq Nat
  /\ MaxSession >= 1
  /\ MaxActivations \in Nat /\ MaxActivations >= 3

VARIABLES
  meta,        \* the meta record: high-waters, session, writer lease
  head,        \* the stored head
  headOk,      \* the stored head still parses
  activations, \* well-formed activation records, each a copy of a head
  pages, nodes, manifests, \* keys present in the three object stores
  refs,        \* root references
  handle,      \* per slot: lifecycle, session, what it last observed
  staging,     \* per slot: the batch of a stage() whose transaction is due
  commit,      \* per slot: the running commit()
  compact,     \* per slot: the running compact()
  pin,         \* per slot: the running pinRoot()
  acked,       \* heads that some commit() reported as durable
  damage       \* how many records the environment has damaged

objects == <<pages, nodes, manifests>>
running == <<staging, commit, compact, pin>>
control == <<meta, head, headOk, activations, refs>>
vars == <<control, objects, handle, running, acked, damage>>

-----------------------------------------------------------------------------
\* Stored values

Root == SUBSET Pages
Entry == [generation : 0..MaxGeneration, root : Root]
Chain == Seq(Entry) \ {<<>>}
HeadRecord == [headSeq : Nat, writerEpoch : 0..MaxWriter, chain : Chain]
Ref == [sequence : 1..MaxRef, kind : Kinds, creatorSession : 0..MaxSession,
        root : Root]

RootOf(c) == c[Len(c)].root
GenOf(c) == c[Len(c)].generation

\* The roots that a chain of manifests names.
RootsOf(c) == {c[i].root : i \in 1..Len(c)}

\* The keys of the manifests on the way from a manifest to genesis.
Lineage(c) == {SubSeq(c, 1, i) : i \in 1..Len(c)}

GenesisChain == <<[generation |-> 0, root |-> {}]>>
GenesisHead == [headSeq |-> 1, writerEpoch |-> 0, chain |-> GenesisChain]

NoHandle == [state |-> "none", session |-> 0, readOnly |-> FALSE,
             shown |-> GenesisHead]
NoCommit == [pc |-> "idle", expected |-> GenesisHead, next |-> GenesisChain,
             epoch |-> 0]
NoCompact == [pc |-> "idle", epoch |-> 0, marked |-> GenesisHead,
              keep |-> {}, seen |-> {}]
NoPin == [pc |-> "idle", root |-> {}]

\* The pages a planned write stages: its base tree is already stored.
Batch(r, base) == [root |-> r, pages |-> r \ base]

-----------------------------------------------------------------------------
\* Reading

\* verifyRootTree succeeds: the root node and every page below it are stored.
Closed(r) == r \in nodes /\ r \subseteq pages

\* verifyManifestLineage and verifyClosure succeed for the manifest of hd.
Intact(hd) == Lineage(hd.chain) \subseteq manifests /\ Closed(RootOf(hd.chain))

\* readActive succeeds: head, identical activation, lineage and closure.
ActiveReadable == headOk /\ head \in activations /\ Intact(head)

\* The activation that recoverActive accepts: the newest intact one.
AnyIntact(a) == a \in activations /\ Intact(a)                    \* mutant
Newest(a) == /\ a \in activations /\ Intact(a)
             /\ \A b \in activations : Intact(b) => b.headSeq <= a.headSeq

\* assertSession, inside or outside a transaction.
SessionHeld(h) == meta.activeSession = handle[h].session
Open(h) == handle[h].state = "open"
Current(h) == Open(h) /\ SessionHeld(h)
Writable(h) == Current(h) /\ ~handle[h].readOnly

\* assertIssuedRootReference over every stored reference.
RefsIssued == \A x \in refs :
  /\ x.sequence <= meta.refHighWater
  /\ x.creatorSession <= meta.sessionHighWater
  /\ x.kind = "snapshot" => x.creatorSession = meta.activeSession

\* The `commits` set of the handle's backend is not holding this disk.
NoCommitIn(b) == \A h \in Handles : BackendOf[h] = b => commit[h].pc = "idle"

\* The bound on operations in flight at once, over all handles.
InFlight ==
  Cardinality({h \in Handles : staging[h] # {}}) +
  Cardinality({h \in Handles : commit[h].pc # "idle"}) +
  Cardinality({h \in Handles : compact[h].pc # "idle"}) +
  Cardinality({h \in Handles : pin[h].pc # "idle"})
Admit == InFlight < MaxInFlight

Idle(h) == /\ staging[h] = {} /\ commit[h].pc = "idle"
           /\ compact[h].pc = "idle" /\ pin[h].pc = "idle"

-----------------------------------------------------------------------------
\* Opening and closing

Init ==
  /\ meta = [generationHighWater |-> 0, writerHighWater |-> 0,
             sessionHighWater |-> 1, activeSession |-> 1,
             activeWriterEpoch |-> 0, pendingGeneration |-> 0,
             pendingSession |-> 0, refHighWater |-> 0]
  /\ head = GenesisHead /\ headOk = TRUE /\ activations = {GenesisHead}
  /\ pages = {} /\ nodes = {{}} /\ manifests = {GenesisChain}
  /\ refs = {}
  /\ \E h \in Handles : handle =
       [k \in Handles |-> IF k = h THEN [NoHandle EXCEPT !.state = "open",
                                                         !.session = 1]
                                   ELSE NoHandle]
  /\ staging = [h \in Handles |-> {}]
  /\ commit = [h \in Handles |-> NoCommit]
  /\ compact = [h \in Handles |-> NoCompact]
  /\ pin = [h \in Handles |-> NoPin]
  /\ acked = {} /\ damage = 0

\* A new session inherits neither a lease nor a reserved generation.
LeaseSurvivesReopen(m) ==                                        \* mutant
  [m EXCEPT !.sessionHighWater = @ + 1,
            !.activeSession = m.sessionHighWater + 1,
            !.pendingGeneration = 0, !.pendingSession = 0]
SessionHighWaterStays(m) ==                                      \* mutant
  [m EXCEPT !.activeSession = m.sessionHighWater + 1,
            !.activeWriterEpoch = 0,
            !.pendingGeneration = 0, !.pendingSession = 0]
ReopenedMeta(m) ==
  [m EXCEPT !.sessionHighWater = @ + 1,
            !.activeSession = m.sessionHighWater + 1,
            !.activeWriterEpoch = 0,
            !.pendingGeneration = 0, !.pendingSession = 0]

\* Snapshots are leases of one session; clone and export roots stay.
SnapshotsSurviveReopen(rs) == rs                                 \* mutant
RefsAfterReopen(rs) == {x \in rs : x.kind # "snapshot"}

\* beginReopenSession: one transaction purges the snapshots of older
\* sessions and makes a new session the only authoritative one.
BeginReopenSession(h) ==
  /\ handle[h].state \in {"none", "closed"} /\ Idle(h)
  /\ NoCommitIn(BackendOf[h])
  /\ meta.sessionHighWater < MaxSession
  /\ RefsIssued
  /\ refs' = RefsAfterReopen(refs)
  /\ meta' = ReopenedMeta(meta)
  /\ handle' = [handle EXCEPT ![h] =
       [NoHandle EXCEPT !.state = "opening",
                        !.session = meta.sessionHighWater + 1]]
  /\ UNCHANGED <<head, headOk, activations, objects, running, acked, damage>>

OpenedWith(h, hd, ro) ==
  handle' = [handle EXCEPT ![h].state = "open", ![h].readOnly = ro,
                           ![h].shown = hd]

\* recoverActive: the head if it reads back, else the newest intact
\* activation as a read-only snapshot, else the disk refuses to open.
RecoverActive(h) ==
  /\ handle[h].state = "opening"
  /\ \/ SessionHeld(h) /\ ActiveReadable /\ OpenedWith(h, head, FALSE)
     \/ /\ SessionHeld(h) /\ ~ActiveReadable
        /\ \E a \in activations : Newest(a) /\ OpenedWith(h, a, TRUE)
     \/ /\ \/ ~SessionHeld(h)
           \/ ~ActiveReadable /\ ~\E a \in activations : Intact(a)
        /\ handle' = [handle EXCEPT ![h] = NoHandle]
  /\ UNCHANGED <<control, objects, running, acked, damage>>

\* close() only marks the handle; operations in flight run on.
CloseHandle(h) ==
  /\ Open(h)
  /\ handle' = [handle EXCEPT ![h].state = "closed"]
  /\ UNCHANGED <<control, objects, running, acked, damage>>

\* A tab or worker dies, or versionchange closes its database: everything
\* volatile in that backend is gone, the database stays.
Crash(b) ==
  LET dead(h) == BackendOf[h] = b IN
  /\ \E h \in Handles : dead(h) /\ handle[h].state # "none"
  /\ handle' = [h \in Handles |-> IF dead(h) THEN NoHandle ELSE handle[h]]
  /\ staging' = [h \in Handles |-> IF dead(h) THEN {} ELSE staging[h]]
  /\ commit' = [h \in Handles |-> IF dead(h) THEN NoCommit ELSE commit[h]]
  /\ compact' = [h \in Handles |-> IF dead(h) THEN NoCompact ELSE compact[h]]
  /\ pin' = [h \in Handles |-> IF dead(h) THEN NoPin ELSE pin[h]]
  /\ UNCHANGED <<control, objects, acked, damage>>

-----------------------------------------------------------------------------
\* The writer lease and the generation counter

BeginWriter(h) ==
  /\ Writable(h)
  /\ meta.activeWriterEpoch = 0 /\ meta.pendingGeneration = 0
  /\ meta.writerHighWater < MaxWriter
  /\ meta' = [meta EXCEPT !.writerHighWater = @ + 1,
                          !.activeWriterEpoch = meta.writerHighWater + 1]
  /\ UNCHANGED <<head, headOk, activations, refs, objects, handle, running,
                 acked, damage>>

\* closeWriter leaves a reserved generation pending.
CloseWriter(h) ==
  /\ Current(h) /\ NoCommitIn(BackendOf[h])
  /\ meta.activeWriterEpoch # 0
  /\ meta' = [meta EXCEPT !.activeWriterEpoch = 0]
  /\ UNCHANGED <<head, headOk, activations, refs, objects, handle, running,
                 acked, damage>>

ReserveGeneration(h) ==
  /\ Writable(h) /\ NoCommitIn(BackendOf[h])
  /\ meta.activeWriterEpoch # 0
  /\ meta.pendingGeneration = 0
  /\ meta.generationHighWater < MaxGeneration
  /\ meta' = [meta EXCEPT !.generationHighWater = @ + 1,
                          !.pendingGeneration = meta.generationHighWater + 1,
                          !.pendingSession = handle[h].session]
  /\ UNCHANGED <<head, headOk, activations, refs, objects, handle, running, acked, damage>>

-----------------------------------------------------------------------------
\* stage(): the session is asserted, then the batch is stored by a
\* transaction of its own that no longer looks at the session.

StageBegin(h, r) ==
  /\ Current(h) /\ staging[h] = {} /\ Admit
  /\ staging' = [staging EXCEPT ![h] =
                   {Batch(r, RootOf(handle[h].shown.chain))}]
  /\ UNCHANGED <<control, objects, handle, commit, compact, pin,
                 acked, damage>>

StageLand(h) ==
  /\ \E s \in staging[h] : /\ nodes' = nodes \cup {s.root}
                           /\ pages' = pages \cup s.pages
  /\ staging' = [staging EXCEPT ![h] = {}]
  /\ UNCHANGED <<control, manifests, handle, commit, compact, pin,
                 acked, damage>>

-----------------------------------------------------------------------------
\* commit()

CommitAt(h, pc) == commit[h].pc = pc
CommitStep(h, pc) == commit' = [commit EXCEPT ![h].pc = pc]
CommitDone(h) == commit' = [commit EXCEPT ![h] = NoCommit]

\* The candidate extends the active head read here, under the caller's
\* lease and its reserved generation.
CommitBegin(h, r) ==
  /\ Writable(h) /\ NoCommitIn(BackendOf[h]) /\ Admit
  /\ ActiveReadable
  /\ meta.pendingGeneration > GenOf(head.chain)
  /\ meta.activeWriterEpoch # 0
  /\ meta.pendingSession = handle[h].session
  /\ commit' = [commit EXCEPT ![h] =
       [pc |-> "stage", expected |-> head, epoch |-> meta.activeWriterEpoch,
        next |-> Append(head.chain,
                   [generation |-> meta.pendingGeneration, root |-> r])]]
  /\ UNCHANGED <<control, objects, handle, staging, compact, pin,
                 acked, damage>>

CommitStage(h) ==
  /\ CommitAt(h, "stage")
  /\ LET b == Batch(RootOf(commit[h].next), RootOf(commit[h].expected.chain))
     IN nodes' = nodes \cup {b.root} /\ pages' = pages \cup b.pages
  /\ manifests' = manifests \cup {commit[h].next}
  /\ CommitStep(h, "verify")
  /\ UNCHANGED <<control, handle, staging, compact, pin, acked,
                 damage>>

CommitVerify(h) ==
  /\ CommitAt(h, "verify") /\ Current(h)
  /\ Closed(RootOf(commit[h].next))
  /\ CommitStep(h, "prune")
  /\ UNCHANGED <<control, objects, handle, staging, compact, pin,
                 acked, damage>>

\* prepareActivationSlot spares the head's record and its predecessor's and
\* drops the oldest of the others once the log is full.
Disposable(seq) == {a \in activations : a.headSeq \notin {seq, seq - 1}}

PruneNewest(seq) ==                                              \* mutant
  IF Cardinality(activations) < MaxActivations
  THEN UNCHANGED activations
  ELSE \E a \in activations : /\ \A b \in activations : b.headSeq <= a.headSeq
                              /\ activations' = activations \ {a}
PruneLog(seq) ==
  IF Cardinality(activations) < MaxActivations
  THEN UNCHANGED activations
  ELSE \E a \in Disposable(seq) :
         /\ \A b \in Disposable(seq) : a.headSeq <= b.headSeq
         /\ activations' = activations \ {a}

\* Its transaction does not look at the session; the check that follows does.
CommitPrune(h) ==
  LET seq == commit[h].expected.headSeq IN
  /\ CommitAt(h, "prune")
  /\ \A a \in activations : a.headSeq # seq + 1
  /\ PruneLog(seq)
  /\ IF Current(h) THEN CommitStep(h, "publish") ELSE CommitDone(h)
  /\ UNCHANGED <<meta, head, headOk, refs, objects, handle, staging,
                 compact, pin, acked, damage>>

\* publishHeadAndActivation: every premise is rechecked in the transaction
\* that writes head, activation and meta together.
UncheckedPublish(h) == headOk                                    \* mutant
PublishAllowed(h) ==
  LET c == commit[h] IN
  /\ SessionHeld(h) /\ meta.activeWriterEpoch = c.epoch
  /\ meta.pendingGeneration = GenOf(c.next)
  /\ meta.pendingSession = handle[h].session
  /\ headOk /\ head = c.expected /\ c.expected \in activations

LeaseSurvivesPublish(m) ==                                       \* mutant
  [m EXCEPT !.pendingGeneration = 0, !.pendingSession = 0]
PublishedMeta(m) ==
  [m EXCEPT !.activeWriterEpoch = 0, !.pendingGeneration = 0,
            !.pendingSession = 0]

CommitPublish(h) ==
  LET c == commit[h]
      new == [headSeq |-> c.expected.headSeq + 1, writerEpoch |-> c.epoch,
              chain |-> c.next]
  IN
  /\ CommitAt(h, "publish") /\ PublishAllowed(h)
  /\ head' = new
  /\ activations' = {a \in activations : a.headSeq # new.headSeq} \cup {new}
  /\ meta' = PublishedMeta(meta)
  /\ CommitStep(h, "reread")
  /\ UNCHANGED <<headOk, refs, objects, handle, staging, compact, pin,
                 acked, damage>>

\* The reread head is reported durable, by the normal return or by the
\* recoveredAfterFault one.
CommitReread(h) ==
  /\ CommitAt(h, "reread") /\ Current(h) /\ ActiveReadable
  /\ head.chain = commit[h].next
  /\ acked' = acked \cup {head}
  /\ handle' = [handle EXCEPT ![h].shown = head]
  /\ CommitDone(h)
  /\ UNCHANGED <<control, objects, staging, compact, pin, damage>>

\* Any check, quota or transport error ends the commit with an exception,
\* whatever has been published; `finally` releases the backend's guard.
CommitFail(h) ==
  /\ commit[h].pc # "idle"
  /\ CommitDone(h)
  /\ UNCHANGED <<control, objects, handle, staging, compact, pin,
                 acked, damage>>

-----------------------------------------------------------------------------
\* compact(): mark the active lineage, mark the pinned roots, sweep

CompactMark(h) ==
  /\ Writable(h) /\ compact[h].pc = "idle" /\ Admit
  /\ meta.activeWriterEpoch # 0
  /\ meta.pendingGeneration = 0
  /\ ActiveReadable /\ \A r \in RootsOf(head.chain) : Closed(r)
  /\ compact' = [compact EXCEPT ![h] =
       [pc |-> "refs", epoch |-> meta.activeWriterEpoch, marked |-> head,
        keep |-> RootsOf(head.chain), seen |-> {}]]
  /\ UNCHANGED <<control, objects, handle, staging, commit, pin,
                 acked, damage>>

CompactMarkRefs(h) ==
  /\ compact[h].pc = "refs" /\ Current(h) /\ RefsIssued
  /\ \A x \in refs : Closed(x.root)
  /\ compact' = [compact EXCEPT ![h].pc = "sweep", ![h].seen = refs,
                                ![h].keep = @ \cup {x.root : x \in refs}]
  /\ UNCHANGED <<control, objects, handle, staging, commit, pin,
                 acked, damage>>

\* What the sweep's transaction rechecks of what the mark has read.
SweepIgnoresPending(h) ==                                        \* mutant
  /\ SessionHeld(h) /\ meta.activeWriterEpoch = compact[h].epoch
  /\ headOk /\ head = compact[h].marked
  /\ RefsIssued /\ refs = compact[h].seen
SweepIgnoresRefs(h) ==                                           \* mutant
  /\ SessionHeld(h) /\ meta.activeWriterEpoch = compact[h].epoch
  /\ meta.pendingGeneration = 0
  /\ headOk /\ head = compact[h].marked
SweepIgnoresHead(h) ==                                           \* mutant
  /\ SessionHeld(h) /\ meta.activeWriterEpoch = compact[h].epoch
  /\ meta.pendingGeneration = 0
  /\ RefsIssued /\ refs = compact[h].seen
SweepAllowed(h) ==
  /\ SessionHeld(h) /\ meta.activeWriterEpoch = compact[h].epoch
  /\ meta.pendingGeneration = 0
  /\ headOk /\ head = compact[h].marked
  /\ RefsIssued /\ refs = compact[h].seen

CompactSweep(h) ==
  LET c == compact[h] IN
  /\ c.pc = "sweep" /\ SweepAllowed(h)
  /\ pages' = pages \cap UNION c.keep
  /\ nodes' = nodes \cap c.keep
  /\ manifests' = manifests \cap Lineage(c.marked.chain)
  /\ compact' = [compact EXCEPT ![h] = NoCompact]
  /\ UNCHANGED <<control, handle, staging, commit, pin, acked, damage>>

CompactFail(h) ==
  /\ compact[h].pc # "idle"
  /\ compact' = [compact EXCEPT ![h] = NoCompact]
  /\ UNCHANGED <<control, objects, handle, staging, commit, pin,
                 acked, damage>>

-----------------------------------------------------------------------------
\* pinRoot(), unpinRoot()

\* The tree is verified before the transaction that records the pin.
PinVerify(h, r) ==
  /\ Current(h) /\ pin[h].pc = "idle" /\ Admit
  /\ Closed(r)
  /\ pin' = [pin EXCEPT ![h] = [pc |-> "add", root |-> r]]
  /\ UNCHANGED <<control, objects, handle, staging, commit, compact,
                 acked, damage>>

PinAdd(h, k) ==
  /\ pin[h].pc = "add" /\ Current(h)
  /\ meta.refHighWater < MaxRef
  /\ pin[h].root \in nodes
  /\ LET s == meta.refHighWater + 1 IN
     /\ refs' = refs \cup
          {[sequence |-> s, kind |-> k, root |-> pin[h].root,
            creatorSession |-> IF k = "snapshot"
                               THEN handle[h].session ELSE 0]}
     /\ meta' = [meta EXCEPT !.refHighWater = s]
  /\ pin' = [pin EXCEPT ![h] = NoPin]
  /\ UNCHANGED <<head, headOk, activations, objects, handle, staging,
                 commit, compact, acked, damage>>

PinFail(h) ==
  /\ pin[h].pc # "idle"
  /\ pin' = [pin EXCEPT ![h] = NoPin]
  /\ UNCHANGED <<control, objects, handle, staging, commit, compact,
                 acked, damage>>

\* Releasing an issued id that is already gone is a success without effect.
UnpinRoot(h, s) ==
  /\ Current(h)
  /\ s <= meta.refHighWater
  /\ \A x \in refs : x.sequence = s /\ x.kind = "snapshot"
                       => x.creatorSession = handle[h].session
  /\ refs' = {x \in refs : x.sequence # s}
  /\ UNCHANGED <<meta, head, headOk, activations, objects, handle, running, acked, damage>>

-----------------------------------------------------------------------------
\* Damage that the code is written to survive: a stored record that no longer
\* parses (activation records of this kind are quarantined when next scanned)
\* or an object that is gone.

Damaging(kind) == /\ kind \in DamageKinds /\ damage < MaxDamage
                  /\ damage' = damage + 1
                  /\ UNCHANGED <<meta, head, refs, handle, running,
                                 acked>>

DamageHead == /\ Damaging("head") /\ headOk' = FALSE
              /\ UNCHANGED <<activations, objects>>

DamageActivation(a) == /\ Damaging("activation")
                       /\ activations' = activations \ {a}
                       /\ UNCHANGED <<headOk, objects>>

DamageObject ==
  /\ Damaging("object")
  /\ UNCHANGED <<headOk, activations>>
  /\ \/ /\ \E p \in pages : pages' = pages \ {p}
        /\ UNCHANGED <<nodes, manifests>>
     \/ /\ \E r \in nodes : nodes' = nodes \ {r}
        /\ UNCHANGED <<pages, manifests>>
     \/ /\ \E c \in manifests : manifests' = manifests \ {c}
        /\ UNCHANGED <<pages, nodes>>

-----------------------------------------------------------------------------

Opening(h) == BeginReopenSession(h) \/ RecoverActive(h) \/ CloseHandle(h)
Leasing(h) == BeginWriter(h) \/ CloseWriter(h) \/ ReserveGeneration(h)
Staging(h) == (\E r \in Root : StageBegin(h, r)) \/ StageLand(h)
CommitProgress(h) ==
  \/ CommitStage(h) \/ CommitVerify(h) \/ CommitPrune(h)
  \/ CommitPublish(h) \/ CommitReread(h) \/ CommitFail(h)
Committing(h) == (\E r \in Root : CommitBegin(h, r)) \/ CommitProgress(h)
Compacting(h) == \/ CompactMark(h) \/ CompactMarkRefs(h)
                 \/ CompactSweep(h) \/ CompactFail(h)
Pinning(h) == \/ \E r \in Root : PinVerify(h, r)
              \/ \E k \in Kinds : PinAdd(h, k)
              \/ PinFail(h)
              \/ \E s \in 1..MaxRef : UnpinRoot(h, s)
Damage == \/ DamageHead \/ DamageObject
          \/ \E a \in activations : DamageActivation(a)

Next ==
  \/ \E h \in Handles : \/ Opening(h) \/ Leasing(h) \/ Staging(h)
                        \/ Committing(h) \/ Compacting(h) \/ Pinning(h)
  \/ \E b \in Backends : Crash(b)
  \/ Damage

Spec == Init /\ [][Next]_vars

-----------------------------------------------------------------------------
\* Properties

Meta == [generationHighWater : 0..MaxGeneration,
         pendingGeneration : 0..MaxGeneration,
         writerHighWater : 0..MaxWriter, activeWriterEpoch : 0..MaxWriter,
         sessionHighWater : 1..MaxSession, activeSession : 1..MaxSession,
         pendingSession : 0..MaxSession, refHighWater : 0..MaxRef]

MetaOK ==
  /\ meta \in Meta
  /\ meta.activeSession = meta.sessionHighWater
  /\ meta.activeWriterEpoch <= meta.writerHighWater
  /\ meta.pendingGeneration <= meta.generationHighWater
ControlOK ==
  /\ head \in HeadRecord /\ headOk \in BOOLEAN
  /\ activations \subseteq HeadRecord /\ acked \subseteq HeadRecord
  /\ refs \subseteq Ref /\ damage \in 0..MaxDamage
ObjectsOK ==
  pages \subseteq Pages /\ nodes \subseteq Root /\ manifests \subseteq Chain
HandleOK == handle \in
  [Handles -> [state : {"none", "opening", "open", "closed"},
               session : 0..MaxSession, readOnly : BOOLEAN,
               shown : HeadRecord]]
StagingOK == staging \in [Handles -> SUBSET [root : Root, pages : Root]]
CommitOK == commit \in
  [Handles -> [pc : {"idle", "stage", "verify", "prune", "publish", "reread"},
               expected : HeadRecord, next : Chain, epoch : 0..MaxWriter]]
CompactOK == compact \in
  [Handles -> [pc : {"idle", "refs", "sweep"}, epoch : 0..MaxWriter,
               marked : HeadRecord, keep : SUBSET Root, seen : SUBSET Ref]]
PinOK == pin \in [Handles -> [pc : {"idle", "add"}, root : Root]]

\* The type invariant, with the monotonic bounds metaRecord insists on.
TypeOK == /\ MetaOK /\ ControlOK /\ ObjectsOK /\ HandleOK
          /\ StagingOK /\ CommitOK /\ CompactOK /\ PinOK

\* The published head always reads back: its activation, the manifests of its
\* lineage and every tree the lineage names are stored, whatever commits,
\* collections, crashes and takeovers ran in between.  So a reopen never has
\* to fall back, and compact() never meets a missing object.
HeadAlwaysOpens ==
  damage = 0 => ActiveReadable /\ \A r \in RootsOf(head.chain) : Closed(r)

\* A collection between pinRoot's verification and its transaction, or
\* between its own mark and sweep, never leaves a pin without its tree.
PinsKeepClosure == damage = 0 => \A x \in refs : Closed(x.root)

\* assertIssuedRootReference rejects a whole reopen, collection or unpin for
\* one reference it does not accept: no sequence of calls stores such a
\* reference, and no two references share an id.
RefsAdmissible ==
  /\ RefsIssued
  /\ \A x, y \in refs : x.sequence = y.sequence => x = y

\* What some commit() reported durable stays in the history of the head.
AckedDurable == \A a \in acked : IsPrefix(a.chain, head.chain)

\* A handle of the active session shows everything acknowledged so far, even
\* a recovered one, when nothing but the head record itself is damaged.
AckedShown ==
  damage = (IF headOk THEN 0 ELSE 1) => \A h \in Handles : Current(h) =>
    \A a \in acked : IsPrefix(a.chain, handle[h].shown.chain)

\* The activation log is an unbroken run of head sequences that ends with
\* the head, includes its predecessor and never outgrows the scan bound of
\* recoverActive, although a stale handle may still prune it.
ActivationLogUnbroken ==
  damage = 0 => LET n == Cardinality(activations) IN
  /\ {a.headSeq : a \in activations} = (head.headSeq - n + 1)..head.headSeq
  /\ head \in activations
  /\ n <= MaxActivations /\ (head.headSeq > 1 => n >= 2)

\* The head changes only to a complete tree one entry longer than the last,
\* of a greater generation, published under a writer epoch never used
\* before.
HeadExtends ==
  [][head' # head =>
       /\ head'.headSeq = head.headSeq + 1
       /\ Front(head'.chain) = head.chain
       /\ GenOf(head'.chain) > GenOf(head.chain)
       /\ head'.writerEpoch > head.writerEpoch
       /\ damage = 0 => Closed(RootOf(head'.chain))]_vars

\* Once the head record is damaged nothing is collected or published any
\* more: what recovery may still need stays, unless it is damaged as well.
HeadDamageFreezes ==
  [][~headOk /\ damage' = damage =>
       /\ head' = head /\ pages \subseteq pages'
       /\ nodes \subseteq nodes' /\ manifests \subseteq manifests']_vars

\* A disk opened read-only shows the newest activation that reads back.
RecoveryIsNewest ==
  [][\A h \in Handles :
       handle'[h].readOnly /\ ~handle[h].readOnly =>
         /\ handle'[h].shown \in activations /\ Intact(handle'[h].shown)
         /\ \A a \in activations : Intact(a) =>
              IsPrefix(a.chain, handle'[h].shown.chain)]_vars

\* The store implements the promise of DurableDisk.
DD == INSTANCE DurableDisk WITH
  Sessions <- 1..MaxSession, Epochs <- 1..MaxWriter,
  Generations <- 1..MaxGeneration, Roots <- Root, Pins <- Ref,
  EmptyRoot <- {}, SessionPins <- {x \in Ref : x.kind = "snapshot"},
  log <- head.chain, owner <- meta.activeSession,
  issued <- meta.writerHighWater, grant <- meta.activeWriterEpoch,
  pinned <- refs, readable <- {r \in nodes : Closed(r)}

ImplementsDurableDisk == DD!DSpec
=============================================================================
