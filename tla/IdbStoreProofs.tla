--------------------------- MODULE IdbStoreProofs ---------------------------
(***************************************************************************)
(* Proofs about IdbStore for every number of handles, realms, pages,       *)
(* sessions, writers, generations and references.                          *)
(***************************************************************************)
EXTENDS IdbStore, FiniteSetTheorems, FunctionTheorems, TLAPS

-----------------------------------------------------------------------------
\* Facts about the stored values

\* The bounds on the counters are naturals.
LEMMA Bounds ==
  /\ MaxSession \in Nat /\ MaxSession >= 1
  /\ MaxWriter \in Nat /\ MaxGeneration \in Nat /\ MaxRef \in Nat
  /\ MaxInFlight \in Nat /\ MaxDamage \in Nat
BY BoundAssumption

\* What the last entry and the roots of a manifest chain are.
LEMMA ChainParts ==
  ASSUME NEW c \in Chain
  PROVE  /\ Len(c) \in Nat \ {0}
         /\ \A i \in 1..Len(c) : c[i] \in Entry
         /\ RootOf(c) \in Root
         /\ GenOf(c) \in 0..MaxGeneration
         /\ RootsOf(c) \subseteq Root
         /\ RootOf(c) \in RootsOf(c)
<1>1. c \in Seq(Entry) /\ c # <<>>
  BY DEF Chain
<1>2. Len(c) \in Nat \ {0} /\ \A i \in 1..Len(c) : c[i] \in Entry
  BY <1>1
<1>3. \A e \in Entry : e.root \in Root /\ e.generation \in 0..MaxGeneration
  BY DEF Entry
<1> QED BY <1>2, <1>3 DEF RootOf, GenOf, RootsOf

\* The genesis head that createGenesis writes is a well-formed head.
LEMMA GenesisType ==
  /\ GenesisChain \in Chain /\ Len(GenesisChain) = 1
  /\ GenesisHead \in HeadRecord /\ GenesisHead.chain = GenesisChain
<1>1. [generation |-> 0, root |-> {}] \in Entry
  BY Bounds DEF Entry, Root
<1>2. GenesisChain \in Chain /\ Len(GenesisChain) = 1
  BY <1>1 DEF GenesisChain, Chain
<1> QED BY <1>2, Bounds DEF GenesisHead, HeadRecord

\* The manifest that commit() builds on a chain is a well-formed chain.
LEMMA AppendType ==
  ASSUME NEW c \in Chain, NEW g \in 0..MaxGeneration, NEW r \in Root
  PROVE  Append(c, [generation |-> g, root |-> r]) \in Chain
<1>1. [generation |-> g, root |-> r] \in Entry
  BY DEF Entry
<1>2. c \in Seq(Entry)
  BY DEF Chain
<1>3. Append(c, [generation |-> g, root |-> r]) \in Seq(Entry)
  BY <1>1, <1>2
<1>4. Len(Append(c, [generation |-> g, root |-> r])) = Len(c) + 1 /\ Len(c) \in Nat
  BY <1>1, <1>2
<1> QED BY <1>3, <1>4 DEF Chain

\* The values of a slot in which no call is running are well-formed.
LEMMA IdleTypes ==
  /\ NoHandle \in [state : {"none", "opening", "open", "closed"},
                   session : 0..MaxSession, readOnly : BOOLEAN, shown : HeadRecord]
  /\ NoCommit \in [pc : {"idle", "stage", "verify", "prune", "publish", "reread"},
                   expected : HeadRecord, next : Chain, epoch : 0..MaxWriter]
  /\ NoCompact \in [pc : {"idle", "refs", "sweep"}, epoch : 0..MaxWriter,
                    marked : HeadRecord, keep : SUBSET Root, seen : SUBSET Ref]
  /\ NoPin \in [pc : {"idle", "add"}, root : Root]
BY Bounds, GenesisType DEF NoHandle, NoCommit, NoCompact, NoPin, Root

\* Updates of the meta record, one field after the other.
LEMMA MetaFields ==
  ASSUME NEW m \in Meta
  PROVE  /\ \A x \in 0..MaxGeneration : /\ [m EXCEPT !.generationHighWater = x] \in Meta
                                        /\ [m EXCEPT !.pendingGeneration = x] \in Meta
         /\ \A x \in 0..MaxWriter : /\ [m EXCEPT !.writerHighWater = x] \in Meta
                                    /\ [m EXCEPT !.activeWriterEpoch = x] \in Meta
         /\ \A x \in 1..MaxSession : /\ [m EXCEPT !.sessionHighWater = x] \in Meta
                                     /\ [m EXCEPT !.activeSession = x] \in Meta
         /\ \A x \in 0..MaxSession : [m EXCEPT !.pendingSession = x] \in Meta
         /\ \A x \in 0..MaxRef : [m EXCEPT !.refHighWater = x] \in Meta
<1>1. \A x \in 0..MaxGeneration : /\ [m EXCEPT !.generationHighWater = x] \in Meta
                                  /\ [m EXCEPT !.pendingGeneration = x] \in Meta
  BY DEF Meta
<1>2. \A x \in 0..MaxWriter : /\ [m EXCEPT !.writerHighWater = x] \in Meta
                              /\ [m EXCEPT !.activeWriterEpoch = x] \in Meta
  BY DEF Meta
<1>3. \A x \in 1..MaxSession : /\ [m EXCEPT !.sessionHighWater = x] \in Meta
                               /\ [m EXCEPT !.activeSession = x] \in Meta
  BY DEF Meta
<1>4. /\ \A x \in 0..MaxSession : [m EXCEPT !.pendingSession = x] \in Meta
      /\ \A x \in 0..MaxRef : [m EXCEPT !.refHighWater = x] \in Meta
  BY DEF Meta
<1> QED BY <1>1, <1>2, <1>3, <1>4

\* beginReopenSession writes a control record that metaRecord accepts, with
\* a new session, no lease and no reserved generation.
LEMMA ReopenedType ==
  ASSUME MetaOK, meta.sessionHighWater < MaxSession
  PROVE  /\ ReopenedMeta(meta) \in Meta
         /\ ReopenedMeta(meta).activeSession = meta.sessionHighWater + 1
         /\ ReopenedMeta(meta).sessionHighWater = meta.sessionHighWater + 1
         /\ ReopenedMeta(meta).activeWriterEpoch = 0
         /\ ReopenedMeta(meta).pendingGeneration = 0
         /\ ReopenedMeta(meta).pendingSession = 0
         /\ ReopenedMeta(meta).writerHighWater = meta.writerHighWater
         /\ ReopenedMeta(meta).generationHighWater = meta.generationHighWater
         /\ ReopenedMeta(meta).refHighWater = meta.refHighWater
<1> DEFINE s == meta.sessionHighWater + 1
<1>1. s \in 1..MaxSession /\ 0 \in 0..MaxWriter /\ 0 \in 0..MaxGeneration
      /\ 0 \in 0..MaxSession
  BY Bounds DEF MetaOK, Meta
<1>2. ReopenedMeta(meta) =
        [[[[[meta EXCEPT !.sessionHighWater = s] EXCEPT !.activeSession = s]
            EXCEPT !.activeWriterEpoch = 0] EXCEPT !.pendingGeneration = 0]
            EXCEPT !.pendingSession = 0]
  BY DEF ReopenedMeta
<1>3. ReopenedMeta(meta) \in Meta
  <2> DEFINE m1 == [meta EXCEPT !.sessionHighWater = s]
             m2 == [m1 EXCEPT !.activeSession = s]
             m3 == [m2 EXCEPT !.activeWriterEpoch = 0]
             m4 == [m3 EXCEPT !.pendingGeneration = 0]
             m5 == [m4 EXCEPT !.pendingSession = 0]
  <2>1. m1 \in Meta
    BY <1>1, MetaFields DEF MetaOK
  <2>2. m2 \in Meta
    <3> HIDE DEF m1, s
    <3> QED BY <1>1, <2>1, MetaFields
  <2>3. m3 \in Meta
    <3> HIDE DEF m2
    <3> QED BY <1>1, <2>2, MetaFields
  <2>4. m4 \in Meta
    <3> HIDE DEF m3
    <3> QED BY <1>1, <2>3, MetaFields
  <2>5. m5 \in Meta
    <3> HIDE DEF m4
    <3> QED BY <1>1, <2>4, MetaFields
  <2> QED BY <2>5, <1>2
<1> QED BY <1>3 DEF ReopenedMeta, MetaOK, Meta

\* A publication writes a control record that metaRecord accepts, with the
\* lease and the reserved generation used up.
LEMMA PublishedType ==
  ASSUME MetaOK
  PROVE  /\ PublishedMeta(meta) \in Meta
         /\ PublishedMeta(meta).activeWriterEpoch = 0
         /\ PublishedMeta(meta).pendingGeneration = 0
         /\ PublishedMeta(meta).pendingSession = 0
         /\ PublishedMeta(meta).activeSession = meta.activeSession
         /\ PublishedMeta(meta).sessionHighWater = meta.sessionHighWater
         /\ PublishedMeta(meta).writerHighWater = meta.writerHighWater
         /\ PublishedMeta(meta).generationHighWater = meta.generationHighWater
         /\ PublishedMeta(meta).refHighWater = meta.refHighWater
<1>1. 0 \in 0..MaxWriter /\ 0 \in 0..MaxGeneration /\ 0 \in 0..MaxSession
  BY Bounds
<1>2. PublishedMeta(meta) =
        [[[meta EXCEPT !.activeWriterEpoch = 0] EXCEPT !.pendingGeneration = 0]
            EXCEPT !.pendingSession = 0]
  BY DEF PublishedMeta
<1>3. PublishedMeta(meta) \in Meta
  <2> DEFINE m1 == [meta EXCEPT !.activeWriterEpoch = 0]
             m2 == [m1 EXCEPT !.pendingGeneration = 0]
             m3 == [m2 EXCEPT !.pendingSession = 0]
  <2>1. m1 \in Meta
    BY <1>1, MetaFields DEF MetaOK
  <2>2. m2 \in Meta
    <3> HIDE DEF m1
    <3> QED BY <1>1, <2>1, MetaFields
  <2>3. m3 \in Meta
    <3> HIDE DEF m2
    <3> QED BY <1>1, <2>2, MetaFields
  <2> QED BY <2>3, <1>2
<1> QED BY <1>3 DEF PublishedMeta, MetaOK, Meta

-----------------------------------------------------------------------------
\* Type correctness, one lemma for each family of actions

\* A disk that createGenesis has just written is well-formed.
LEMMA InitType == Init => TypeOK
<1> SUFFICES ASSUME Init PROVE TypeOK
  OBVIOUS
<1>1. MetaOK /\ ControlOK /\ ObjectsOK
  BY Bounds, GenesisType DEF Init, MetaOK, Meta, ControlOK, ObjectsOK, Root
<1>2. HandleOK
  <2>1. PICK h \in Handles : handle =
          [k \in Handles |-> IF k = h THEN [NoHandle EXCEPT !.state = "open", !.session = 1]
                             ELSE NoHandle]
    BY DEF Init
  <2>2. [NoHandle EXCEPT !.state = "open", !.session = 1]
          \in [state : {"none", "opening", "open", "closed"}, session : 0..MaxSession,
              readOnly : BOOLEAN, shown : HeadRecord]
    <3>1. 1 \in 0..MaxSession /\ "open" \in {"none", "opening", "open", "closed"}
      BY Bounds
    <3> QED BY <3>1, IdleTypes
  <2> QED BY <2>1, <2>2, IdleTypes DEF HandleOK
<1>3. StagingOK /\ CommitOK /\ CompactOK /\ PinOK
  BY IdleTypes DEF Init, StagingOK, CommitOK, CompactOK, PinOK
<1> QED BY <1>1, <1>2, <1>3 DEF TypeOK

\* Opening, recovering and closing a handle keep the records well-formed.
LEMMA OpeningType ==
  ASSUME TypeOK, NEW h \in Handles, Opening(h)
  PROVE  TypeOK'
<1> USE DEF TypeOK, control, objects, running
<1>1. CASE BeginReopenSession(h)
  <2>1. MetaOK' /\ ControlOK'
    <3>1. MetaOK'
      BY <1>1, ReopenedType, Bounds DEF BeginReopenSession, MetaOK, Meta
    <3> QED BY <1>1, <3>1 DEF BeginReopenSession, ControlOK, RefsAfterReopen
  <2>2. meta.sessionHighWater + 1 \in 0..MaxSession
    BY <1>1, Bounds DEF BeginReopenSession, MetaOK, Meta
  <2>3. HandleOK'
    BY <1>1, <2>2, Bounds, IdleTypes, GenesisType DEF BeginReopenSession, HandleOK, NoHandle
  <2> QED BY <1>1, <2>1, <2>3 DEF BeginReopenSession, ObjectsOK, StagingOK, CommitOK,
             CompactOK, PinOK
<1>2. CASE RecoverActive(h)
  <2>1. ASSUME NEW hd \in HeadRecord, NEW ro \in BOOLEAN, OpenedWith(h, hd, ro)
        PROVE  HandleOK'
    <3>1. [handle[h] EXCEPT !.state = "open", !.readOnly = ro, !.shown = hd]
            \in [state : {"none", "opening", "open", "closed"}, session : 0..MaxSession,
                readOnly : BOOLEAN, shown : HeadRecord]
      BY DEF TypeOK, HandleOK
    <3>2. handle' = [handle EXCEPT ![h] = [handle[h] EXCEPT !.state = "open", !.readOnly = ro,
                                                          !.shown = hd]]
      BY <2>1 DEF OpenedWith, TypeOK, HandleOK
    <3> QED BY <3>1, <3>2 DEF HandleOK
  <2>2. HandleOK'
    BY <1>2, <2>1, IdleTypes DEF RecoverActive, HandleOK, ControlOK
  <2> QED BY <1>2, <2>2 DEF RecoverActive, MetaOK, ControlOK, ObjectsOK, StagingOK,
             CommitOK, CompactOK, PinOK
<1>3. CASE CloseHandle(h)
  <2>1. HandleOK'
    BY <1>3 DEF CloseHandle, HandleOK
  <2> QED BY <1>3, <2>1 DEF CloseHandle, MetaOK, ControlOK, ObjectsOK, StagingOK, CommitOK,
             CompactOK, PinOK
<1> QED BY <1>1, <1>2, <1>3 DEF Opening

\* The death of a realm keeps the records well-formed.
LEMMA CrashType ==
  ASSUME TypeOK, NEW b \in Backends, Crash(b)
  PROVE  TypeOK'
<1>1. MetaOK' /\ ControlOK' /\ ObjectsOK'
  BY DEF Crash, TypeOK, MetaOK, ControlOK, ObjectsOK, control, objects
<1>2. HandleOK'
  BY IdleTypes DEF Crash, TypeOK, HandleOK
<1>3. StagingOK' /\ CommitOK' /\ CompactOK' /\ PinOK'
  BY IdleTypes DEF Crash, TypeOK, StagingOK, CommitOK, CompactOK, PinOK
<1> QED BY <1>1, <1>2, <1>3 DEF TypeOK

\* beginWriter, closeWriter and reserveGeneration keep them well-formed.
LEMMA LeasingType ==
  ASSUME TypeOK, NEW h \in Handles, Leasing(h)
  PROVE  TypeOK'
<1>1. MetaOK'
  <2>1. CASE BeginWriter(h)
    <3>1. meta \in Meta /\ meta.writerHighWater + 1 \in 0..MaxWriter
      BY <2>1, Bounds DEF TypeOK, MetaOK, Meta, BeginWriter
    <3>2. meta' = [[meta EXCEPT !.writerHighWater = meta.writerHighWater + 1]
                         EXCEPT !.activeWriterEpoch = meta.writerHighWater + 1]
      BY <2>1 DEF BeginWriter
    <3>3. meta' \in Meta
      BY <3>1, <3>2, MetaFields
    <3> QED BY <2>1, <3>1, <3>2, <3>3 DEF TypeOK, MetaOK, Meta, BeginWriter
  <2>2. CASE CloseWriter(h)
    BY <2>2, Bounds DEF TypeOK, MetaOK, Meta, CloseWriter
  <2>3. CASE ReserveGeneration(h)
    <3> DEFINE g == meta.generationHighWater + 1
    <3>1. meta \in Meta /\ g \in 0..MaxGeneration /\ handle[h].session \in 0..MaxSession
      BY <2>3, Bounds DEF TypeOK, MetaOK, Meta, HandleOK, ReserveGeneration
    <3>2. meta' = [[[meta EXCEPT !.generationHighWater = g] EXCEPT !.pendingGeneration = g]
                         EXCEPT !.pendingSession = handle[h].session]
      BY <2>3 DEF ReserveGeneration
    <3>3. meta' \in Meta
      <4> HIDE DEF g
      <4> QED BY <3>1, <3>2, MetaFields
    <3> QED BY <2>3, <3>1, <3>2, <3>3 DEF TypeOK, MetaOK, Meta, ReserveGeneration
  <2> QED BY <2>1, <2>2, <2>3 DEF Leasing
<1> QED BY <1>1 DEF Leasing, BeginWriter, CloseWriter, ReserveGeneration, TypeOK, objects,
           running, ControlOK, ObjectsOK, HandleOK, StagingOK, CommitOK, CompactOK, PinOK

\* stage() keeps them well-formed.
LEMMA StagingType ==
  ASSUME TypeOK, NEW h \in Handles, Staging(h)
  PROVE  TypeOK'
<1>1. StagingOK' /\ ObjectsOK'
  BY DEF TypeOK, StagingOK, ObjectsOK, Staging, StageBegin, StageLand, Batch, Root, objects
<1> QED BY <1>1 DEF Staging, StageBegin, StageLand, TypeOK, control, objects, MetaOK,
           ControlOK, HandleOK, CommitOK, CompactOK, PinOK

\* Every step of commit() keeps them well-formed.
LEMMA CommittingType ==
  ASSUME TypeOK, NEW h \in Handles, Committing(h)
  PROVE  TypeOK'
<1> USE DEF TypeOK, control, objects, CommitStep, CommitDone, CommitAt
<1>1. ASSUME NEW r \in Root, CommitBegin(h, r) PROVE TypeOK'
  <2>1. Append(head.chain, [generation |-> meta.pendingGeneration, root |-> r]) \in Chain
    BY AppendType DEF ControlOK, HeadRecord, MetaOK, Meta
  <2>2. CommitOK'
    BY <1>1, <2>1 DEF CommitBegin, CommitOK, MetaOK, Meta, ControlOK
  <2> QED BY <1>1, <2>2 DEF CommitBegin, MetaOK, ControlOK, ObjectsOK, HandleOK, StagingOK,
             CompactOK, PinOK
<1>2. CASE CommitStage(h)
  <2>1. commit[h].next \in Chain
    BY DEF CommitOK
  <2>2. RootOf(commit[h].next) \in Root
    BY <2>1, ChainParts
  <2>3. ObjectsOK' /\ CommitOK'
    BY <1>2, <2>1, <2>2 DEF CommitStage, Batch, Root, ObjectsOK, CommitOK
  <2> QED BY <1>2, <2>3 DEF CommitStage, MetaOK, ControlOK, HandleOK, StagingOK, CompactOK,
             PinOK
<1>3. CASE CommitVerify(h)
  <2>1. CommitOK'
    BY <1>3 DEF CommitVerify, CommitOK
  <2> QED BY <1>3, <2>1 DEF CommitVerify, MetaOK, ControlOK, ObjectsOK, HandleOK, StagingOK,
             CompactOK, PinOK
<1>4. CASE CommitPrune(h)
  <2>1. CommitOK'
    BY <1>4, IdleTypes DEF CommitPrune, CommitOK
  <2>2. ControlOK'
    BY <1>4 DEF CommitPrune, PruneLog, ControlOK
  <2> QED BY <1>4, <2>1, <2>2 DEF CommitPrune, MetaOK, ObjectsOK, HandleOK, StagingOK,
             CompactOK, PinOK
<1>5. CASE CommitPublish(h)
  <2>1. CommitOK' /\ MetaOK'
    <3>1. CommitOK'
      BY <1>5 DEF CommitPublish, CommitOK
    <3> QED BY <1>5, <3>1, PublishedType, Bounds DEF CommitPublish, MetaOK, Meta
  <2>2. head' \in HeadRecord
    BY <1>5 DEF CommitPublish, CommitOK, HeadRecord
  <2>3. ControlOK'
    BY <1>5, <2>2 DEF CommitPublish, ControlOK
  <2> QED BY <1>5, <2>1, <2>3 DEF CommitPublish, ObjectsOK, HandleOK, StagingOK, CompactOK,
             PinOK
<1>6. CASE CommitReread(h)
  <2>1. CommitOK' /\ ControlOK'
    BY <1>6, IdleTypes DEF CommitReread, CommitOK, ControlOK
  <2>2. HandleOK'
    BY <1>6 DEF CommitReread, HandleOK, ControlOK
  <2> QED BY <1>6, <2>1, <2>2 DEF CommitReread, MetaOK, ObjectsOK, StagingOK, CompactOK,
             PinOK
<1>7. CASE CommitFail(h)
  <2>1. CommitOK'
    BY <1>7, IdleTypes DEF CommitFail, CommitOK
  <2> QED BY <1>7, <2>1 DEF CommitFail, MetaOK, ControlOK, ObjectsOK, HandleOK, StagingOK,
             CompactOK, PinOK
<1> QED BY <1>1, <1>2, <1>3, <1>4, <1>5, <1>6, <1>7 DEF Committing, CommitProgress

\* Every step of compact() keeps them well-formed.
LEMMA CompactingType ==
  ASSUME TypeOK, NEW h \in Handles, Compacting(h)
  PROVE  TypeOK'
<1>1. CompactOK'
  <2>1. RootsOf(head.chain) \in SUBSET Root
    BY ChainParts DEF TypeOK, ControlOK, HeadRecord
  <2>2. CASE CompactMark(h)
    BY <2>1, <2>2 DEF CompactMark, TypeOK, CompactOK, ControlOK, MetaOK, Meta
  <2>3. CASE CompactMarkRefs(h)
    <3>1. {x.root : x \in refs} \in SUBSET Root /\ refs \in SUBSET Ref
      BY DEF TypeOK, ControlOK, Ref
    <3>2. compact[h].keep \cup {x.root : x \in refs} \in SUBSET Root
      BY <3>1 DEF TypeOK, CompactOK
    <3>3. PICK k \in SUBSET Root :
            compact' = [compact EXCEPT ![h].pc = "sweep", ![h].seen = refs, ![h].keep = k]
      BY <2>3, <3>2 DEF CompactMarkRefs
    <3>4. [compact[h] EXCEPT !.pc = "sweep", !.seen = refs, !.keep = k]
            \in [pc : {"idle", "refs", "sweep"}, epoch : 0..MaxWriter,
                marked : HeadRecord, keep : SUBSET Root, seen : SUBSET Ref]
      BY <3>1 DEF TypeOK, CompactOK
    <3>5. compact' = [compact EXCEPT ![h] = [compact[h] EXCEPT !.pc = "sweep", !.seen = refs,
                                                               !.keep = k]]
      BY <3>3 DEF TypeOK, CompactOK
    <3> QED BY <3>4, <3>5 DEF TypeOK, CompactOK
  <2>4. CASE CompactSweep(h) \/ CompactFail(h)
    BY <2>4, IdleTypes DEF CompactSweep, CompactFail, TypeOK, CompactOK
  <2> QED BY <2>2, <2>3, <2>4 DEF Compacting
<1>2. ObjectsOK'
  BY DEF Compacting, CompactMark, CompactMarkRefs, CompactSweep, CompactFail, TypeOK,
     ObjectsOK, objects
<1> QED BY <1>1, <1>2 DEF Compacting, CompactMark, CompactMarkRefs, CompactSweep, CompactFail,
           TypeOK, control, objects, MetaOK, ControlOK, HandleOK, StagingOK, CommitOK, PinOK

\* pinRoot() and unpinRoot() keep them well-formed.
LEMMA PinningType ==
  ASSUME TypeOK, NEW h \in Handles, Pinning(h)
  PROVE  TypeOK'
<1> USE DEF TypeOK, control, objects, running
<1>1. ASSUME NEW r \in Root, PinVerify(h, r) PROVE TypeOK'
  <2>1. PinOK'
    BY <1>1 DEF PinVerify, PinOK
  <2> QED BY <1>1, <2>1 DEF PinVerify, MetaOK, ControlOK, ObjectsOK, HandleOK, StagingOK,
             CommitOK, CompactOK
<1>2. ASSUME NEW k \in Kinds, PinAdd(h, k) PROVE TypeOK'
  <2>1. MetaOK' /\ meta.refHighWater + 1 \in 1..MaxRef
    BY <1>2, Bounds DEF PinAdd, MetaOK, Meta
  <2>2. [sequence |-> meta.refHighWater + 1, kind |-> k, root |-> pin[h].root,
         creatorSession |-> IF k = "snapshot" THEN handle[h].session ELSE 0] \in Ref
    BY <2>1, Bounds DEF Ref, PinOK, HandleOK
  <2>3. ControlOK'
    BY <1>2, <2>2 DEF PinAdd, ControlOK
  <2>4. PinOK'
    BY <1>2, IdleTypes DEF PinAdd, PinOK
  <2> QED BY <1>2, <2>1, <2>3, <2>4 DEF PinAdd, ObjectsOK, HandleOK, StagingOK, CommitOK,
             CompactOK
<1>3. CASE PinFail(h)
  <2>1. PinOK'
    BY <1>3, IdleTypes DEF PinFail, PinOK
  <2> QED BY <1>3, <2>1 DEF PinFail, MetaOK, ControlOK, ObjectsOK, HandleOK, StagingOK,
             CommitOK, CompactOK
<1>4. ASSUME NEW s \in 1..MaxRef, UnpinRoot(h, s) PROVE TypeOK'
  BY <1>4 DEF UnpinRoot, MetaOK, ControlOK, ObjectsOK, HandleOK, StagingOK, CommitOK,
     CompactOK, PinOK
<1> QED BY <1>1, <1>2, <1>3, <1>4 DEF Pinning

\* Damage, as it is modelled, keeps the records well-formed.
LEMMA DamageType ==
  ASSUME TypeOK, Damage
  PROVE  TypeOK'
<1>1. MetaOK' /\ ObjectsOK'
  BY DEF Damage, DamageHead, DamageActivation, DamageObject, Damaging, TypeOK, objects,
     MetaOK, ObjectsOK
<1>2. ControlOK'
  <2>1. damage' \in 0..MaxDamage
    BY Bounds DEF Damage, DamageHead, DamageActivation, DamageObject, Damaging, TypeOK, ControlOK
  <2>2. headOk' \in BOOLEAN /\ activations' \subseteq activations
    BY DEF Damage, DamageHead, DamageActivation, DamageObject, TypeOK, ControlOK
  <2> QED BY <2>1, <2>2 DEF Damage, DamageHead, DamageActivation, DamageObject, Damaging,
             TypeOK, ControlOK
<1> QED BY <1>1, <1>2 DEF Damage, DamageHead, DamageActivation, DamageObject, Damaging, TypeOK,
           running, HandleOK, StagingOK, CommitOK, CompactOK, PinOK

\* A step that changes nothing keeps the types.
LEMMA StutterType == TypeOK /\ UNCHANGED vars => TypeOK'
BY DEF TypeOK, MetaOK, ControlOK, ObjectsOK, HandleOK, StagingOK, CommitOK, CompactOK, PinOK,
   vars, control, objects, running

\* Every step of the store keeps the types.
LEMMA TypeStep == TypeOK /\ [Next]_vars => TypeOK'
BY OpeningType, CrashType, LeasingType, StagingType, CommittingType, CompactingType,
   PinningType, DamageType, StutterType DEF Next

\* Every reachable state has the type that TypeOK states; among other things
\* no reader of the meta record ever finds a bound of metaRecord() violated.
THEOREM TypeCorrect == Spec => []TypeOK
BY InitType, TypeStep, PTL DEF Spec

-----------------------------------------------------------------------------
\* Chains that grow by one entry

\* The last entry and the roots of an extended manifest chain.
LEMMA AppendParts ==
  ASSUME NEW c \in Chain, NEW e \in Entry
  PROVE  /\ Append(c, e) \in Chain
         /\ Append(c, e)[Len(Append(c, e))] = e
         /\ RootOf(Append(c, e)) = e.root
         /\ GenOf(Append(c, e)) = e.generation
         /\ RootsOf(Append(c, e)) = RootsOf(c) \cup {e.root}
<1> DEFINE d == Append(c, e)
<1>1. c \in Seq(Entry) /\ Len(c) \in Nat \ {0}
  BY ChainParts DEF Chain
<1>2. d \in Seq(Entry) /\ Len(d) = Len(c) + 1 /\ d[Len(d)] = e
  BY <1>1
<1>3. \A i \in 1..Len(c) : d[i] = c[i]
  BY <1>1
<1>4. d \in Chain
  BY <1>1, <1>2 DEF Chain
<1>5. RootsOf(d) = RootsOf(c) \cup {e.root}
  <2>1. 1..Len(d) = (1..Len(c)) \cup {Len(d)}
    BY <1>1, <1>2
  <2> HIDE DEF d
  <2> QED BY <1>2, <1>3, <2>1 DEF RootsOf
<1> QED BY <1>2, <1>4, <1>5 DEF RootOf, GenOf

\* Extending a chain keeps its prefixes, its lineage and its history.
LEMMA AppendPrefixes ==
  ASSUME NEW c \in Chain, NEW e \in Entry
  PROVE  /\ \A i \in 1..Len(c) : SubSeq(Append(c, e), 1, i) = SubSeq(c, 1, i)
         /\ SubSeq(c, 1, Len(c)) = c
         /\ Lineage(Append(c, e)) = Lineage(c) \cup {Append(c, e)}
         /\ Front(Append(c, e)) = c
         /\ IsPrefix(c, c)
         /\ \A b \in Chain : IsPrefix(b, c) => IsPrefix(b, Append(c, e))
<1> DEFINE d == Append(c, e)
<1>1. c \in Seq(Entry) /\ Len(c) \in Nat \ {0}
  BY ChainParts DEF Chain
<1>2. d \in Seq(Entry) /\ Len(d) = Len(c) + 1
  BY <1>1
<1>3. ASSUME NEW i \in 1..Len(c) PROVE SubSeq(d, 1, i) = SubSeq(c, 1, i)
  <2>1. SubSeq(d, 1, i) \in Seq(Entry) /\ SubSeq(c, 1, i) \in Seq(Entry)
    BY <1>1, <1>2
  <2>2. Len(SubSeq(d, 1, i)) = i /\ Len(SubSeq(c, 1, i)) = i
    BY <1>1, <1>2
  <2>3. \A j \in 1..i : SubSeq(d, 1, i)[j] = d[j] /\ SubSeq(c, 1, i)[j] = c[j] /\ d[j] = c[j]
    BY <1>1, <1>2
  <2> QED BY <2>1, <2>2, <2>3
<1>4. SubSeq(c, 1, Len(c)) = c
  BY <1>1
<1>5. SubSeq(d, 1, Len(d)) = d
  BY <1>2
<1>6. Lineage(d) = Lineage(c) \cup {d}
  <2>1. 1..Len(d) = (1..Len(c)) \cup {Len(d)}
    BY <1>1, <1>2
  <2> HIDE DEF d
  <2> QED BY <1>3, <1>5, <2>1 DEF Lineage
<1>7. Front(d) = c
  <2>1. Len(d) - 1 = Len(c) /\ Len(c) \in 1..Len(c)
    BY <1>1, <1>2
  <2> HIDE DEF d
  <2> QED BY <1>3, <1>4, <2>1 DEF Front
<1>8. ASSUME NEW b \in Chain, IsPrefix(b, c) PROVE IsPrefix(b, d)
  <2>1. Len(b) \in 1..Len(c)
    BY <1>1, <1>8, ChainParts DEF IsPrefix
  <2> HIDE DEF d
  <2> QED BY <1>1, <1>2, <1>3, <1>8, <2>1 DEF IsPrefix
<1>9. IsPrefix(c, c)
  BY <1>1 DEF IsPrefix
<1> QED BY <1>3, <1>4, <1>6, <1>7, <1>8, <1>9

-----------------------------------------------------------------------------
\* The history: heads, writer epochs, generations and acknowledgements

\* A running commit extends the head it has read by one newer entry, under a
\* granted epoch, and no later reservation repeats its generation.
CommitInv(h) ==
  LET c == commit[h] IN
  c.pc # "idle" =>
    /\ c.next = Append(c.expected.chain, c.next[Len(c.next)])
    /\ GenOf(c.next) > GenOf(c.expected.chain)
    /\ GenOf(c.next) <= meta.generationHighWater
    /\ c.epoch # 0 /\ c.expected.headSeq <= head.headSeq

HistoryInv ==
  /\ head.writerEpoch <= meta.writerHighWater
  /\ meta.activeWriterEpoch # 0 => head.writerEpoch < meta.activeWriterEpoch
  /\ \A h \in Handles : CommitInv(h)

\* The commits under way after a step are those before it, or fewer.
CommitsStay ==
  \A h \in Handles :
    commit'[h].pc # "idle" =>
      /\ commit[h].pc # "idle"
      /\ commit'[h].next = commit[h].next /\ commit'[h].epoch = commit[h].epoch
      /\ commit'[h].expected = commit[h].expected

\* The lease, if there is one after a step, is the old one or a new one.
LeaseFresh ==
  /\ meta'.writerHighWater >= meta.writerHighWater
  /\ meta'.generationHighWater >= meta.generationHighWater
  /\ \/ meta'.activeWriterEpoch \in {0, meta.activeWriterEpoch}
     \/ meta'.activeWriterEpoch > meta.writerHighWater

\* The history invariant holds on a freshly created disk.
LEMMA HistoryInit == Init => HistoryInv
BY DEF Init, HistoryInv, CommitInv, NoCommit, GenesisHead

\* A step that leaves the head alone, makes no lease stale and starts no
\* commit keeps the history invariant.
LEMMA HistoryFrame ==
  ASSUME TypeOK, TypeOK', HistoryInv, head' = head, LeaseFresh, CommitsStay
  PROVE  HistoryInv'
<1>1. head.writerEpoch \in Nat /\ meta.writerHighWater \in Nat /\ meta'.writerHighWater \in Nat
      /\ meta.activeWriterEpoch \in Nat /\ meta'.activeWriterEpoch \in Nat
      /\ meta.generationHighWater \in Nat /\ meta'.generationHighWater \in Nat
  BY Bounds DEF TypeOK, MetaOK, Meta, ControlOK, HeadRecord
<1>2. ASSUME NEW h \in Handles PROVE CommitInv(h)'
  <2>1. commit[h].next \in Chain
    BY DEF TypeOK, CommitOK
  <2>2. GenOf(commit[h].next) \in Nat
    BY <2>1, ChainParts, Bounds
  <2>3. CASE commit'[h].pc = "idle"
    BY <2>3 DEF CommitInv
  <2>4. CASE commit'[h].pc # "idle"
    <3>1. /\ commit[h].pc # "idle"
          /\ commit'[h].next = commit[h].next /\ commit'[h].epoch = commit[h].epoch
          /\ commit'[h].expected = commit[h].expected
      BY <2>4 DEF CommitsStay
    <3>2. CommitInv(h) /\ meta'.generationHighWater >= meta.generationHighWater
      BY DEF HistoryInv, LeaseFresh
    <3>3. GenOf(commit[h].next) <= meta'.generationHighWater
      <4> HIDE DEF GenOf
      <4> QED BY <1>1, <2>2, <3>1, <3>2 DEF CommitInv
    <3> QED BY <3>1, <3>2, <3>3 DEF CommitInv, GenOf
  <2> QED BY <2>3, <2>4
<1> QED BY <1>1, <1>2 DEF HistoryInv, LeaseFresh

\* Everything but the start and the publication of a commit.
LEMMA QuietSteps ==
  ASSUME TypeOK, [Next]_vars,
         \A h \in Handles : ~CommitPublish(h) /\ \A r \in Root : ~CommitBegin(h, r)
  PROVE  head' = head /\ LeaseFresh /\ CommitsStay
<1>1. meta.writerHighWater \in Nat /\ meta.generationHighWater \in Nat
      /\ meta.activeWriterEpoch \in Nat
  BY Bounds DEF TypeOK, MetaOK, Meta
<1>2. ASSUME meta' = meta PROVE LeaseFresh
  BY <1>1, <1>2 DEF LeaseFresh
<1>3. ASSUME commit' = commit PROVE CommitsStay
  BY <1>3 DEF CommitsStay
<1>4. ASSUME NEW h \in Handles, Opening(h) PROVE head' = head /\ LeaseFresh /\ CommitsStay
  <2>1. head' = head /\ commit' = commit
    BY <1>4 DEF Opening, BeginReopenSession, RecoverActive, CloseHandle, control, running
  <2>2. CASE BeginReopenSession(h)
    BY <1>1, <1>3, <2>1, <2>2, ReopenedType DEF BeginReopenSession, LeaseFresh, TypeOK
  <2>3. CASE RecoverActive(h) \/ CloseHandle(h)
    BY <1>2, <1>3, <2>1, <2>3 DEF RecoverActive, CloseHandle, control
  <2> QED BY <1>4, <2>2, <2>3 DEF Opening
<1>5. ASSUME NEW h \in Handles, Leasing(h) PROVE head' = head /\ LeaseFresh /\ CommitsStay
  <2>1. head' = head /\ commit' = commit
    BY <1>5 DEF Leasing, BeginWriter, CloseWriter, ReserveGeneration, running
  <2>2. LeaseFresh
    <3>1. CASE BeginWriter(h)
      BY <1>1, <3>1 DEF BeginWriter, LeaseFresh, TypeOK, MetaOK, Meta
    <3>2. CASE CloseWriter(h)
      BY <1>1, <3>2 DEF CloseWriter, LeaseFresh, TypeOK, MetaOK, Meta
    <3>3. CASE ReserveGeneration(h)
      BY <1>1, <3>3 DEF ReserveGeneration, LeaseFresh, TypeOK, MetaOK, Meta
    <3> QED BY <1>5, <3>1, <3>2, <3>3 DEF Leasing
  <2> QED BY <1>3, <2>1, <2>2
<1>6. ASSUME NEW h \in Handles, Staging(h) PROVE head' = head /\ LeaseFresh /\ CommitsStay
  BY <1>2, <1>3, <1>6 DEF Staging, StageBegin, StageLand, control
<1>7. ASSUME NEW h \in Handles, Committing(h) PROVE head' = head /\ LeaseFresh /\ CommitsStay
  <2>1. CommitStage(h) \/ CommitVerify(h) \/ CommitPrune(h) \/ CommitReread(h) \/ CommitFail(h)
    BY <1>7 DEF Committing, CommitProgress
  <2>2. head' = head /\ meta' = meta
    BY <2>1 DEF CommitStage, CommitVerify, CommitPrune, CommitReread, CommitFail, control
  <2>3. commit[h].pc # "idle"
    BY <2>1 DEF CommitStage, CommitVerify, CommitPrune, CommitReread, CommitFail, CommitAt
  <2>4. (\E pc \in {"verify", "prune", "publish"} : CommitStep(h, pc)) \/ CommitDone(h)
    BY <2>1 DEF CommitStage, CommitVerify, CommitPrune, CommitReread, CommitFail
  <2>5. CommitsStay
    BY <2>3, <2>4 DEF CommitStep, CommitDone, CommitsStay, TypeOK, CommitOK, NoCommit
  <2> QED BY <1>2, <2>2, <2>5
<1>8. ASSUME NEW h \in Handles, Compacting(h) PROVE head' = head /\ LeaseFresh /\ CommitsStay
  BY <1>2, <1>3, <1>8 DEF Compacting, CompactMark, CompactMarkRefs, CompactSweep, CompactFail,
     control
<1>9. ASSUME NEW h \in Handles, Pinning(h) PROVE head' = head /\ LeaseFresh /\ CommitsStay
  <2>1. head' = head /\ commit' = commit
    BY <1>9 DEF Pinning, PinVerify, PinAdd, PinFail, UnpinRoot, control, running
  <2>2. LeaseFresh
    BY <1>1, <1>2, <1>9 DEF Pinning, PinVerify, PinAdd, PinFail, UnpinRoot, control, LeaseFresh,
       TypeOK, MetaOK, Meta
  <2> QED BY <1>3, <2>1, <2>2
<1>10. ASSUME NEW b \in Backends, Crash(b) PROVE head' = head /\ LeaseFresh /\ CommitsStay
  <2>1. CommitsStay
    BY <1>10 DEF Crash, CommitsStay, NoCommit
  <2> QED BY <1>2, <1>10, <2>1 DEF Crash, control
<1>11. CASE Damage
  BY <1>2, <1>3, <1>11 DEF Damage, DamageHead, DamageActivation, DamageObject, Damaging, running
<1>12. CASE UNCHANGED vars
  BY <1>2, <1>3, <1>12 DEF vars, control, running
<1> QED BY <1>4, <1>5, <1>6, <1>7, <1>8, <1>9, <1>10, <1>11, <1>12 DEF Next

\* What one publication does to the history.
LEMMA PublishEffect ==
  ASSUME TypeOK, HistoryInv, NEW h \in Handles, CommitPublish(h)
  PROVE  /\ head' # head /\ head'.headSeq = head.headSeq + 1
         /\ head.chain \in Chain /\ RootOf(head'.chain) \in Root
         /\ \E e \in Entry : /\ head'.chain = Append(head.chain, e)
                             /\ e.generation > GenOf(head.chain)
         /\ head'.chain = commit[h].next
         /\ head'.writerEpoch = meta.activeWriterEpoch
         /\ head'.writerEpoch > head.writerEpoch
<1>1. head = commit[h].expected /\ meta.activeWriterEpoch = commit[h].epoch
      /\ commit[h].pc = "publish"
  BY DEF CommitPublish, PublishAllowed, CommitAt
<1>2. head' = [headSeq |-> commit[h].expected.headSeq + 1, writerEpoch |-> commit[h].epoch,
               chain |-> commit[h].next]
  BY DEF CommitPublish
<1>3. commit[h].next \in Chain /\ head.chain \in Chain /\ head.headSeq \in Nat
  BY DEF TypeOK, CommitOK, ControlOK, HeadRecord
<1>4. commit[h].next = Append(head.chain, commit[h].next[Len(commit[h].next)])
      /\ GenOf(commit[h].next) > GenOf(head.chain) /\ commit[h].epoch # 0
  BY <1>1 DEF HistoryInv, CommitInv
<1>5. commit[h].next[Len(commit[h].next)] \in Entry
  BY <1>3, ChainParts
<1>6. RootOf(commit[h].next) \in Root
  BY <1>3, ChainParts
<1>7. head'.headSeq = head.headSeq + 1 /\ head' # head
  BY <1>1, <1>2, <1>3
<1> QED BY <1>1, <1>2, <1>3, <1>4, <1>5, <1>6, <1>7 DEF GenOf, HistoryInv

\* Every step of the store keeps the history invariant.
LEMMA HistoryStep == TypeOK /\ TypeOK' /\ HistoryInv /\ [Next]_vars => HistoryInv'
<1> SUFFICES ASSUME TypeOK, TypeOK', HistoryInv, [Next]_vars PROVE HistoryInv'
  OBVIOUS
<1>1. ASSUME NEW h \in Handles, NEW r \in Root, CommitBegin(h, r) PROVE HistoryInv'
  <2> DEFINE e == [generation |-> meta.pendingGeneration, root |-> r]
  <2>1. e \in Entry /\ head.chain \in Chain
    BY DEF TypeOK, MetaOK, Meta, ControlOK, HeadRecord, Entry
  <2>2. /\ commit'[h].pc # "idle" /\ commit'[h].expected = head
        /\ commit'[h].next = Append(head.chain, e)
        /\ commit'[h].epoch = meta.activeWriterEpoch
        /\ \A k \in Handles \ {h} : commit'[k] = commit[k]
    BY <1>1 DEF CommitBegin, TypeOK, CommitOK
  <2>3. meta' = meta /\ head' = head /\ meta.activeWriterEpoch # 0
        /\ meta.pendingGeneration > GenOf(head.chain)
    BY <1>1 DEF CommitBegin, control
  <2>4. CommitInv(h)'
    <3>1. GenOf(Append(head.chain, e)) = e.generation
          /\ Append(head.chain, e)[Len(Append(head.chain, e))] = e
      BY <2>1, AppendParts
    <3>2. meta.pendingGeneration <= meta.generationHighWater /\ head.headSeq \in Nat
      BY DEF TypeOK, MetaOK, ControlOK, HeadRecord
    <3> HIDE DEF e
    <3>3. e.generation = meta.pendingGeneration
      BY DEF e
    <3> QED BY <2>2, <2>3, <3>1, <3>2, <3>3 DEF CommitInv, GenOf
  <2>5. \A k \in Handles \ {h} : CommitInv(k)'
    BY <2>2, <2>3 DEF HistoryInv, CommitInv
  <2> QED BY <2>3, <2>4, <2>5 DEF HistoryInv
<1>2. ASSUME NEW h \in Handles, CommitPublish(h) PROVE HistoryInv'
  <2>1. head'.headSeq = head.headSeq + 1 /\ head'.writerEpoch = meta.activeWriterEpoch
    BY <1>2, PublishEffect
  <2>2. meta'.activeWriterEpoch = 0 /\ meta'.writerHighWater = meta.writerHighWater
        /\ meta'.generationHighWater = meta.generationHighWater
    BY <1>2, PublishedType DEF CommitPublish, TypeOK
  <2>3. CommitsStay
    BY <1>2 DEF CommitPublish, CommitAt, CommitStep, CommitsStay, TypeOK, CommitOK
  <2>4. head.headSeq \in Nat /\ \A k \in Handles : commit[k].expected.headSeq \in Nat
    BY DEF TypeOK, ControlOK, CommitOK, HeadRecord
  <2>5. ASSUME NEW k \in Handles PROVE CommitInv(k)'
    <3>1. CASE commit'[k].pc = "idle"
      BY <3>1 DEF CommitInv
    <3>2. CASE commit'[k].pc # "idle"
      <4>1. /\ commit[k].pc # "idle"
            /\ commit'[k].next = commit[k].next /\ commit'[k].epoch = commit[k].epoch
            /\ commit'[k].expected = commit[k].expected
        BY <2>3, <3>2 DEF CommitsStay
      <4>2. CommitInv(k) /\ commit[k].expected.headSeq <= head'.headSeq
        BY <2>1, <2>4, <4>1 DEF HistoryInv, CommitInv
      <4> QED BY <2>2, <4>1, <4>2 DEF CommitInv, GenOf
    <3> QED BY <3>1, <3>2
  <2>6. meta.activeWriterEpoch <= meta.writerHighWater
    BY DEF TypeOK, MetaOK
  <2> QED BY <2>1, <2>2, <2>5, <2>6 DEF HistoryInv
<1>3. CASE \A h \in Handles : ~CommitPublish(h) /\ \A r \in Root : ~CommitBegin(h, r)
  BY <1>3, QuietSteps, HistoryFrame
<1> QED BY <1>1, <1>2, <1>3

\* No step drops a head that some commit() reported durable.
LEMMA AckedStep ==
  TypeOK /\ HistoryInv /\ AckedDurable /\ [Next]_vars => AckedDurable'
<1> SUFFICES ASSUME TypeOK, HistoryInv, AckedDurable, [Next]_vars PROVE AckedDurable'
  OBVIOUS
<1>1. head.chain \in Chain /\ \A a \in acked : a.chain \in Chain
  BY DEF TypeOK, ControlOK, HeadRecord
<1>2. ASSUME NEW h \in Handles, CommitPublish(h) PROVE AckedDurable'
  <2>1. acked' = acked
    BY <1>2 DEF CommitPublish
  <2>2. PICK e \in Entry : head'.chain = Append(head.chain, e)
    BY <1>2, PublishEffect
  <2> QED BY <1>1, <2>1, <2>2, AppendPrefixes DEF AckedDurable
<1>3. ASSUME NEW h \in Handles, CommitReread(h) PROVE AckedDurable'
  <2>1. acked' = acked \cup {head} /\ head' = head
    BY <1>3 DEF CommitReread, control
  <2>2. IsPrefix(head.chain, head.chain)
    <3>1. PICK e : e \in Entry
      BY <1>1, ChainParts
    <3> QED BY <1>1, <3>1, AppendPrefixes
  <2> QED BY <2>1, <2>2 DEF AckedDurable
<1>4. ASSUME NEW h \in Handles,
             Committing(h), ~CommitPublish(h), ~CommitReread(h)
      PROVE  head' = head /\ acked' = acked
  BY <1>4 DEF Committing, CommitProgress, CommitBegin, CommitStage, CommitVerify, CommitPrune,
     CommitFail, control
<1>5. ASSUME NEW h \in Handles, Opening(h) \/ Leasing(h) \/ Staging(h)
      PROVE  head' = head /\ acked' = acked
  BY <1>5 DEF Opening, BeginReopenSession, RecoverActive, CloseHandle, Leasing, BeginWriter,
     CloseWriter, ReserveGeneration, Staging, StageBegin, StageLand, control
<1>6. ASSUME NEW h \in Handles, Compacting(h) \/ Pinning(h)
      PROVE  head' = head /\ acked' = acked
  BY <1>6 DEF Compacting, CompactMark, CompactMarkRefs, CompactSweep, CompactFail, Pinning,
     PinVerify, PinAdd, PinFail, UnpinRoot, control
<1>7. ASSUME (\E b \in Backends : Crash(b)) \/ Damage \/ UNCHANGED vars
      PROVE  head' = head /\ acked' = acked
  BY <1>7 DEF Crash, Damage, DamageHead, DamageActivation, DamageObject, Damaging, vars, control
<1>8. CASE head' = head /\ acked' = acked
  BY <1>8 DEF AckedDurable
<1> QED BY <1>2, <1>3, <1>4, <1>5, <1>6, <1>7, <1>8 DEF Next

\* What some commit() has reported durable stays in the history of the head,
\* for any number of tabs, sessions and interrupted operations.
THEOREM AckedStaysDurable == Spec => []AckedDurable
<1>1. Init => AckedDurable
  BY DEF Init, AckedDurable
<1>2. Init => TypeOK /\ HistoryInv
  BY InitType, HistoryInit
<1>3. TypeOK /\ HistoryInv /\ AckedDurable /\ [Next]_vars
        => (TypeOK /\ HistoryInv /\ AckedDurable)'
  BY TypeStep, HistoryStep, AckedStep
<1> QED BY <1>1, <1>2, <1>3, PTL DEF Spec

-----------------------------------------------------------------------------
\* The root references

\* No step stores a reference that assertIssuedRootReference rejects.
LEMMA RefsStep ==
  TypeOK /\ TypeOK' /\ RefsAdmissible /\ [Next]_vars => RefsAdmissible'
<1> SUFFICES ASSUME TypeOK, TypeOK', RefsAdmissible, [Next]_vars PROVE RefsAdmissible'
  OBVIOUS
<1> DEFINE Steady == /\ meta'.refHighWater = meta.refHighWater
                     /\ meta'.sessionHighWater = meta.sessionHighWater
                     /\ meta'.activeSession = meta.activeSession
                     /\ refs' \subseteq refs
<1>1. CASE Steady
  BY <1>1 DEF RefsAdmissible, RefsIssued
<1>2. meta' = meta /\ refs' \subseteq refs => Steady
  OBVIOUS
<1>3. ASSUME NEW h \in Handles, Opening(h) PROVE RefsAdmissible'
  <2>1. CASE BeginReopenSession(h)
    <3>1. /\ meta'.refHighWater = meta.refHighWater
          /\ meta'.sessionHighWater = meta.sessionHighWater + 1
      BY <2>1, ReopenedType DEF BeginReopenSession, TypeOK
    <3>2. refs' = {x \in refs : x.kind # "snapshot"}
      BY <2>1 DEF BeginReopenSession, RefsAfterReopen
    <3>3. meta.sessionHighWater \in Nat /\ \A x \in refs : x.creatorSession \in Nat
      BY Bounds DEF TypeOK, MetaOK, Meta, ControlOK, Ref
    <3> QED BY <3>1, <3>2, <3>3 DEF RefsAdmissible, RefsIssued
  <2>2. CASE RecoverActive(h) \/ CloseHandle(h)
    BY <1>1, <2>2 DEF RecoverActive, CloseHandle, control
  <2> QED BY <1>3, <2>1, <2>2 DEF Opening
<1>4. ASSUME NEW h \in Handles, Leasing(h) PROVE Steady
  BY <1>4 DEF Leasing, BeginWriter, CloseWriter, ReserveGeneration, TypeOK, MetaOK, Meta
<1>5. ASSUME NEW h \in Handles, Committing(h) PROVE Steady
  <2>1. CASE CommitPublish(h)
    BY <2>1, PublishedType DEF CommitPublish, TypeOK
  <2>2. CASE ~CommitPublish(h)
    BY <1>5, <2>2 DEF Committing, CommitProgress, CommitBegin, CommitStage, CommitVerify,
       CommitPrune, CommitReread, CommitFail, control
  <2> QED BY <2>1, <2>2
<1>6. ASSUME NEW h \in Handles, Staging(h) \/ Compacting(h) PROVE Steady
  BY <1>6 DEF Staging, StageBegin, StageLand, Compacting, CompactMark, CompactMarkRefs,
     CompactSweep, CompactFail, control
<1>7. ASSUME NEW h \in Handles, Pinning(h) PROVE RefsAdmissible'
  <2>1. ASSUME NEW k \in Kinds, PinAdd(h, k) PROVE RefsAdmissible'
    <3> DEFINE n == meta.refHighWater + 1
               new == [sequence |-> n, kind |-> k, root |-> pin[h].root,
                       creatorSession |-> IF k = "snapshot" THEN handle[h].session ELSE 0]
    <3>1. refs' = refs \cup {new} /\ meta'.refHighWater = n
          /\ meta'.sessionHighWater = meta.sessionHighWater
          /\ meta'.activeSession = meta.activeSession
      BY <2>1 DEF PinAdd, TypeOK, MetaOK, Meta
    <3>2. meta.activeSession = handle[h].session
      BY <2>1 DEF PinAdd, Current, SessionHeld
    <3>3. /\ meta.refHighWater \in Nat /\ meta.activeSession = meta.sessionHighWater
          /\ meta.sessionHighWater \in Nat
          /\ \A x \in refs : x.sequence \in Nat /\ x.sequence <= meta.refHighWater
      BY Bounds DEF TypeOK, MetaOK, Meta, ControlOK, Ref, RefsAdmissible, RefsIssued
    <3>4. /\ new.sequence = n /\ new.kind = k
          /\ new.creatorSession = IF k = "snapshot" THEN meta.activeSession ELSE 0
      BY <3>2
    <3> HIDE DEF new
    <3> QED BY <3>1, <3>3, <3>4 DEF RefsAdmissible, RefsIssued
  <2>2. ASSUME NEW r \in Root, PinVerify(h, r) PROVE Steady
    BY <2>2 DEF PinVerify, control
  <2>3. CASE PinFail(h)
    BY <1>1, <2>3 DEF PinFail, control
  <2>4. ASSUME NEW s \in 1..MaxRef, UnpinRoot(h, s) PROVE Steady
    BY <2>4 DEF UnpinRoot
  <2> QED BY <1>1, <1>7, <2>1, <2>2, <2>3, <2>4 DEF Pinning
<1>8. ASSUME (\E b \in Backends : Crash(b)) \/ Damage \/ UNCHANGED vars PROVE Steady
  BY <1>8 DEF Crash, Damage, DamageHead, DamageActivation, DamageObject, Damaging, vars, control
<1> QED BY <1>1, <1>3, <1>4, <1>5, <1>6, <1>7, <1>8 DEF Next

\* No sequence of calls stores a root reference that the next reopen,
\* collection or unpin would reject, nor two references with one id.
THEOREM RefsStayAdmissible == Spec => []RefsAdmissible
<1>1. Init => TypeOK /\ RefsAdmissible
  BY InitType DEF Init, RefsAdmissible, RefsIssued
<1>2. TypeOK /\ RefsAdmissible /\ [Next]_vars => (TypeOK /\ RefsAdmissible)'
  BY TypeStep, RefsStep
<1> QED BY <1>1, <1>2, PTL DEF Spec

-----------------------------------------------------------------------------
\* The activation log

\* The log is the run of head sequences lo..head.headSeq, and a commit that
\* is about to publish on the present head has room for one more.
LogSpan(lo) ==
  /\ lo \in Nat /\ lo <= head.headSeq
  /\ {a.headSeq : a \in activations} = lo..head.headSeq
  /\ \A a, b \in activations : a.headSeq = b.headSeq => a = b
  /\ head \in activations
  /\ head.headSeq - lo < MaxActivations
  /\ head.headSeq > 1 => lo < head.headSeq
  /\ \A h \in Handles :
       commit[h].pc = "publish" /\ head = commit[h].expected =>
         head.headSeq - lo + 1 < MaxActivations
LogInv == damage = 0 => \E lo \in Nat : LogSpan(lo)

\* The length of an activation log that is an unbroken run of sequences.
LEMMA LogSize ==
  ASSUME TypeOK, NEW lo \in Nat, LogSpan(lo)
  PROVE  /\ Cardinality(activations) = head.headSeq - lo + 1
         /\ head.headSeq \in Nat /\ lo <= head.headSeq
<1> DEFINE f == [a \in activations |-> a.headSeq]
           H == head.headSeq
<1>1. H \in Nat /\ lo <= H /\ lo \in Nat
  BY DEF TypeOK, ControlOK, HeadRecord, LogSpan
<1>2. f \in Bijection(activations, lo..H)
  <2>1. {a.headSeq : a \in activations} = lo..H
        /\ \A a, b \in activations : a.headSeq = b.headSeq => a = b
    BY DEF LogSpan
  <2>2. f \in [activations -> lo..H]
    BY <2>1
  <2>3. \A t \in lo..H : \E a \in activations : f[a] = t
    BY <2>1
  <2>4. \A a, b \in activations : f[a] = f[b] => a = b
    BY <2>1
  <2> HIDE DEF f
  <2> QED BY <2>2, <2>3, <2>4, Fun_IsBij
<1>3. ExistsBijection(activations, lo..H)
  BY <1>2 DEF ExistsBijection
<1>4. ExistsBijection(lo..H, activations)
  BY <1>3, Fun_ExistsBijSymmetric
<1>5. IsFiniteSet(lo..H) /\ Cardinality(lo..H) = H - lo + 1
  <2> HIDE DEF H
  <2>1. lo \in Int /\ H \in Int /\ ~(lo > H)
    BY <1>1
  <2>2. IsFiniteSet(lo..H) /\ Cardinality(lo..H) = IF lo > H THEN 0 ELSE H - lo + 1
    BY <2>1, FS_Interval
  <2> QED BY <2>1, <2>2
<1>6. Cardinality(activations) = Cardinality(lo..H)
  BY <1>4, <1>5, FS_Bijection
<1> QED BY <1>1, <1>5, <1>6

\* No publication is under way after the step that was not before it.
NoNewPublish == \A h \in Handles : commit'[h].pc = "publish" => commit'[h] = commit[h]

\* A step that leaves the activation log and the head alone keeps the run.
LEMMA SpanFrame ==
  ASSUME NEW lo \in Nat, LogSpan(lo), activations' = activations, head' = head, NoNewPublish
  PROVE  LogSpan(lo)'
BY DEF LogSpan, NoNewPublish

\* prepareActivationSlot keeps the run unbroken, whoever still runs it.
LEMMA SpanPrune ==
  ASSUME TypeOK, TypeOK', HistoryInv, NEW lo \in Nat, LogSpan(lo),
         NEW h \in Handles, CommitPrune(h)
  PROVE  \E l \in Nat : LogSpan(l)'
<1> DEFINE H == head.headSeq
           seq == commit[h].expected.headSeq
<1>2. LogSpan(lo)
  OBVIOUS
<1>3. Cardinality(activations) = H - lo + 1 /\ H \in Nat /\ lo <= H
  BY <1>2, LogSize
<1>4. /\ head' = head /\ commit[h].pc = "prune"
      /\ \A a \in activations : a.headSeq # seq + 1
      /\ PruneLog(seq)
      /\ \A k \in Handles \ {h} : commit'[k] = commit[k]
      /\ commit'[h].pc = "publish" => commit'[h].expected = commit[h].expected
  BY DEF CommitPrune, CommitAt, CommitStep, CommitDone, TypeOK, CommitOK, NoCommit
<1>5. seq <= H /\ seq \in Nat
  BY <1>4 DEF HistoryInv, CommitInv, TypeOK, CommitOK, HeadRecord
<1>6. MaxActivations \in Nat /\ MaxActivations >= 3
  BY BoundAssumption
<1>7. CASE Cardinality(activations) < MaxActivations
  <2>1. activations' = activations /\ H - lo + 1 < MaxActivations
    BY <1>3, <1>4, <1>7 DEF PruneLog
  <2>2. LogSpan(lo)'
    BY <1>2, <1>4, <2>1 DEF LogSpan
  <2> QED BY <2>2
<1>8. CASE ~(Cardinality(activations) < MaxActivations)
  <2>1. PICK a \in Disposable(seq) : /\ \A b \in Disposable(seq) : a.headSeq <= b.headSeq
                                    /\ activations' = activations \ {a}
    BY <1>4, <1>8 DEF PruneLog
  <2>2. H - lo + 1 >= 3 /\ H - lo < MaxActivations
    BY <1>2, <1>3, <1>6, <1>8 DEF LogSpan
  <2>3. \A i \in lo..H : \E b \in activations : b.headSeq = i
    <3>1. {b.headSeq : b \in activations} = lo..H
      BY <1>2 DEF LogSpan
    <3> QED BY <3>1
  <2>4. \A b \in activations : b.headSeq \in lo..H
    BY <1>2 DEF LogSpan
  <2>5. seq + 1 \notin lo..H
    BY <1>4, <2>3
  <2>6. lo # seq /\ lo # seq - 1
    BY <1>3, <1>5, <2>2, <2>5
  <2>7. PICK b \in activations : b.headSeq = lo
    BY <1>3, <2>3
  <2>8. a \in activations /\ a.headSeq = lo
    <3>1. b \in Disposable(seq)
      BY <2>6, <2>7 DEF Disposable
    <3>2. a \in activations /\ a.headSeq <= lo
      BY <2>1, <2>7, <3>1 DEF Disposable
    <3> QED BY <1>3, <2>4, <3>2
  <2>9. {x.headSeq : x \in activations'} = (lo + 1)..H
    <3>1. \A x \in activations' : x \in activations /\ x # a
      BY <2>1
    <3>2. \A x \in activations' : x.headSeq # lo
      BY <1>2, <2>8, <3>1 DEF LogSpan
    <3>3. \A x \in activations' : x.headSeq \in (lo + 1)..H
      BY <1>3, <2>4, <3>1, <3>2
    <3>4. \A i \in (lo + 1)..H : \E x \in activations' : x.headSeq = i
      <4> SUFFICES ASSUME NEW i \in (lo + 1)..H PROVE \E x \in activations' : x.headSeq = i
        OBVIOUS
      <4>1. i \in lo..H /\ i # lo
        BY <1>3
      <4>2. PICK x \in activations : x.headSeq = i
        BY <2>3, <4>1
      <4> QED BY <2>1, <2>8, <4>1, <4>2
    <3> QED BY <3>3, <3>4
  <2>10. head \in activations' /\ lo + 1 < H
    <3>1. lo + 1 < H
      BY <1>3, <2>2
    <3>2. a # head
      BY <1>3, <2>8, <3>1
    <3> QED BY <1>2, <2>1, <3>1, <3>2 DEF LogSpan
  <2>11. H - (lo + 1) + 1 < MaxActivations /\ lo + 1 \in Nat
    BY <1>3, <1>6, <2>2
  <2>12. LogSpan(lo + 1)'
    BY <1>2, <1>3, <1>4, <1>6, <2>1, <2>9, <2>10, <2>11 DEF LogSpan
  <2> QED BY <2>11, <2>12
<1> QED BY <1>7, <1>8

\* publishHeadAndActivation appends to the run and spares the predecessor.
LEMMA LogPublish ==
  ASSUME TypeOK, TypeOK', HistoryInv, LogInv, NEW h \in Handles, CommitPublish(h)
  PROVE  LogInv'
<1> DEFINE H == head.headSeq
<1>1. SUFFICES ASSUME damage = 0 PROVE \E lo \in Nat : LogSpan(lo)'
  BY DEF CommitPublish, LogInv
<1>2. PICK lo \in Nat : LogSpan(lo)
  BY <1>1 DEF LogInv
<1>3. H \in Nat /\ lo <= H /\ MaxActivations \in Nat
  BY <1>2, LogSize, BoundAssumption
<1>4. head'.headSeq = H + 1
  BY PublishEffect
<1>5. /\ commit[h].pc = "publish" /\ head = commit[h].expected
      /\ activations' = {a \in activations : a.headSeq # head'.headSeq} \cup {head'}
  BY DEF CommitPublish, CommitAt, PublishAllowed
<1>6. H - lo + 1 < MaxActivations
  BY <1>2, <1>5 DEF LogSpan
<1>7. {a.headSeq : a \in activations} = lo..H
      /\ \A a, b \in activations : a.headSeq = b.headSeq => a = b
  BY <1>2 DEF LogSpan
<1>8. activations' = activations \cup {head'}
  <2>1. \A a \in activations : a.headSeq # head'.headSeq
    BY <1>3, <1>4, <1>7
  <2> QED BY <1>5, <2>1
<1>9. {a.headSeq : a \in activations'} = lo..(H + 1)
  <2>1. {a.headSeq : a \in activations'} = {a.headSeq : a \in activations} \cup {H + 1}
    BY <1>4, <1>8
  <2>2. lo..(H + 1) = (lo..H) \cup {H + 1}
    BY <1>2, <1>3
  <2> QED BY <1>7, <2>1, <2>2
<1>10. \A a, b \in activations' : a.headSeq = b.headSeq => a = b
  <2>1. \A a \in activations : a.headSeq # head'.headSeq
    BY <1>3, <1>4, <1>7
  <2> QED BY <1>7, <1>8, <2>1
<1>11. ASSUME NEW k \in Handles, commit'[k].pc = "publish", head' = commit'[k].expected
       PROVE  FALSE
  <2>1. k # h /\ commit'[k] = commit[k]
    BY <1>11 DEF CommitPublish, CommitAt, CommitStep, TypeOK, CommitOK
  <2>2. commit[k].expected.headSeq <= H /\ commit[k].expected.headSeq \in Nat
    BY <1>11, <2>1 DEF HistoryInv, CommitInv, TypeOK, CommitOK, HeadRecord
  <2> QED BY <1>3, <1>4, <1>11, <2>1, <2>2
<1>12. LogSpan(lo)'
  BY <1>3, <1>4, <1>6, <1>8, <1>9, <1>10, <1>11 DEF LogSpan
<1> QED BY <1>12

\* The steps of a commit that neither prune nor publish.
LEMMA CommitLog ==
  ASSUME TypeOK, NEW h \in Handles, Committing(h), ~CommitPrune(h), ~CommitPublish(h)
  PROVE  damage' = damage /\ activations' = activations /\ head' = head /\ NoNewPublish
<1>1. damage' = damage /\ activations' = activations /\ head' = head
  BY DEF Committing, CommitProgress, CommitBegin, CommitStage, CommitVerify, CommitReread,
     CommitFail, control
<1>2. \E r \in [pc : {"idle", "stage", "verify", "prune", "reread"}, expected : HeadRecord,
                next : Chain, epoch : 0..MaxWriter] : commit' = [commit EXCEPT ![h] = r]
  <2>1. CASE \E r \in Root : CommitBegin(h, r)
    <3>1. PICK r \in Root : CommitBegin(h, r)
      BY <2>1
    <3>2. commit'[h] = [pc |-> "stage", expected |-> head, epoch |-> meta.activeWriterEpoch,
                        next |-> Append(head.chain,
                                   [generation |-> meta.pendingGeneration, root |-> r])]
          /\ commit' = [commit EXCEPT ![h] = commit'[h]]
      BY <3>1 DEF CommitBegin, TypeOK, CommitOK
    <3>3. head \in HeadRecord /\ meta.activeWriterEpoch \in 0..MaxWriter
          /\ head.chain \in Chain /\ meta.pendingGeneration \in 0..MaxGeneration
      BY DEF TypeOK, MetaOK, Meta, ControlOK, HeadRecord
    <3>4. Append(head.chain, [generation |-> meta.pendingGeneration, root |-> r]) \in Chain
      BY <3>3, AppendType
    <3> DEFINE c == Append(head.chain, [generation |-> meta.pendingGeneration, root |-> r])
    <3> HIDE DEF c
    <3>5. commit'[h] = [pc |-> "stage", expected |-> head, epoch |-> meta.activeWriterEpoch,
                        next |-> c]
      BY <3>2 DEF c
    <3>6. c \in Chain
      BY <3>4 DEF c
    <3> QED BY <3>2, <3>3, <3>5, <3>6
  <2>2. CASE CommitStage(h)
    <3>1. [commit[h] EXCEPT !.pc = "verify"]
            \in [pc : {"idle", "stage", "verify", "prune", "reread"},
                expected : HeadRecord, next : Chain, epoch : 0..MaxWriter]
      BY DEF TypeOK, CommitOK
    <3>2. commit' = [commit EXCEPT ![h] = [commit[h] EXCEPT !.pc = "verify"]]
      BY <2>2 DEF CommitStage, CommitStep
    <3> QED BY <3>1, <3>2
  <2>3. CASE CommitVerify(h)
    <3>1. [commit[h] EXCEPT !.pc = "prune"]
            \in [pc : {"idle", "stage", "verify", "prune", "reread"},
                expected : HeadRecord, next : Chain, epoch : 0..MaxWriter]
      BY DEF TypeOK, CommitOK
    <3>2. commit' = [commit EXCEPT ![h] = [commit[h] EXCEPT !.pc = "prune"]]
      BY <2>3 DEF CommitVerify, CommitStep
    <3> QED BY <3>1, <3>2
  <2>4. CASE CommitReread(h) \/ CommitFail(h)
    BY <2>4, IdleTypes DEF CommitReread, CommitFail, CommitDone, NoCommit
  <2> QED BY <2>1, <2>2, <2>3, <2>4 DEF Committing, CommitProgress
<1>3. NoNewPublish
  BY <1>2 DEF TypeOK, CommitOK, NoNewPublish
<1> QED BY <1>1, <1>3

\* Only pruning, publishing and damage touch the activation log.
LEMMA LogSteps ==
  ASSUME TypeOK, [Next]_vars, ~Damage,
         \A h \in Handles : ~CommitPrune(h) /\ ~CommitPublish(h)
  PROVE  damage' = damage /\ activations' = activations /\ head' = head /\ NoNewPublish
<1>1. ASSUME NEW h \in Handles, Opening(h) \/ Leasing(h) \/ Staging(h)
      PROVE  /\ damage' = damage /\ activations' = activations /\ head' = head
             /\ commit' = commit
  BY <1>1 DEF Opening, BeginReopenSession, RecoverActive, CloseHandle, Leasing, BeginWriter,
     CloseWriter, ReserveGeneration, Staging, StageBegin, StageLand, control, running
<1>2. ASSUME NEW h \in Handles, Compacting(h) \/ Pinning(h)
      PROVE  /\ damage' = damage /\ activations' = activations /\ head' = head
             /\ commit' = commit
  BY <1>2 DEF Compacting, CompactMark, CompactMarkRefs, CompactSweep, CompactFail, Pinning,
     PinVerify, PinAdd, PinFail, UnpinRoot, control, running
<1>3. ASSUME NEW b \in Backends, Crash(b)
      PROVE  damage' = damage /\ activations' = activations /\ head' = head /\ NoNewPublish
  <2>1. NoNewPublish
    BY <1>3 DEF Crash, NoCommit, NoNewPublish
  <2> QED BY <1>3, <2>1 DEF Crash, control
<1>4. CASE UNCHANGED vars
  BY <1>4 DEF vars, control, running, NoNewPublish
<1> QED BY <1>1, <1>2, <1>3, <1>4, CommitLog DEF Next, NoNewPublish

\* Every step of the store keeps the log invariant.
LEMMA LogStep == TypeOK /\ TypeOK' /\ HistoryInv /\ LogInv /\ [Next]_vars => LogInv'
<1> SUFFICES ASSUME TypeOK, TypeOK', HistoryInv, LogInv, [Next]_vars PROVE LogInv'
  OBVIOUS
<1>1. ASSUME NEW h \in Handles, CommitPrune(h) PROVE LogInv'
  <2>1. SUFFICES ASSUME damage = 0 PROVE \E l \in Nat : LogSpan(l)'
    BY <1>1 DEF CommitPrune, LogInv
  <2> QED BY <1>1, <2>1, SpanPrune DEF LogInv
<1>2. CASE Damage
  <2>1. damage' # 0
    BY <1>2 DEF Damage, DamageHead, DamageActivation, DamageObject, Damaging, TypeOK, ControlOK
  <2> QED BY <2>1 DEF LogInv
<1>3. CASE ~Damage /\ \A h \in Handles : ~CommitPrune(h) /\ ~CommitPublish(h)
  <2>1. damage' = damage /\ activations' = activations /\ head' = head /\ NoNewPublish
    BY <1>3, LogSteps
  <2>2. SUFFICES ASSUME damage = 0 PROVE \E l \in Nat : LogSpan(l)'
    BY <2>1 DEF LogInv
  <2> QED BY <2>1, <2>2, SpanFrame DEF LogInv
<1> QED BY <1>1, <1>2, <1>3, LogPublish

-----------------------------------------------------------------------------
\* The object stores

\* Every stored tree is complete, and the trees and manifests named by the
\* history of the head and by the pins are stored.
Stored ==
  /\ headOk
  /\ Lineage(head.chain) \subseteq manifests /\ RootsOf(head.chain) \subseteq nodes
  /\ \A r \in nodes : r \subseteq pages
  /\ \A x \in refs : x.root \in nodes

\* Whoever is about to store pages above a base tree, to publish or to sweep
\* has what it needs for as long as the control record admits it.
ShownKnown(h) == Open(h) => RootOf(handle[h].shown.chain) \in RootsOf(head.chain)
BatchBased(h) ==
  \A s \in staging[h] : \E r \in RootsOf(head.chain) : s.root \subseteq s.pages \cup r
CandidateBased(h) ==
  commit[h].pc # "idle" => RootOf(commit[h].expected.chain) \in RootsOf(head.chain)
CandidateStored(h) ==
  LET c == commit[h] IN
  c.pc \in {"verify", "prune", "publish"} /\ meta.pendingGeneration = GenOf(c.next) =>
    c.next \in manifests /\ RootOf(c.next) \in nodes
MarkComplete(h) ==
  LET c == compact[h] IN
  c.pc # "idle" =>
    /\ RootsOf(c.marked.chain) \subseteq c.keep /\ c.epoch # 0
    /\ c.pc = "sweep" => \A x \in c.seen : x.root \in c.keep
SlotOK(h) == /\ ShownKnown(h) /\ BatchBased(h) /\ CandidateBased(h)
             /\ CandidateStored(h) /\ MarkComplete(h)

ObjectInv == damage = 0 => Stored /\ \A h \in Handles : SlotOK(h)

\* A pending generation after a step is the old one or a new one.
PendingFresh == \/ meta'.pendingGeneration \in {0, meta.pendingGeneration}
                \/ meta'.pendingGeneration > meta.generationHighWater

\* The object invariant holds on a freshly created disk.
LEMMA ObjectInit == Init => ObjectInv
<1> SUFFICES ASSUME Init PROVE ObjectInv
  OBVIOUS
<1>1. RootsOf(GenesisChain) = {{}} /\ Lineage(GenesisChain) = {GenesisChain}
  <2>1. Len(GenesisChain) = 1 /\ 1..1 = {1} /\ GenesisChain[1].root = {}
    BY DEF GenesisChain
  <2>2. SubSeq(GenesisChain, 1, 1) = GenesisChain
    <3>1. PICK e : e \in Entry
      BY GenesisType, ChainParts
    <3> QED BY <3>1, GenesisType, AppendPrefixes
  <2> QED BY <2>1, <2>2 DEF RootsOf, Lineage
<1>2. RootOf(GenesisChain) = {}
  BY DEF GenesisChain, RootOf
<1>3. Stored
  BY <1>1 DEF Init, Stored, GenesisHead
<1>4. ASSUME NEW h \in Handles PROVE SlotOK(h)
  <2>1. handle[h].shown = GenesisHead
    BY DEF Init, NoHandle
  <2>2. ShownKnown(h)
    BY <1>1, <1>2, <2>1 DEF Init, ShownKnown, GenesisHead
  <2> QED BY <2>2 DEF Init, SlotOK, BatchBased, CandidateBased, CandidateStored, MarkComplete,
             NoCommit, NoCompact
<1> QED BY <1>3, <1>4 DEF ObjectInv

\* The generation of a commit's candidate was issued by the counter.
LEMMA CandidateGen ==
  ASSUME TypeOK, HistoryInv, NEW h \in Handles, commit[h].pc # "idle"
  PROVE  /\ GenOf(commit[h].next) \in Nat \ {0}
         /\ GenOf(commit[h].next) <= meta.generationHighWater
<1>1. commit[h].next \in Chain /\ commit[h].expected.chain \in Chain
  BY DEF TypeOK, CommitOK, HeadRecord
<1>2. GenOf(commit[h].next) \in Nat /\ GenOf(commit[h].expected.chain) \in Nat
  BY <1>1, ChainParts, Bounds
<1>3. GenOf(commit[h].next) > GenOf(commit[h].expected.chain)
      /\ GenOf(commit[h].next) <= meta.generationHighWater
  BY DEF HistoryInv, CommitInv
<1> QED BY <1>2, <1>3

\* A candidate stays stored unless a new reservation or a sweep voids it.
LEMMA CandidateFrame ==
  ASSUME TypeOK, TypeOK', HistoryInv, NEW h \in Handles, CandidateStored(h), PendingFresh,
         nodes \subseteq nodes', manifests \subseteq manifests',
         commit'[h].pc \in {"verify", "prune", "publish"} =>
           commit[h].pc \in {"verify", "prune", "publish"} /\ commit'[h].next = commit[h].next
  PROVE  CandidateStored(h)'
<1> SUFFICES ASSUME commit'[h].pc \in {"verify", "prune", "publish"},
                    meta'.pendingGeneration = GenOf(commit'[h].next)
             PROVE  commit'[h].next \in manifests' /\ RootOf(commit'[h].next) \in nodes'
  BY DEF CandidateStored, GenOf, RootOf
<1>1. commit[h].pc \in {"verify", "prune", "publish"} /\ commit'[h].next = commit[h].next
  OBVIOUS
<1>2. GenOf(commit[h].next) \in Nat \ {0} /\ GenOf(commit[h].next) <= meta.generationHighWater
  BY <1>1, CandidateGen
<1>3. meta.generationHighWater \in Nat
  BY Bounds DEF TypeOK, MetaOK, Meta
<1>4. meta.pendingGeneration = GenOf(commit[h].next)
  <2>1. meta'.pendingGeneration = GenOf(commit[h].next)
    BY <1>1 DEF GenOf
  <2> QED BY <1>2, <1>3, <2>1 DEF PendingFresh
<1> QED BY <1>1, <1>4 DEF CandidateStored

\* A step that keeps the head and adds objects keeps the object invariant,
\* if it keeps the obligations of the running calls.
LEMMA ObjectFrame ==
  ASSUME TypeOK, TypeOK', HistoryInv, ObjectInv, damage' = 0 => damage = 0,
         head' = head, headOk' = headOk, PendingFresh,
         nodes \subseteq nodes', manifests \subseteq manifests',
         damage = 0 => /\ \A r \in nodes' : r \subseteq pages'
                       /\ \A x \in refs' : x.root \in nodes'
                       /\ \A h \in Handles :
                            /\ ShownKnown(h)' /\ BatchBased(h)' /\ MarkComplete(h)'
                            /\ CandidateBased(h)'
                            /\ \/ CandidateStored(h)'
                               \/ commit'[h].pc \in {"verify", "prune", "publish"} =>
                                    /\ commit[h].pc \in {"verify", "prune", "publish"}
                                    /\ commit'[h].next = commit[h].next
  PROVE  ObjectInv'
<1> SUFFICES ASSUME damage = 0 PROVE Stored' /\ \A h \in Handles : SlotOK(h)'
  BY DEF ObjectInv
<1>1. Stored'
  BY DEF ObjectInv, Stored
<1>2. ASSUME NEW h \in Handles PROVE SlotOK(h)'
  <2>1. CandidateStored(h)'
    BY CandidateFrame DEF ObjectInv, SlotOK
  <2> QED BY <2>1 DEF SlotOK
<1> QED BY <1>1, <1>2

\* Without damage the head reads back, so a reopen never falls back.
LEMMA HeadReadable ==
  ASSUME TypeOK, LogInv, ObjectInv, damage = 0
  PROVE  ActiveReadable /\ \A r \in RootsOf(head.chain) : Closed(r)
<1>1. head \in activations
  BY DEF LogInv, LogSpan
<1>2. \A r \in RootsOf(head.chain) : Closed(r)
  BY DEF ObjectInv, Stored, Closed
<1>3. RootOf(head.chain) \in RootsOf(head.chain)
  BY ChainParts DEF TypeOK, ControlOK, HeadRecord
<1> QED BY <1>1, <1>2, <1>3 DEF ObjectInv, Stored, ActiveReadable, Intact

\* Opening, recovering and closing keep the object invariant.
LEMMA ObjectOpening ==
  ASSUME TypeOK, TypeOK', HistoryInv, LogInv, ObjectInv, NEW h \in Handles, Opening(h)
  PROVE  ObjectInv'
<1>1. /\ damage' = damage /\ head' = head /\ headOk' = headOk
      /\ nodes' = nodes /\ manifests' = manifests /\ pages' = pages
      /\ staging' = staging /\ commit' = commit /\ compact' = compact
  BY DEF Opening, BeginReopenSession, RecoverActive, CloseHandle, control, running, objects
<1>2. refs' \subseteq refs /\ PendingFresh
  <2>1. CASE BeginReopenSession(h)
    BY <2>1, ReopenedType DEF BeginReopenSession, RefsAfterReopen, PendingFresh, TypeOK
  <2>2. CASE RecoverActive(h) \/ CloseHandle(h)
    BY <2>2 DEF RecoverActive, CloseHandle, control, PendingFresh
  <2> QED BY <2>1, <2>2 DEF Opening
<1>3. ASSUME damage = 0, NEW k \in Handles PROVE ShownKnown(k)'
  <2>1. ShownKnown(k)
    BY <1>3 DEF ObjectInv, SlotOK
  <2>2. CASE k # h
    <3>1. handle'[k] = handle[k]
      BY <2>2 DEF Opening, BeginReopenSession, RecoverActive, CloseHandle, OpenedWith, TypeOK,
         HandleOK
    <3> QED BY <1>1, <2>1, <3>1 DEF ShownKnown, Open, RootOf
  <2>3. CASE k = h /\ RecoverActive(h)
    <3>1. ActiveReadable /\ RootOf(head.chain) \in RootsOf(head.chain)
      BY <1>3, HeadReadable, ChainParts DEF TypeOK, ControlOK, HeadRecord
    <3>2. OpenedWith(h, head, FALSE) \/ handle' = [handle EXCEPT ![h] = NoHandle]
      BY <2>3, <3>1 DEF RecoverActive
    <3>3. handle'[h].state = "open" => handle'[h].shown = head
      BY <3>2 DEF OpenedWith, NoHandle, TypeOK, HandleOK
    <3> QED BY <1>1, <2>3, <3>1, <3>3 DEF ShownKnown, Open, RootOf
  <2>4. CASE k = h /\ (BeginReopenSession(h) \/ CloseHandle(h))
    <3>1. handle'[h].state # "open"
      BY <2>4 DEF BeginReopenSession, CloseHandle, NoHandle, TypeOK, HandleOK
    <3> QED BY <2>4, <3>1 DEF ShownKnown, Open
  <2> QED BY <2>2, <2>3, <2>4 DEF Opening
<1>4. ASSUME damage = 0, NEW k \in Handles
      PROVE  BatchBased(k)' /\ MarkComplete(k)' /\ CandidateBased(k)'
  BY <1>1, <1>4 DEF ObjectInv, SlotOK, BatchBased, MarkComplete, CandidateBased, RootsOf, RootOf
<1>5. damage = 0 => /\ \A r \in nodes' : r \subseteq pages'
                    /\ \A x \in refs' : x.root \in nodes'
  BY <1>1, <1>2 DEF ObjectInv, Stored
<1> QED BY <1>1, <1>2, <1>3, <1>4, <1>5, ObjectFrame

\* Steps that touch neither the objects nor the head, the pins or a
\* candidate, and leave every open handle showing what it showed.
LEMMA ObjectQuiet ==
  ASSUME TypeOK, TypeOK', HistoryInv, ObjectInv, damage' = damage,
         head' = head, headOk' = headOk, PendingFresh, refs' \subseteq refs,
         nodes' = nodes, manifests' = manifests, pages' = pages,
         \A k \in Handles :
           /\ handle'[k].state = "open" => handle'[k] = handle[k]
           /\ staging'[k] \in {{}, staging[k]}
           /\ commit'[k].pc = "idle" \/ commit'[k] = commit[k]
           /\ compact'[k].pc = "idle" \/ compact'[k] = compact[k]
  PROVE  ObjectInv'
<1>1. ASSUME damage = 0, NEW k \in Handles
      PROVE  /\ ShownKnown(k)' /\ BatchBased(k)' /\ MarkComplete(k)' /\ CandidateBased(k)'
             /\ commit'[k].pc \in {"verify", "prune", "publish"} =>
                  /\ commit[k].pc \in {"verify", "prune", "publish"}
                  /\ commit'[k].next = commit[k].next
  <2>1. SlotOK(k)
    BY <1>1 DEF ObjectInv
  <2>2. ShownKnown(k)'
    <3>1. SUFFICES ASSUME handle'[k].state = "open"
                   PROVE  (RootOf(handle[k].shown.chain) \in RootsOf(head.chain))'
      BY DEF ShownKnown, Open
    <3>2. handle'[k] = handle[k] /\ head' = head
      BY <3>1
    <3>3. RootOf(handle[k].shown.chain) \in RootsOf(head.chain)
      BY <2>1, <3>1, <3>2 DEF SlotOK, ShownKnown, Open
    <3> QED BY <3>2, <3>3 DEF RootOf, RootsOf
  <2>3. BatchBased(k)'
    BY <2>1 DEF SlotOK, BatchBased, RootsOf
  <2>4. MarkComplete(k)'
    BY <2>1 DEF SlotOK, MarkComplete, RootsOf
  <2>5. CandidateBased(k)'
    BY <2>1 DEF SlotOK, CandidateBased, RootsOf, RootOf
  <2> QED BY <2>2, <2>3, <2>4, <2>5
<1>2. damage = 0 => /\ \A r \in nodes' : r \subseteq pages'
                    /\ \A x \in refs' : x.root \in nodes'
  BY DEF ObjectInv, Stored
<1> QED BY <1>1, <1>2, ObjectFrame

\* Leases and reservations keep the object invariant.
LEMMA ObjectLeasing ==
  ASSUME TypeOK, TypeOK', HistoryInv, ObjectInv, NEW h \in Handles, Leasing(h)
  PROVE  ObjectInv'
<1>1. PendingFresh
  <2>1. CASE BeginWriter(h) \/ CloseWriter(h)
    BY <2>1 DEF BeginWriter, CloseWriter, PendingFresh, TypeOK, MetaOK, Meta
  <2>2. CASE ReserveGeneration(h)
    BY <2>2, Bounds DEF ReserveGeneration, PendingFresh, TypeOK, MetaOK, Meta
  <2> QED BY <2>1, <2>2 DEF Leasing
<1>2. /\ damage' = damage /\ head' = head /\ headOk' = headOk /\ refs' = refs
      /\ nodes' = nodes /\ manifests' = manifests /\ pages' = pages /\ handle' = handle
      /\ staging' = staging /\ commit' = commit /\ compact' = compact
  BY DEF Leasing, BeginWriter, CloseWriter, ReserveGeneration, running, objects
<1> QED BY <1>1, <1>2, ObjectQuiet

\* The death of a realm keeps the object invariant.
LEMMA ObjectCrash ==
  ASSUME TypeOK, TypeOK', HistoryInv, ObjectInv, NEW b \in Backends, Crash(b)
  PROVE  ObjectInv'
<1>1. PendingFresh
  BY DEF Crash, control, PendingFresh
<1>2. /\ damage' = damage /\ head' = head /\ headOk' = headOk /\ refs' = refs
      /\ nodes' = nodes /\ manifests' = manifests /\ pages' = pages
  BY DEF Crash, control, objects
<1>3. ASSUME NEW k \in Handles
      PROVE  /\ handle'[k].state = "open" => handle'[k] = handle[k]
             /\ staging'[k] \in {{}, staging[k]}
             /\ commit'[k].pc = "idle" \/ commit'[k] = commit[k]
             /\ compact'[k].pc = "idle" \/ compact'[k] = compact[k]
  BY DEF Crash, NoHandle, NoCommit, NoCompact
<1> QED BY <1>1, <1>2, <1>3, ObjectQuiet

\* stage(), although its transaction no longer looks at the session, keeps
\* the object invariant.
LEMMA ObjectStaging ==
  ASSUME TypeOK, TypeOK', HistoryInv, ObjectInv, NEW h \in Handles, Staging(h)
  PROVE  ObjectInv'
<1>1. /\ damage' = damage /\ head' = head /\ headOk' = headOk /\ refs' = refs
      /\ meta' = meta /\ manifests' = manifests /\ handle' = handle
      /\ commit' = commit /\ compact' = compact
  BY DEF Staging, StageBegin, StageLand, control, objects
<1>2. PendingFresh
  BY <1>1 DEF PendingFresh
<1>3. ASSUME damage = 0, NEW k \in Handles
      PROVE  ShownKnown(k)' /\ MarkComplete(k)' /\ CandidateBased(k)'
  BY <1>1, <1>3 DEF ObjectInv, SlotOK, ShownKnown, Open, MarkComplete, CandidateBased, RootsOf,
     RootOf
<1>4. ASSUME damage = 0, NEW r \in Root, StageBegin(h, r) PROVE ObjectInv'
  <2> DEFINE base == RootOf(handle[h].shown.chain)
  <2>1. nodes' = nodes /\ pages' = pages
    BY <1>4 DEF StageBegin, objects
  <2>2. base \in RootsOf(head.chain)
    BY <1>4 DEF StageBegin, Current, ObjectInv, SlotOK, ShownKnown
  <2>3. ASSUME NEW k \in Handles PROVE BatchBased(k)'
    <3>1. CASE k = h
      <4>1. staging'[h] = {[root |-> r, pages |-> r \ base]}
        BY <1>4 DEF StageBegin, Batch, TypeOK, StagingOK
      <4> HIDE DEF base
      <4>2. \A s \in staging'[h] : s.root = r /\ s.pages = r \ base
        BY <4>1
      <4>3. \A s \in staging'[h] : s.root \subseteq s.pages \cup base
        BY <4>2
      <4>4. base \in RootsOf(head'.chain)
        BY <1>1, <2>2
      <4> QED BY <3>1, <4>3, <4>4 DEF BatchBased, RootsOf
    <3>2. CASE k # h
      <4>1. staging'[k] = staging[k]
        BY <1>4, <3>2 DEF StageBegin, TypeOK, StagingOK
      <4> QED BY <1>1, <1>4, <4>1 DEF ObjectInv, SlotOK, BatchBased, RootsOf
    <3> QED BY <3>1, <3>2
  <2>4. /\ \A x \in nodes' : x \subseteq pages'
        /\ \A x \in refs' : x.root \in nodes'
    BY <1>1, <1>4, <2>1 DEF ObjectInv, Stored
  <2> QED BY <1>1, <1>2, <1>3, <2>1, <2>3, <2>4, ObjectFrame
<1>5. ASSUME damage = 0, StageLand(h) PROVE ObjectInv'
  <2>1. PICK s \in staging[h] : nodes' = nodes \cup {s.root} /\ pages' = pages \cup s.pages
    BY <1>5 DEF StageLand
  <2>2. PICK r \in RootsOf(head.chain) : s.root \subseteq s.pages \cup r
    BY <1>5 DEF ObjectInv, SlotOK, BatchBased
  <2>3. r \subseteq pages
    BY <1>5, <2>2 DEF ObjectInv, Stored
  <2>4. /\ \A x \in nodes' : x \subseteq pages'
        /\ \A x \in refs' : x.root \in nodes'
    BY <1>1, <1>5, <2>1, <2>2, <2>3 DEF ObjectInv, Stored
  <2>5. ASSUME NEW k \in Handles PROVE BatchBased(k)'
    <3>1. staging'[k] \in {{}, staging[k]}
      BY <1>5 DEF StageLand, TypeOK, StagingOK
    <3> QED BY <1>1, <1>5, <3>1 DEF ObjectInv, SlotOK, BatchBased, RootsOf
  <2> QED BY <1>1, <1>2, <1>3, <2>1, <2>4, <2>5, ObjectFrame
<1>6. CASE damage # 0
  BY <1>1, <1>6 DEF ObjectInv
<1> QED BY <1>4, <1>5, <1>6 DEF Staging

\* Pinning and unpinning keep the object invariant.
LEMMA ObjectPinning ==
  ASSUME TypeOK, TypeOK', HistoryInv, ObjectInv, NEW h \in Handles, Pinning(h)
  PROVE  ObjectInv'
<1>1. /\ damage' = damage /\ head' = head /\ headOk' = headOk /\ nodes' = nodes
      /\ pages' = pages /\ manifests' = manifests /\ handle' = handle
      /\ commit' = commit /\ compact' = compact /\ staging' = staging
  BY DEF Pinning, PinVerify, PinAdd, PinFail, UnpinRoot, control, running, objects
<1>2. PendingFresh
  BY DEF Pinning, PinVerify, PinAdd, PinFail, UnpinRoot, control, PendingFresh, TypeOK, MetaOK, Meta
<1>3. ASSUME damage = 0, NEW k \in Handles
      PROVE  ShownKnown(k)' /\ BatchBased(k)' /\ MarkComplete(k)' /\ CandidateBased(k)'
  <2>1. ShownKnown(k) /\ BatchBased(k) /\ MarkComplete(k) /\ CandidateBased(k)
    BY <1>3 DEF ObjectInv, SlotOK
  <2>2. ShownKnown(k)'
    BY <1>1, <2>1 DEF ShownKnown, Open, RootsOf, RootOf
  <2>3. BatchBased(k)'
    BY <1>1, <2>1 DEF BatchBased, RootsOf
  <2>4. MarkComplete(k)'
    BY <1>1, <2>1 DEF MarkComplete, RootsOf
  <2>5. CandidateBased(k)'
    BY <1>1, <2>1 DEF CandidateBased, RootsOf, RootOf
  <2> QED BY <2>2, <2>3, <2>4, <2>5
<1>4. ASSUME damage = 0, NEW x \in refs' PROVE x.root \in nodes'
  <2>1. ASSUME NEW k \in Kinds, PinAdd(h, k) PROVE x \in refs \/ x.root = pin[h].root
    BY <2>1 DEF PinAdd
  <2>2. ASSUME NEW k \in Kinds, PinAdd(h, k) PROVE pin[h].root \in nodes
    BY <2>2 DEF PinAdd
  <2>3. ASSUME ~\E k \in Kinds : PinAdd(h, k) PROVE x \in refs
    BY <2>3 DEF Pinning, PinVerify, PinFail, UnpinRoot, control
  <2> QED BY <1>1, <1>4, <2>1, <2>2, <2>3 DEF ObjectInv, Stored
<1>5. damage = 0 => \A r \in nodes' : r \subseteq pages'
  BY <1>1 DEF ObjectInv, Stored
<1> QED BY <1>1, <1>2, <1>3, <1>4, <1>5, ObjectFrame

\* The sweep keeps what the head and the pins need, because it rechecks that
\* they are those it has marked; and it runs only when no generation is
\* pending, so that every candidate that loses its objects is void.
LEMMA ObjectSweep ==
  ASSUME TypeOK, TypeOK', HistoryInv, ObjectInv, NEW h \in Handles, CompactSweep(h)
  PROVE  ObjectInv'
<1>1. SUFFICES ASSUME damage = 0 PROVE Stored' /\ \A k \in Handles : SlotOK(k)'
  BY DEF ObjectInv, CompactSweep
<1>2. /\ compact[h].pc = "sweep" /\ meta.pendingGeneration = 0
      /\ head = compact[h].marked /\ refs = compact[h].seen
      /\ pages' = pages \cap UNION compact[h].keep
      /\ nodes' = nodes \cap compact[h].keep
      /\ manifests' = manifests \cap Lineage(compact[h].marked.chain)
      /\ compact' = [compact EXCEPT ![h] = NoCompact]
  BY DEF CompactSweep, SweepAllowed
<1>3. /\ meta' = meta /\ head' = head /\ headOk' = headOk /\ refs' = refs
      /\ handle' = handle /\ staging' = staging /\ commit' = commit
  BY DEF CompactSweep, control
<1>4. Stored /\ SlotOK(h)
  BY <1>1 DEF ObjectInv
<1>5. RootsOf(head.chain) \subseteq compact[h].keep /\ \A x \in refs : x.root \in compact[h].keep
  BY <1>2, <1>4 DEF SlotOK, MarkComplete
<1>6. \A r \in nodes' : r \subseteq pages'
  BY <1>2, <1>4 DEF Stored
<1>7. Stored'
  BY <1>2, <1>3, <1>4, <1>5, <1>6 DEF Stored, Lineage, RootsOf
<1>8. ASSUME NEW k \in Handles PROVE SlotOK(k)'
  <2>1. SlotOK(k)
    BY <1>1 DEF ObjectInv
  <2>2. ShownKnown(k)' /\ BatchBased(k)' /\ CandidateBased(k)'
    BY <1>3, <2>1 DEF SlotOK, ShownKnown, Open, BatchBased, CandidateBased, RootsOf, RootOf
  <2>3. CandidateStored(k)'
    <3>1. commit[k].pc # "idle" => GenOf(commit[k].next) # 0
      BY CandidateGen
    <3>2. meta'.pendingGeneration = 0 /\ commit'[k] = commit[k]
      BY <1>2, <1>3
    <3> QED BY <3>1, <3>2 DEF CandidateStored, GenOf
  <2>4. MarkComplete(k)'
    <3>1. compact'[k].pc = "idle" \/ compact'[k] = compact[k]
      BY <1>2 DEF NoCompact, TypeOK, CompactOK
    <3> QED BY <2>1, <3>1 DEF SlotOK, MarkComplete, RootsOf
  <2> QED BY <2>2, <2>3, <2>4 DEF SlotOK
<1> QED BY <1>7, <1>8

\* compact() keeps the object invariant: its sweep deletes nothing that the
\* head, a pin or a running commit needs.
LEMMA ObjectCompacting ==
  ASSUME TypeOK, TypeOK', HistoryInv, ObjectInv, NEW h \in Handles, Compacting(h)
  PROVE  ObjectInv'
<1>1. CASE CompactSweep(h)
  BY <1>1, ObjectSweep
<1>2. CASE ~CompactSweep(h)
  <2>1. CompactMark(h) \/ CompactMarkRefs(h) \/ CompactFail(h)
    BY <1>2 DEF Compacting
  <2>2. /\ damage' = damage /\ head' = head /\ headOk' = headOk /\ refs' = refs
        /\ meta' = meta /\ nodes' = nodes /\ manifests' = manifests /\ pages' = pages
        /\ handle' = handle /\ staging' = staging /\ commit' = commit
    BY <2>1 DEF CompactMark, CompactMarkRefs, CompactFail, control, objects
  <2>3. PendingFresh
    BY <2>2 DEF PendingFresh
  <2>4. ASSUME damage = 0, NEW k \in Handles PROVE MarkComplete(k)'
    <3>1. MarkComplete(k)
      BY <2>4 DEF ObjectInv, SlotOK
    <3>2. CASE k # h
      <4>1. compact'[k] = compact[k]
        BY <2>1, <3>2 DEF CompactMark, CompactMarkRefs, CompactFail, TypeOK, CompactOK
      <4> QED BY <3>1, <4>1 DEF MarkComplete, RootsOf
    <3>3. CASE k = h /\ CompactMark(h)
      <4>1. /\ compact'[h].pc = "refs" /\ compact'[h].keep = RootsOf(compact'[h].marked.chain)
            /\ compact'[h].epoch # 0
        BY <3>3 DEF CompactMark, TypeOK, CompactOK, RootsOf
      <4> QED BY <3>3, <4>1 DEF MarkComplete, RootsOf
    <3>4. CASE k = h /\ CompactMarkRefs(h)
      <4>1. /\ compact[h].pc = "refs" /\ compact'[h].pc = "sweep" /\ compact'[h].seen = refs
            /\ compact'[h].keep = compact[h].keep \cup {x.root : x \in refs}
            /\ compact'[h].marked = compact[h].marked /\ compact'[h].epoch = compact[h].epoch
        BY <3>4 DEF CompactMarkRefs, TypeOK, CompactOK
      <4>2. RootsOf(compact[h].marked.chain) \subseteq compact[h].keep /\ compact[h].epoch # 0
        BY <3>1, <3>4, <4>1 DEF MarkComplete
      <4> QED BY <3>4, <4>1, <4>2 DEF MarkComplete, RootsOf
    <3>5. CASE k = h /\ CompactFail(h)
      <4>1. compact'[h].pc = "idle"
        BY <3>5 DEF CompactFail, NoCompact, TypeOK, CompactOK
      <4> QED BY <3>5, <4>1 DEF MarkComplete
    <3> QED BY <2>1, <3>2, <3>3, <3>4, <3>5
  <2>5. ASSUME damage = 0, NEW k \in Handles
        PROVE  ShownKnown(k)' /\ BatchBased(k)' /\ CandidateBased(k)'
    <3>1. ShownKnown(k) /\ BatchBased(k) /\ CandidateBased(k)
      BY <2>5 DEF ObjectInv, SlotOK
    <3>2. ShownKnown(k)'
      BY <2>2, <3>1 DEF ShownKnown, Open, RootsOf, RootOf
    <3>3. BatchBased(k)'
      BY <2>2, <3>1 DEF BatchBased, RootsOf
    <3>4. CandidateBased(k)'
      BY <2>2, <3>1 DEF CandidateBased, RootsOf, RootOf
    <3> QED BY <3>2, <3>3, <3>4
  <2>6. damage = 0 => /\ \A r \in nodes' : r \subseteq pages'
                      /\ \A x \in refs' : x.root \in nodes'
    BY <2>2 DEF ObjectInv, Stored
  <2> QED BY <2>2, <2>3, <2>4, <2>5, <2>6, ObjectFrame
<1> QED BY <1>1, <1>2

\* The steps of a commit other than the staging and the publication.
LEMMA ObjectCommitQuiet ==
  ASSUME TypeOK, TypeOK', HistoryInv, ObjectInv, NEW h \in Handles,
         \/ \E r \in Root : CommitBegin(h, r)
         \/ CommitVerify(h) \/ CommitPrune(h) \/ CommitReread(h) \/ CommitFail(h)
  PROVE  ObjectInv'
<1>1. /\ damage' = damage /\ head' = head /\ headOk' = headOk /\ refs' = refs
      /\ meta' = meta /\ nodes' = nodes /\ manifests' = manifests /\ pages' = pages
      /\ staging' = staging /\ compact' = compact
  BY DEF CommitBegin, CommitVerify, CommitPrune, CommitReread, CommitFail, control, objects
<1>2. RootOf(head.chain) \in RootsOf(head.chain)
  BY ChainParts DEF TypeOK, ControlOK, HeadRecord
<1>3. ASSUME NEW k \in Handles PROVE handle'[k] = handle[k] \/ handle'[k].shown = head
  BY DEF CommitBegin, CommitVerify, CommitPrune, CommitReread, CommitFail, TypeOK, HandleOK
<1>4. ASSUME NEW k \in Handles
      PROVE  \/ commit'[k].pc = "idle"
             \/ commit'[k].pc = "stage" /\ commit'[k].expected = head
             \/ /\ commit[k].pc # "idle"
                /\ commit'[k].pc = commit[k].pc \/ commit[k].pc \in {"verify", "prune"}
                /\ commit'[k].next = commit[k].next
                /\ commit'[k].expected = commit[k].expected
  <2>1. CASE k # h
    <3>1. commit'[k] = commit[k]
      BY <2>1 DEF CommitBegin, CommitVerify, CommitPrune, CommitReread, CommitFail, CommitStep,
         CommitDone, TypeOK, CommitOK
    <3> QED BY <3>1
  <2>2. CASE k = h /\ \E r \in Root : CommitBegin(h, r)
    BY <2>2 DEF CommitBegin, TypeOK, CommitOK
  <2>3. CASE k = h /\ (CommitVerify(h) \/ CommitPrune(h))
    BY <2>3 DEF CommitVerify, CommitPrune, CommitAt, CommitStep, CommitDone, NoCommit, TypeOK,
       CommitOK
  <2>4. CASE k = h /\ (CommitReread(h) \/ CommitFail(h))
    BY <2>4 DEF CommitReread, CommitFail, CommitDone, NoCommit, TypeOK, CommitOK
  <2> QED BY <2>1, <2>2, <2>3, <2>4
<1>5. ASSUME damage = 0, NEW k \in Handles
      PROVE  /\ ShownKnown(k)' /\ BatchBased(k)' /\ MarkComplete(k)' /\ CandidateBased(k)'
             /\ commit'[k].pc \in {"verify", "prune", "publish"} =>
                  /\ commit[k].pc \in {"verify", "prune", "publish"}
                  /\ commit'[k].next = commit[k].next
  <2>1. SlotOK(k)
    BY <1>5 DEF ObjectInv
  <2>2. ShownKnown(k)'
    <3>1. handle'[k].state = "open" => handle[k].state = "open" \/ handle'[k].shown = head
      BY <1>3
    <3> QED BY <1>1, <1>2, <1>3, <2>1 DEF SlotOK, ShownKnown, Open, RootsOf, RootOf
  <2>3. BatchBased(k)' /\ MarkComplete(k)'
    BY <1>1, <2>1 DEF SlotOK, BatchBased, MarkComplete, RootsOf
  <2>4. CandidateBased(k)'
    BY <1>1, <1>2, <1>4, <2>1 DEF SlotOK, CandidateBased, RootsOf, RootOf
  <2> QED BY <1>4, <2>2, <2>3, <2>4
<1>6. damage = 0 => /\ \A r \in nodes' : r \subseteq pages'
                    /\ \A x \in refs' : x.root \in nodes'
  BY <1>1 DEF ObjectInv, Stored
<1> QED BY <1>1, <1>5, <1>6, ObjectFrame DEF PendingFresh

\* Storing a candidate's objects keeps the object invariant.
LEMMA ObjectCommitStage ==
  ASSUME TypeOK, TypeOK', HistoryInv, ObjectInv, NEW h \in Handles, CommitStage(h)
  PROVE  ObjectInv'
<1> DEFINE new == RootOf(commit[h].next)
           base == RootOf(commit[h].expected.chain)
<1>1. /\ damage' = damage /\ head' = head /\ headOk' = headOk /\ refs' = refs
      /\ meta' = meta /\ handle' = handle /\ staging' = staging /\ compact' = compact
  BY DEF CommitStage, control
<1>2. /\ commit[h].pc = "stage" /\ manifests' = manifests \cup {commit[h].next}
      /\ nodes' = nodes \cup {new} /\ pages' = pages \cup (new \ base)
  BY DEF CommitStage, CommitAt, Batch
<1>3. /\ commit'[h].pc = "verify" /\ commit'[h].next = commit[h].next
      /\ commit'[h].expected = commit[h].expected
      /\ \A k \in Handles \ {h} : commit'[k] = commit[k]
  BY DEF CommitStage, CommitStep, TypeOK, CommitOK
<1>4. ASSUME damage = 0 PROVE base \in RootsOf(head.chain) /\ base \subseteq pages
  BY <1>2, <1>4 DEF ObjectInv, SlotOK, CandidateBased, Stored
<1>5. damage = 0 => /\ \A r \in nodes' : r \subseteq pages'
                    /\ \A x \in refs' : x.root \in nodes'
  <2> HIDE DEF new, base
  <2> QED BY <1>1, <1>2, <1>4 DEF ObjectInv, Stored
<1>6. CandidateStored(h)'
  BY <1>2, <1>3 DEF CandidateStored, RootOf
<1>7. ASSUME damage = 0, NEW k \in Handles
      PROVE  ShownKnown(k)' /\ BatchBased(k)' /\ MarkComplete(k)' /\ CandidateBased(k)'
  <2>1. SlotOK(k)
    BY <1>7 DEF ObjectInv
  <2>2. ShownKnown(k)' /\ BatchBased(k)' /\ MarkComplete(k)'
    BY <1>1, <2>1 DEF SlotOK, ShownKnown, Open, BatchBased, MarkComplete, RootsOf, RootOf
  <2>3. CandidateBased(k)'
    BY <1>1, <1>2, <1>3, <2>1 DEF SlotOK, CandidateBased, RootsOf, RootOf
  <2> QED BY <2>2, <2>3
<1> QED BY <1>1, <1>2, <1>3, <1>5, <1>6, <1>7, ObjectFrame DEF PendingFresh

\* Publishing a candidate keeps the object invariant.
LEMMA ObjectPublish ==
  ASSUME TypeOK, TypeOK', HistoryInv, ObjectInv, NEW h \in Handles, CommitPublish(h)
  PROVE  ObjectInv'
<1>1. SUFFICES ASSUME damage = 0 PROVE Stored' /\ \A k \in Handles : SlotOK(k)'
  BY DEF ObjectInv, CommitPublish
<1>2. /\ headOk' = headOk /\ refs' = refs /\ nodes' = nodes /\ manifests' = manifests
      /\ pages' = pages /\ handle' = handle /\ staging' = staging /\ compact' = compact
      /\ commit[h].pc = "publish" /\ meta.pendingGeneration = GenOf(commit[h].next)
  BY DEF CommitPublish, CommitAt, PublishAllowed, objects
<1>3. meta'.pendingGeneration = 0
  BY PublishedType DEF CommitPublish, TypeOK
<1>4. PICK e \in Entry : head'.chain = Append(head.chain, e)
  BY PublishEffect
<1>5. head.chain \in Chain /\ head'.chain = commit[h].next
  BY PublishEffect
<1>6. /\ RootsOf(head'.chain) = RootsOf(head.chain) \cup {e.root}
      /\ Lineage(head'.chain) = Lineage(head.chain) \cup {head'.chain}
      /\ RootOf(head'.chain) = e.root
  <2>1. /\ RootsOf(Append(head.chain, e)) = RootsOf(head.chain) \cup {e.root}
        /\ RootOf(Append(head.chain, e)) = e.root
    BY <1>5, AppendParts
  <2>2. Lineage(Append(head.chain, e)) = Lineage(head.chain) \cup {Append(head.chain, e)}
    BY <1>5, AppendPrefixes
  <2>3. /\ RootsOf(head'.chain) = RootsOf(Append(head.chain, e))
        /\ RootOf(head'.chain) = RootOf(Append(head.chain, e))
        /\ Lineage(head'.chain) = Lineage(Append(head.chain, e))
    BY <1>4
  <2> QED BY <1>4, <2>1, <2>2, <2>3
<1>7. head'.chain \in manifests /\ RootOf(head'.chain) \in nodes
  <2>1. CandidateStored(h)
    BY <1>1 DEF ObjectInv, SlotOK
  <2> QED BY <1>2, <1>5, <2>1 DEF CandidateStored
<1>8. Stored'
  BY <1>1, <1>2, <1>6, <1>7 DEF ObjectInv, Stored
<1>9. ASSUME NEW k \in Handles PROVE SlotOK(k)'
  <2>1. SlotOK(k) /\ RootsOf(head.chain) \subseteq RootsOf(head'.chain)
    BY <1>1, <1>6 DEF ObjectInv
  <2>2. ShownKnown(k)' /\ BatchBased(k)'
    BY <1>2, <2>1 DEF SlotOK, ShownKnown, Open, BatchBased, RootOf
  <2>3. MarkComplete(k)'
    BY <1>2, <2>1 DEF SlotOK, MarkComplete, RootsOf
  <2>4. commit'[k].pc # "idle" =>
          commit[k].pc # "idle" /\ commit'[k].expected = commit[k].expected
                                /\ commit'[k].next = commit[k].next
    BY <1>2 DEF CommitPublish, CommitStep, TypeOK, CommitOK
  <2>5. CandidateBased(k)'
    BY <2>1, <2>4 DEF SlotOK, CandidateBased, RootOf
  <2>6. CandidateStored(k)'
    <3>1. commit[k].pc # "idle" => GenOf(commit[k].next) # 0
      BY CandidateGen
    <3> QED BY <1>3, <2>4, <3>1 DEF CandidateStored, GenOf
  <2> QED BY <2>2, <2>3, <2>5, <2>6 DEF SlotOK
<1> QED BY <1>8, <1>9

\* Every step of the store keeps the object invariant.
LEMMA ObjectStep ==
  TypeOK /\ TypeOK' /\ HistoryInv /\ LogInv /\ ObjectInv /\ [Next]_vars => ObjectInv'
<1> SUFFICES ASSUME TypeOK, TypeOK', HistoryInv, LogInv, ObjectInv, [Next]_vars
             PROVE  ObjectInv'
  OBVIOUS
<1>1. ASSUME NEW h \in Handles, Committing(h) PROVE ObjectInv'
  BY <1>1, ObjectCommitQuiet, ObjectCommitStage, ObjectPublish DEF Committing, CommitProgress
<1>2. CASE Damage
  <2>1. damage' # 0
    BY <1>2 DEF Damage, DamageHead, DamageActivation, DamageObject, Damaging, TypeOK, ControlOK
  <2> QED BY <2>1 DEF ObjectInv
<1>3. CASE UNCHANGED vars
  <2>1. /\ damage' = damage /\ head' = head /\ headOk' = headOk /\ meta' = meta /\ refs' = refs
        /\ nodes' = nodes /\ manifests' = manifests /\ pages' = pages /\ handle' = handle
        /\ staging' = staging /\ commit' = commit /\ compact' = compact
    BY <1>3 DEF vars, control, objects, running
  <2> QED BY <2>1, ObjectQuiet DEF PendingFresh
<1> QED BY <1>1, <1>2, <1>3, ObjectOpening, ObjectLeasing, ObjectCrash, ObjectStaging,
           ObjectCompacting, ObjectPinning DEF Next

-----------------------------------------------------------------------------
\* What the inductive invariant gives

IInv == TypeOK /\ HistoryInv /\ LogInv /\ ObjectInv

\* The inductive invariant holds on a freshly created disk.
LEMMA InvInit == Init => IInv
<1> SUFFICES ASSUME Init PROVE LogInv
  BY InitType, HistoryInit, ObjectInit DEF IInv
<1>1. LogSpan(1)
  BY BoundAssumption DEF Init, LogSpan, GenesisHead, NoCommit
<1> QED BY <1>1 DEF LogInv

\* Every step of the store keeps the inductive invariant.
LEMMA InvStep == IInv /\ [Next]_vars => IInv'
BY TypeStep, HistoryStep, LogStep, ObjectStep DEF IInv

\* The inductive invariant: types, the counters against the head's history
\* and the running commits, the run of activation records, and the objects
\* that the head, the pins, the running calls and the batches rely on.
THEOREM Invariance == Spec => []IInv
BY InvInit, InvStep, PTL DEF Spec

\* As long as no stored record is damaged the head always reads back, with
\* every manifest and tree of its history: no interleaving of commits,
\* collections, takeovers and crashes makes a reopen fall back.
THEOREM HeadStaysOpenable == Spec => []HeadAlwaysOpens
<1>1. IInv => HeadAlwaysOpens
  BY HeadReadable DEF IInv, HeadAlwaysOpens
<1> QED BY <1>1, Invariance, PTL

\* Every pin in force has its whole tree stored.
THEOREM PinsStayClosed == Spec => []PinsKeepClosure
<1>1. IInv => PinsKeepClosure
  BY DEF IInv, ObjectInv, Stored, PinsKeepClosure, Closed
<1> QED BY <1>1, Invariance, PTL

\* The activation log stays an unbroken run that ends with the head and fits
\* the scan bound, although prepareActivationSlot prunes it for a handle
\* that may have lost the disk meanwhile.
THEOREM LogStaysUnbroken == Spec => []ActivationLogUnbroken
<1>1. ASSUME IInv, damage = 0 PROVE ActivationLogUnbroken
  <2>1. PICK lo \in Nat : LogSpan(lo)
    BY <1>1 DEF IInv, LogInv
  <2>2. /\ Cardinality(activations) = head.headSeq - lo + 1
        /\ head.headSeq \in Nat /\ lo <= head.headSeq
    BY <1>1, <2>1, LogSize DEF IInv
  <2>3. MaxActivations \in Nat
    BY BoundAssumption
  <2>4. head.headSeq - Cardinality(activations) + 1 = lo
    BY <2>2
  <2> QED BY <2>1, <2>2, <2>3, <2>4 DEF ActivationLogUnbroken, LogSpan
<1>2. IInv => ActivationLogUnbroken
  BY <1>1 DEF ActivationLogUnbroken
<1> QED BY <1>2, Invariance, PTL

\* What a commit publishes is a complete tree: nothing can have collected
\* its pages since they were verified.
LEMMA PublishComplete ==
  ASSUME IInv, NEW h \in Handles, CommitPublish(h)
  PROVE  damage = 0 => Closed(RootOf(head'.chain))
<1>1. ASSUME damage = 0 PROVE RootOf(head'.chain) \in nodes
  <2>1. CandidateStored(h)
    BY <1>1 DEF IInv, ObjectInv, SlotOK
  <2>2. commit[h].pc = "publish" /\ meta.pendingGeneration = GenOf(commit[h].next)
    BY DEF CommitPublish, CommitAt, PublishAllowed
  <2>3. head'.chain = commit[h].next
    BY PublishEffect DEF IInv
  <2> QED BY <2>1, <2>2, <2>3 DEF CandidateStored
<1>2. nodes' = nodes /\ pages' = pages
  BY DEF CommitPublish, objects
<1> QED BY <1>1, <1>2 DEF IInv, ObjectInv, Stored, Closed, RootOf

\* The head only ever changes to a complete tree, one entry longer, of a
\* greater generation and under a writer epoch never used before.
THEOREM HeadOnlyExtends == Spec => HeadExtends
<1>1. ASSUME IInv, [Next]_vars, head' # head
      PROVE  /\ head'.headSeq = head.headSeq + 1
             /\ Front(head'.chain) = head.chain
             /\ GenOf(head'.chain) > GenOf(head.chain)
             /\ head'.writerEpoch > head.writerEpoch
             /\ damage = 0 => Closed(RootOf(head'.chain))
  <2>1. PICK h \in Handles : CommitPublish(h)
    <3>1. ASSUME NEW h \in Handles, NEW r \in Root, CommitBegin(h, r) PROVE head' = head
      BY <3>1 DEF CommitBegin, control
    <3> QED BY <1>1, <3>1, QuietSteps DEF IInv
  <2>2. PICK e \in Entry : /\ head'.chain = Append(head.chain, e)
                          /\ e.generation > GenOf(head.chain)
    BY <1>1, <2>1, PublishEffect DEF IInv
  <2>3. head.chain \in Chain
    BY <1>1 DEF IInv, TypeOK, ControlOK, HeadRecord
  <2>4. Front(Append(head.chain, e)) = head.chain /\ GenOf(Append(head.chain, e)) = e.generation
    BY <2>3, AppendParts, AppendPrefixes
  <2>5. Front(head'.chain) = head.chain /\ GenOf(head'.chain) = e.generation
    BY <2>2, <2>4
  <2>6. /\ head'.headSeq = head.headSeq + 1
        /\ head'.writerEpoch > head.writerEpoch
    BY <1>1, <2>1, PublishEffect DEF IInv
  <2> QED BY <1>1, <2>1, <2>2, <2>5, <2>6, PublishComplete
<1>2. IInv /\ [Next]_vars =>
        [head' # head =>
           /\ head'.headSeq = head.headSeq + 1
           /\ Front(head'.chain) = head.chain
           /\ GenOf(head'.chain) > GenOf(head.chain)
           /\ head'.writerEpoch > head.writerEpoch
           /\ damage = 0 => Closed(RootOf(head'.chain))]_vars
  BY <1>1
<1> QED BY <1>2, Invariance, PTL DEF Spec, HeadExtends

\* Once the head record is damaged no collection and no publication runs.
LEMMA Frozen ==
  ASSUME TypeOK, [Next]_vars, ~headOk, damage' = damage
  PROVE  /\ head' = head /\ pages \subseteq pages'
         /\ nodes \subseteq nodes' /\ manifests \subseteq manifests'
<1> DEFINE Kept == /\ head' = head /\ pages \subseteq pages'
                   /\ nodes \subseteq nodes' /\ manifests \subseteq manifests'
<1>1. ASSUME NEW h \in Handles, Opening(h) \/ Leasing(h) \/ Staging(h) PROVE Kept
  BY <1>1 DEF Opening, BeginReopenSession, RecoverActive, CloseHandle, Leasing, BeginWriter,
     CloseWriter, ReserveGeneration, Staging, StageBegin, StageLand, control, objects
<1>2. ASSUME NEW h \in Handles, Committing(h) PROVE Kept
  <2>1. ~CommitPublish(h)
    BY DEF CommitPublish, PublishAllowed
  <2> QED BY <1>2, <2>1 DEF Committing, CommitProgress, CommitBegin, CommitStage, CommitVerify,
             CommitPrune, CommitReread, CommitFail, control, objects
<1>3. ASSUME NEW h \in Handles, Compacting(h) \/ Pinning(h) PROVE Kept
  <2>1. ~CompactSweep(h)
    BY DEF CompactSweep, SweepAllowed
  <2> QED BY <1>3, <2>1 DEF Compacting, CompactMark, CompactMarkRefs, CompactFail, Pinning,
             PinVerify, PinAdd, PinFail, UnpinRoot, control, objects
<1>4. ~Damage
  BY DEF Damage, DamageHead, DamageActivation, DamageObject, Damaging, TypeOK, ControlOK
<1>5. ASSUME (\E b \in Backends : Crash(b)) \/ UNCHANGED vars PROVE Kept
  BY <1>5 DEF Crash, vars, control, objects
<1> QED BY <1>1, <1>2, <1>3, <1>4, <1>5 DEF Next

\* Once the head record is damaged what recovery may fall back on stays.
THEOREM DamageFreezes == Spec => HeadDamageFreezes
<1>1. TypeOK /\ [Next]_vars =>
        [~headOk /\ damage' = damage =>
           /\ head' = head /\ pages \subseteq pages'
           /\ nodes \subseteq nodes' /\ manifests \subseteq manifests']_vars
  BY Frozen
<1> QED BY <1>1, TypeCorrect, PTL DEF Spec, HeadDamageFreezes

-----------------------------------------------------------------------------
\* Recovery after the head record is damaged

\* Of two prefixes of one chain the shorter is a prefix of the longer, and two
\* of one length are the same.
LEMMA PrefixOrder ==
  ASSUME NEW a \in Chain, NEW b \in Chain, NEW c \in Chain,
         IsPrefix(a, c), IsPrefix(b, c), Len(a) <= Len(b)
  PROVE  IsPrefix(a, b) /\ (Len(a) = Len(b) => a = b)
<1>1. a \in Seq(Entry) /\ b \in Seq(Entry) /\ c \in Seq(Entry)
  BY DEF Chain
<1>2. Len(a) \in Nat /\ Len(b) \in Nat /\ Len(c) \in Nat /\ Len(b) <= Len(c)
  BY <1>1 DEF IsPrefix
<1>3. ASSUME NEW d \in Seq(Entry), Len(d) <= Len(c),
             SubSeq(d, 1, Len(d)) = SubSeq(c, 1, Len(d)), NEW i \in 1..Len(d)
      PROVE  d[i] = c[i]
  <2>1. SubSeq(d, 1, Len(d))[i] = d[i] /\ SubSeq(c, 1, Len(d))[i] = c[i]
    BY <1>1, <1>3
  <2> QED BY <1>3, <2>1
<1>4. \A i \in 1..Len(a) : a[i] = c[i]
  BY <1>1, <1>3 DEF IsPrefix
<1>5. \A i \in 1..Len(b) : b[i] = c[i]
  BY <1>1, <1>3 DEF IsPrefix
<1>6. SubSeq(a, 1, Len(a)) = SubSeq(b, 1, Len(a))
  <2> DEFINE s == SubSeq(a, 1, Len(a))
             t == SubSeq(b, 1, Len(a))
  <2>1. s \in Seq(Entry) /\ t \in Seq(Entry) /\ Len(s) = Len(a) /\ Len(t) = Len(a)
    BY <1>1, <1>2
  <2>2. \A i \in 1..Len(a) : s[i] = a[i] /\ t[i] = b[i] /\ a[i] = b[i]
    BY <1>1, <1>2, <1>4, <1>5
  <2> HIDE DEF s, t
  <2>3. s = t
    BY <2>1, <2>2
  <2> QED BY <2>3 DEF s, t
<1>7. ASSUME Len(a) = Len(b) PROVE a = b
  BY <1>1, <1>4, <1>5, <1>7
<1> QED BY <1>6, <1>7 DEF IsPrefix

\* Every record of the log is a stage of the head's history, dated by its
\* sequence number.
LineInv ==
  /\ Len(head.chain) = head.headSeq
  /\ \A a \in activations : Len(a.chain) = a.headSeq /\ IsPrefix(a.chain, head.chain)

\* Handles alive are of different sessions, none newer than the newest.
SessionInv ==
  /\ \A h \in Handles : handle[h].session <= meta.sessionHighWater
  /\ \A h, k \in Handles :
       handle[h].state # "none" /\ handle[k].state # "none"
         /\ handle[h].session = handle[k].session => h = k

\* Without its head record the disk still has the head's activation, objects
\* and log.
LostInv == ~headOk /\ damage = 1 => Intact(head) /\ \E lo \in Nat : LogSpan(lo)

\* Nothing but the head record is damaged, if anything is.
OnlyHead == damage = (IF headOk THEN 0 ELSE 1)

\* The log only loses records, or gains the one that is published.
LEMMA LineStep == IInv /\ LineInv /\ [Next]_vars => LineInv'
<1> SUFFICES ASSUME IInv, LineInv, [Next]_vars PROVE LineInv'
  OBVIOUS
<1>1. head.chain \in Chain /\ head.headSeq \in Nat /\ \A a \in activations : a.chain \in Chain
  BY DEF IInv, TypeOK, ControlOK, HeadRecord
<1>2. ASSUME head' = head, activations' \subseteq activations PROVE LineInv'
  BY <1>2 DEF LineInv
<1>3. ASSUME NEW h \in Handles, CommitPublish(h) PROVE LineInv'
  <2>1. PICK e \in Entry : head'.chain = Append(head.chain, e)
    BY <1>3, PublishEffect DEF IInv
  <2>2. head'.headSeq = head.headSeq + 1
    BY <1>3, PublishEffect DEF IInv
  <2>3. \A a \in activations' : a \in activations \/ a = head'
    BY <1>3 DEF CommitPublish
  <2>4. /\ Append(head.chain, e) \in Chain /\ Len(Append(head.chain, e)) = Len(head.chain) + 1
        /\ \A b \in Chain : IsPrefix(b, head.chain) => IsPrefix(b, Append(head.chain, e))
    <3>1. head.chain \in Seq(Entry)
      BY <1>1 DEF Chain
    <3> QED BY <1>1, <3>1, AppendParts, AppendPrefixes
  <2>5. Len(head'.chain) = head'.headSeq
    BY <2>1, <2>2, <2>4 DEF LineInv
  <2>6. IsPrefix(head'.chain, head'.chain)
    BY <2>1, <2>4, AppendPrefixes
  <2>7. \A a \in activations : IsPrefix(a.chain, head'.chain)
    BY <1>1, <2>1, <2>4 DEF LineInv
  <2> QED BY <2>3, <2>5, <2>6, <2>7 DEF LineInv
<1>4. ASSUME NEW h \in Handles, CommitPrune(h) PROVE LineInv'
  BY <1>2, <1>4 DEF CommitPrune, PruneLog
<1>5. CASE Damage
  BY <1>2, <1>5 DEF Damage, DamageHead, DamageActivation, DamageObject, Damaging
<1>6. CASE ~Damage /\ \A h \in Handles : ~CommitPrune(h) /\ ~CommitPublish(h)
  BY <1>2, <1>6, LogSteps DEF IInv
<1> QED BY <1>3, <1>4, <1>5, <1>6

\* What a step does to handles, sessions and acknowledgements.
LEMMA HandleSteps ==
  ASSUME TypeOK, [Next]_vars,
         \A h \in Handles : /\ ~BeginReopenSession(h) /\ ~RecoverActive(h)
                            /\ ~CloseHandle(h) /\ ~CommitReread(h),
         \A b \in Backends : ~Crash(b)
  PROVE  /\ handle' = handle /\ acked' = acked
         /\ meta'.activeSession = meta.activeSession
         /\ meta'.sessionHighWater = meta.sessionHighWater
<1> DEFINE Same == /\ handle' = handle /\ acked' = acked
                   /\ meta'.activeSession = meta.activeSession
                   /\ meta'.sessionHighWater = meta.sessionHighWater
<1>1. ASSUME NEW h \in Handles, Opening(h) \/ Leasing(h) \/ Staging(h) PROVE Same
  BY <1>1 DEF Opening, Leasing, BeginWriter, CloseWriter, ReserveGeneration, Staging, StageBegin,
     StageLand, control, TypeOK, MetaOK, Meta
<1>2. ASSUME NEW h \in Handles, Committing(h) PROVE Same
  <2>1. CASE CommitPublish(h)
    BY <2>1, PublishedType DEF CommitPublish, TypeOK
  <2>2. CASE ~CommitPublish(h)
    BY <1>2, <2>2 DEF Committing, CommitProgress, CommitBegin, CommitStage, CommitVerify,
       CommitPrune, CommitFail, control
  <2> QED BY <2>1, <2>2
<1>3. ASSUME NEW h \in Handles, Compacting(h) \/ Pinning(h) PROVE Same
  BY <1>3 DEF Compacting, CompactMark, CompactMarkRefs, CompactSweep, CompactFail, Pinning,
     PinVerify, PinAdd, PinFail, UnpinRoot, control, TypeOK, MetaOK, Meta
<1>4. ASSUME Damage \/ UNCHANGED vars PROVE Same
  BY <1>4 DEF Damage, DamageHead, DamageActivation, DamageObject, Damaging, vars, control
<1> QED BY <1>1, <1>2, <1>3, <1>4 DEF Next

\* A reopen hands out a session of its own.
LEMMA SessionStep == TypeOK /\ SessionInv /\ [Next]_vars => SessionInv'
<1> SUFFICES ASSUME TypeOK, SessionInv, [Next]_vars PROVE SessionInv'
  OBVIOUS
<1>1. meta.sessionHighWater \in Nat /\ \A h \in Handles : handle[h].session \in Nat
  BY Bounds DEF TypeOK, MetaOK, Meta, HandleOK
<1>2. ASSUME meta'.sessionHighWater = meta.sessionHighWater,
             \A h \in Handles : \/ handle'[h].state = "none" /\ handle'[h].session = 0
                                \/ /\ handle[h].state # "none" \/ handle'[h].state = "none"
                                   /\ handle'[h].session = handle[h].session
      PROVE  SessionInv'
  BY <1>1, <1>2 DEF SessionInv
<1>3. ASSUME NEW h \in Handles, BeginReopenSession(h) PROVE SessionInv'
  <2>1. meta'.sessionHighWater = meta.sessionHighWater + 1
    BY <1>3, ReopenedType DEF BeginReopenSession, TypeOK
  <2>2. /\ handle'[h].session = meta.sessionHighWater + 1
        /\ \A k \in Handles \ {h} : handle'[k] = handle[k]
    BY <1>3 DEF BeginReopenSession, TypeOK, HandleOK, NoHandle
  <2> QED BY <1>1, <2>1, <2>2 DEF SessionInv
<1>4. ASSUME NEW h \in Handles, RecoverActive(h) PROVE SessionInv'
  <2>1. meta' = meta
    BY <1>4 DEF RecoverActive, control
  <2>2. \/ handle'[h] = NoHandle
        \/ handle[h].state # "none" /\ handle'[h].session = handle[h].session
    BY <1>4 DEF RecoverActive, OpenedWith, TypeOK, HandleOK
  <2>3. \A k \in Handles \ {h} : handle'[k] = handle[k]
    BY <1>4 DEF RecoverActive, OpenedWith, TypeOK, HandleOK
  <2> QED BY <1>2, <2>1, <2>2, <2>3 DEF NoHandle
<1>5. ASSUME NEW h \in Handles, CloseHandle(h) \/ CommitReread(h) PROVE SessionInv'
  <2>1. meta' = meta
    BY <1>5 DEF CloseHandle, CommitReread, control
  <2>2. \A k \in Handles : /\ handle[k].state # "none" \/ handle'[k].state = "none"
                           /\ handle'[k].session = handle[k].session
    BY <1>5 DEF CloseHandle, CommitReread, Current, Open, TypeOK, HandleOK
  <2> QED BY <1>2, <2>1, <2>2
<1>6. ASSUME NEW b \in Backends, Crash(b) PROVE SessionInv'
  <2>1. meta' = meta
    BY <1>6 DEF Crash, control
  <2>2. \A k \in Handles : handle'[k] = NoHandle \/ handle'[k] = handle[k]
    BY <1>6 DEF Crash
  <2> QED BY <1>2, <2>1, <2>2 DEF NoHandle
<1>7. CASE handle' = handle /\ meta'.sessionHighWater = meta.sessionHighWater
  BY <1>7 DEF SessionInv
<1> QED BY <1>3, <1>4, <1>5, <1>6, <1>7, HandleSteps

\* Damage to the head record alone is the first damage there is.
LEMMA FirstDamage ==
  ASSUME IInv, [Next]_vars
  PROVE  /\ Damage => ~(damage' = (IF headOk' THEN 0 ELSE 1)) \/ (DamageHead /\ damage = 0)
         /\ ~Damage => headOk' = headOk /\ damage' = damage
<1>1. damage \in Nat /\ (damage = 0 => headOk)
  BY Bounds DEF IInv, TypeOK, ControlOK, ObjectInv, Stored
<1>2. ASSUME Damage PROVE ~(damage' = (IF headOk' THEN 0 ELSE 1)) \/ (DamageHead /\ damage = 0)
  BY <1>1, <1>2 DEF Damage, DamageHead, DamageActivation, DamageObject, Damaging
<1>3. ASSUME NEW h \in Handles, Opening(h) \/ Leasing(h) \/ Staging(h)
      PROVE  headOk' = headOk /\ damage' = damage
  BY <1>3 DEF Opening, BeginReopenSession, RecoverActive, CloseHandle, Leasing, BeginWriter,
     CloseWriter, ReserveGeneration, Staging, StageBegin, StageLand, control
<1>4. ASSUME NEW h \in Handles, Committing(h) PROVE headOk' = headOk /\ damage' = damage
  BY <1>4 DEF Committing, CommitProgress, CommitBegin, CommitStage, CommitVerify, CommitPrune,
     CommitPublish, CommitReread, CommitFail, control
<1>5. ASSUME NEW h \in Handles, Compacting(h) \/ Pinning(h)
      PROVE  headOk' = headOk /\ damage' = damage
  BY <1>5 DEF Compacting, CompactMark, CompactMarkRefs, CompactSweep, CompactFail, Pinning,
     PinVerify, PinAdd, PinFail, UnpinRoot, control
<1>6. ASSUME (\E b \in Backends : Crash(b)) \/ UNCHANGED vars
      PROVE  headOk' = headOk /\ damage' = damage
  BY <1>6 DEF Crash, vars, control
<1> QED BY <1>2, <1>3, <1>4, <1>5, <1>6 DEF Next

\* What recovery falls back on is there when the head record is lost, and no
\* step takes it away, although a stale handle may still prune the log.
LEMMA LostStep == IInv /\ TypeOK' /\ LostInv /\ [Next]_vars => LostInv'
<1> SUFFICES ASSUME IInv, TypeOK', LostInv, [Next]_vars, ~headOk', damage' = 1
             PROVE  Intact(head)' /\ \E lo \in Nat : LogSpan(lo)'
  BY DEF LostInv
<1>1. CASE Damage
  <2>1. DamageHead /\ damage = 0
    BY <1>1, FirstDamage
  <2>2. /\ head' = head /\ activations' = activations /\ commit' = commit
        /\ pages' = pages /\ nodes' = nodes /\ manifests' = manifests
    BY <2>1 DEF DamageHead, Damaging, objects, running
  <2>3. Intact(head)
    BY <2>1, HeadReadable DEF IInv, ActiveReadable
  <2>4. PICK lo \in Nat : LogSpan(lo)
    BY <2>1 DEF IInv, LogInv
  <2>5. LogSpan(lo)'
    BY <2>2, <2>4, SpanFrame DEF NoNewPublish
  <2> QED BY <2>2, <2>3, <2>5 DEF Intact, Closed
<1>2. CASE ~Damage
  <2>1. headOk' = headOk /\ damage' = damage
    BY <1>2, FirstDamage
  <2>2. Intact(head) /\ \E lo \in Nat : LogSpan(lo)
    BY <2>1 DEF LostInv
  <2>3. /\ head' = head /\ pages \subseteq pages'
        /\ nodes \subseteq nodes' /\ manifests \subseteq manifests'
    BY <2>1, Frozen DEF IInv
  <2>4. Intact(head)'
    BY <2>2, <2>3 DEF Intact, Closed
  <2>5. \A h \in Handles : ~CommitPublish(h)
    BY <2>1 DEF CommitPublish, PublishAllowed
  <2>6. PICK lo \in Nat : LogSpan(lo)
    BY <2>2
  <2>7. ASSUME NEW h \in Handles, CommitPrune(h) PROVE \E l \in Nat : LogSpan(l)'
    BY <2>6, <2>7, SpanPrune DEF IInv
  <2>8. CASE \A h \in Handles : ~CommitPrune(h)
    <3>1. activations' = activations /\ NoNewPublish
      BY <1>2, <2>5, <2>8, LogSteps DEF IInv
    <3>2. LogSpan(lo)'
      BY <2>3, <2>6, <3>1, SpanFrame
    <3> QED BY <2>4, <3>2
  <2> QED BY <2>4, <2>7, <2>8
<1> QED BY <1>1, <1>2

\* With its activation and its objects the head is the newest that reads back.
LEMMA NewestIsHead ==
  ASSUME IInv, LineInv, LostInv, OnlyHead, NEW a, Newest(a)
  PROVE  a.chain = head.chain
<1>1. head \in activations /\ Intact(head)
  <2>1. CASE headOk
    BY <2>1, HeadReadable DEF OnlyHead, IInv, ActiveReadable
  <2>2. CASE ~headOk
    BY <2>2 DEF OnlyHead, LostInv, LogSpan
  <2> QED BY <2>1, <2>2
<1>2. a \in activations /\ head.headSeq <= a.headSeq
  BY <1>1 DEF Newest
<1>3. a.chain \in Chain /\ head.chain \in Chain /\ Len(a.chain) \in Nat /\ Len(head.chain) \in Nat
  BY <1>2, ChainParts DEF IInv, TypeOK, ControlOK, HeadRecord
<1>4. Len(head.chain) <= Len(a.chain) /\ IsPrefix(a.chain, head.chain)
  BY <1>2 DEF LineInv
<1>5. IsPrefix(head.chain, head.chain) /\ Len(a.chain) <= Len(head.chain)
  BY <1>1, <1>4 DEF LineInv, IsPrefix
<1> QED BY <1>3, <1>4, <1>5, PrefixOrder

RecoveryInv == LineInv /\ SessionInv /\ LostInv /\ AckedDurable

\* No step shows a handle of the active session less than was acknowledged.
LEMMA ShownStep ==
  IInv /\ RecoveryInv /\ AckedShown /\ [Next]_vars => AckedShown'
<1> SUFFICES ASSUME IInv, RecoveryInv, AckedShown, [Next]_vars, OnlyHead',
                    NEW h \in Handles, Current(h)', NEW a \in acked'
             PROVE  IsPrefix(a.chain, handle'[h].shown.chain)
  BY DEF AckedShown, OnlyHead
<1>1. OnlyHead
  <2>1. damage = 0 => headOk
    BY DEF IInv, ObjectInv, Stored
  <2> QED BY <2>1, FirstDamage DEF OnlyHead
<1>2. \A k \in Handles : Current(k) => \A b \in acked : IsPrefix(b.chain, handle[k].shown.chain)
  BY <1>1 DEF AckedShown, OnlyHead
<1>3. handle'[h].state = "open" /\ meta'.activeSession = handle'[h].session
  BY DEF Current, Open, SessionHeld
<1>4. ASSUME meta'.activeSession = meta.activeSession, handle'[h] = handle[h], acked' = acked
      PROVE  IsPrefix(a.chain, handle'[h].shown.chain)
  BY <1>2, <1>3, <1>4 DEF Current, Open, SessionHeld
<1>5. ASSUME NEW k \in Handles, BeginReopenSession(k) PROVE FALSE
  <2>1. meta'.activeSession = meta.sessionHighWater + 1
    BY <1>5, ReopenedType DEF BeginReopenSession, IInv, TypeOK
  <2>2. handle'[k].state = "opening" /\ (h # k => handle'[h] = handle[h])
    BY <1>5 DEF BeginReopenSession, IInv, TypeOK, HandleOK, NoHandle
  <2>3. handle[h].session <= meta.sessionHighWater /\ handle[h].session \in Nat
        /\ meta.sessionHighWater \in Nat
    BY Bounds DEF RecoveryInv, SessionInv, IInv, TypeOK, MetaOK, Meta, HandleOK
  <2>4. h # k
    BY <1>3, <2>2
  <2>5. handle[h].session = meta.sessionHighWater + 1
    BY <1>3, <2>1, <2>2, <2>4
  <2> QED BY <2>3, <2>5
<1>6. ASSUME NEW k \in Handles, RecoverActive(k)
      PROVE  IsPrefix(a.chain, handle'[h].shown.chain)
  <2>1. meta' = meta /\ acked' = acked /\ (h # k => handle'[h] = handle[h])
    BY <1>6 DEF RecoverActive, OpenedWith, control, IInv, TypeOK, HandleOK
  <2>2. CASE h # k
    BY <1>4, <2>1, <2>2
  <2>3. CASE h = k
    <3>1. handle'[h].shown.chain = head.chain
      <4>1. \/ handle'[h].shown = head
            \/ \E b \in activations : Newest(b) /\ handle'[h].shown = b
        BY <1>3, <1>6, <2>3 DEF RecoverActive, OpenedWith, NoHandle, IInv, TypeOK, HandleOK
      <4> QED BY <1>1, <4>1, NewestIsHead DEF RecoveryInv
    <3> QED BY <2>1, <3>1 DEF RecoveryInv, AckedDurable
  <2> QED BY <2>2, <2>3
<1>7. ASSUME NEW k \in Handles, CloseHandle(k)
      PROVE  IsPrefix(a.chain, handle'[h].shown.chain)
  <2>1. h # k
    BY <1>3, <1>7 DEF CloseHandle, IInv, TypeOK, HandleOK
  <2> QED BY <1>4, <1>7, <2>1 DEF CloseHandle, control, IInv, TypeOK, HandleOK
<1>8. ASSUME NEW k \in Handles, CommitReread(k)
      PROVE  IsPrefix(a.chain, handle'[h].shown.chain)
  <2>1. meta' = meta /\ acked' = acked \cup {head} /\ Current(k)
    BY <1>8 DEF CommitReread, control
  <2>2. handle'[k].shown = head /\ (h # k => handle'[h] = handle[h])
    BY <1>8 DEF CommitReread, IInv, TypeOK, HandleOK
  <2>3. h = k
    BY <1>3, <2>1, <2>2 DEF Current, Open, SessionHeld, RecoveryInv, SessionInv
  <2>4. IsPrefix(head.chain, head.chain)
    <3>1. head.chain \in Chain
      BY DEF IInv, TypeOK, ControlOK, HeadRecord
    <3>2. PICK e : e \in Entry
      BY <3>1, ChainParts
    <3> QED BY <3>1, <3>2, AppendPrefixes
  <2> QED BY <2>1, <2>2, <2>3, <2>4 DEF RecoveryInv, AckedDurable
<1>9. ASSUME NEW b \in Backends, Crash(b)
      PROVE  IsPrefix(a.chain, handle'[h].shown.chain)
  <2>1. handle'[h] = handle[h]
    BY <1>3, <1>9 DEF Crash, NoHandle
  <2> QED BY <1>4, <1>9, <2>1 DEF Crash, control
<1>10. CASE /\ handle' = handle /\ acked' = acked
            /\ meta'.activeSession = meta.activeSession
  BY <1>4, <1>10
<1> QED BY <1>5, <1>6, <1>7, <1>8, <1>9, <1>10, HandleSteps DEF IInv

\* The disk as it is created has one handle, one record and no damage.
LEMMA RecoveryInit == Init => RecoveryInv /\ AckedShown
<1> SUFFICES ASSUME Init PROVE RecoveryInv /\ AckedShown
  OBVIOUS
<1>1. PICK k \in Handles : handle =
        [h \in Handles |-> IF h = k THEN [NoHandle EXCEPT !.state = "open", !.session = 1]
                           ELSE NoHandle]
  BY DEF Init
<1>2. \A h \in Handles : /\ handle[h].session \in {0, 1}
                         /\ handle[h].state # "none" => h = k
  BY <1>1 DEF NoHandle
<1>3. SessionInv
  BY <1>2 DEF Init, SessionInv
<1>4. LineInv
  <2>1. Len(GenesisChain) = 1 /\ GenesisChain \in Chain
    BY GenesisType
  <2>2. IsPrefix(GenesisChain, GenesisChain)
    BY <2>1 DEF IsPrefix
  <2> QED BY <2>1, <2>2 DEF Init, LineInv, GenesisHead
<1>5. LostInv /\ AckedDurable /\ AckedShown
  BY DEF Init, LostInv, AckedDurable, AckedShown
<1> QED BY <1>3, <1>4, <1>5 DEF RecoveryInv

\* The records of the log, the sessions of the handles and what is left of a
\* disk whose head record is damaged.
THEOREM RecoveryInvariance == Spec => [](IInv /\ RecoveryInv)
<1>1. IInv /\ RecoveryInv /\ [Next]_vars => RecoveryInv'
  <2> SUFFICES ASSUME IInv, RecoveryInv, [Next]_vars PROVE RecoveryInv'
    OBVIOUS
  <2>1. LineInv' /\ SessionInv' /\ LostInv'
    BY LineStep, SessionStep, LostStep, TypeStep DEF IInv, RecoveryInv
  <2>2. AckedDurable'
    BY AckedStep DEF IInv, RecoveryInv
  <2> QED BY <2>1, <2>2 DEF RecoveryInv
<1> QED BY <1>1, InvInit, InvStep, RecoveryInit, PTL DEF Spec

\* A handle of the active session shows everything that was acknowledged, even
\* a recovered one, when nothing but the head record is damaged.
THEOREM AcknowledgedIsShown == Spec => []AckedShown
BY InvStep, InvInit, RecoveryInit, RecoveryInvariance, ShownStep, PTL DEF Spec

\* A disk opened read-only shows the newest activation that reads back: a later
\* stage of the history than any other that does, however much is damaged.
THEOREM RecoversNewest == Spec => RecoveryIsNewest
<1>1. ASSUME IInv, LineInv, [Next]_vars, NEW h \in Handles,
             handle'[h].readOnly, ~handle[h].readOnly
      PROVE  /\ handle'[h].shown \in activations /\ Intact(handle'[h].shown)
             /\ \A a \in activations : Intact(a) => IsPrefix(a.chain, handle'[h].shown.chain)
  <2> DEFINE new == handle'[h].shown
  <2>1. RecoverActive(h)
    <3>1. ASSUME NEW k \in Handles, BeginReopenSession(k) \/ CloseHandle(k) \/ CommitReread(k)
          PROVE  FALSE
      BY <1>1, <3>1 DEF BeginReopenSession, CloseHandle, CommitReread, NoHandle, IInv, TypeOK,
         HandleOK
    <3>2. ASSUME NEW k \in Handles, RecoverActive(k) PROVE h = k
      BY <1>1, <3>2 DEF RecoverActive, OpenedWith, IInv, TypeOK, HandleOK
    <3>3. ASSUME NEW b \in Backends, Crash(b) PROVE FALSE
      BY <1>1, <3>3 DEF Crash, NoHandle
    <3> QED BY <1>1, <3>1, <3>2, <3>3, HandleSteps DEF IInv
  <2>2. PICK b \in activations : Newest(b) /\ new = b
    BY <1>1, <2>1 DEF RecoverActive, OpenedWith, NoHandle, IInv, TypeOK, HandleOK
  <2>3. Intact(new)
    BY <2>2 DEF Newest
  <2>4. ASSUME NEW a \in activations, Intact(a) PROVE IsPrefix(a.chain, new.chain)
    <3>1. a.headSeq <= b.headSeq
      BY <2>2, <2>4 DEF Newest
    <3>2. a.chain \in Chain /\ b.chain \in Chain /\ head.chain \in Chain
      BY <1>1 DEF IInv, TypeOK, ControlOK, HeadRecord
    <3> QED BY <1>1, <2>2, <3>1, <3>2, PrefixOrder DEF LineInv
  <2> QED BY <2>2, <2>3, <2>4
<1>2. IInv /\ RecoveryInv /\ [Next]_vars =>
        [\A h \in Handles :
           handle'[h].readOnly /\ ~handle[h].readOnly =>
             /\ handle'[h].shown \in activations /\ Intact(handle'[h].shown)
             /\ \A a \in activations : Intact(a) =>
                  IsPrefix(a.chain, handle'[h].shown.chain)]_vars
  BY <1>1 DEF RecoveryInv
<1> QED BY <1>2, RecoveryInvariance, PTL DEF Spec, RecoveryIsNewest

-----------------------------------------------------------------------------
\* The store implements DurableDisk

Readable == {r \in nodes : Closed(r)}
DDVars == <<head.chain, meta.activeSession, meta.writerHighWater, meta.activeWriterEpoch,
            refs, Readable>>

\* A freshly created disk is an initial state of DurableDisk.
LEMMA DDInit == Init => DD!DInit
<1> SUFFICES ASSUME Init PROVE DD!DInit
  OBVIOUS
<1>1. {r \in nodes : Closed(r)} = {{}}
  BY DEF Init, Closed
<1>2. /\ head.chain = <<[generation |-> 0, root |-> {}]>> /\ refs = {}
      /\ meta.activeSession = 1 /\ meta.writerHighWater = 0 /\ meta.activeWriterEpoch = 0
  BY DEF Init, GenesisHead, GenesisChain
<1> QED BY <1>1, <1>2 DEF DD!DInit

\* The steps that show nothing to a client of DurableDisk.
LEMMA DDStutter ==
  ASSUME head' = head, meta' = meta, refs' = refs, nodes' = nodes, pages' = pages
  PROVE  UNCHANGED DDVars
BY DEF DDVars, Readable, Closed

\* Opening a handle is a TakeOver of the abstract disk, or nothing.
LEMMA DDOpening ==
  ASSUME TypeOK, NEW h \in Handles, Opening(h)
  PROVE  DD!DNext \/ UNCHANGED DDVars
<1>1. CASE BeginReopenSession(h)
  <2>1. /\ head' = head /\ nodes' = nodes /\ pages' = pages
        /\ refs' = {x \in refs : x.kind # "snapshot"} /\ meta.sessionHighWater < MaxSession
    BY <1>1 DEF BeginReopenSession, RefsAfterReopen, objects
  <2>2. /\ meta'.activeSession = meta.sessionHighWater + 1
        /\ meta'.activeWriterEpoch = 0 /\ meta'.writerHighWater = meta.writerHighWater
    BY <1>1, <2>1, ReopenedType DEF BeginReopenSession, TypeOK
  <2>3. meta.activeSession = meta.sessionHighWater
        /\ meta.sessionHighWater + 1 \in 1..MaxSession
    BY <2>1, Bounds DEF TypeOK, MetaOK, Meta
  <2>4. refs' = refs \ {x \in Ref : x.kind = "snapshot"}
    BY <2>1 DEF TypeOK, ControlOK
  <2>5. meta.sessionHighWater + 1 > meta.activeSession
    BY <2>3, Bounds DEF TypeOK, MetaOK, Meta
  <2>6. DD!TakeOver(meta.sessionHighWater + 1)
    BY <2>1, <2>2, <2>4, <2>5 DEF DD!TakeOver, Closed
  <2> QED BY <2>3, <2>6 DEF DD!DNext
<1>2. CASE RecoverActive(h) \/ CloseHandle(h)
  BY <1>2, DDStutter DEF RecoverActive, CloseHandle, control, objects
<1> QED BY <1>1, <1>2 DEF Opening

\* Lease steps are Grant and Release of the abstract disk, or nothing.
LEMMA DDLeasing ==
  ASSUME TypeOK, NEW h \in Handles, Leasing(h)
  PROVE  DD!DNext \/ UNCHANGED DDVars
<1>1. head' = head /\ nodes' = nodes /\ pages' = pages /\ refs' = refs
  BY DEF Leasing, BeginWriter, CloseWriter, ReserveGeneration, objects
<1>2. CASE BeginWriter(h)
  <2>1. /\ meta.activeWriterEpoch = 0 /\ meta.writerHighWater + 1 \in 1..MaxWriter
        /\ meta.writerHighWater + 1 > meta.writerHighWater
    BY <1>2, Bounds DEF BeginWriter, TypeOK, MetaOK, Meta
  <2>2. /\ meta'.activeWriterEpoch = meta.writerHighWater + 1
        /\ meta'.writerHighWater = meta.writerHighWater + 1
        /\ meta'.activeSession = meta.activeSession
    BY <1>2 DEF BeginWriter, TypeOK, MetaOK, Meta
  <2>3. DD!Grant(meta.writerHighWater + 1)
    BY <1>1, <2>1, <2>2 DEF DD!Grant, Closed
  <2> QED BY <2>1, <2>3 DEF DD!DNext
<1>3. CASE CloseWriter(h)
  <2>1. /\ meta'.activeWriterEpoch = 0 /\ meta'.writerHighWater = meta.writerHighWater
        /\ meta'.activeSession = meta.activeSession
    BY <1>3 DEF CloseWriter, TypeOK, MetaOK, Meta
  <2>2. DD!Release
    BY <1>1, <2>1 DEF DD!Release, Closed
  <2> QED BY <2>2 DEF DD!DNext
<1>4. CASE ReserveGeneration(h)
  <2>1. /\ meta'.activeWriterEpoch = meta.activeWriterEpoch
        /\ meta'.writerHighWater = meta.writerHighWater
        /\ meta'.activeSession = meta.activeSession
    BY <1>4 DEF ReserveGeneration, TypeOK, MetaOK, Meta
  <2> QED BY <1>1, <2>1 DEF DDVars, Readable, Closed
<1> QED BY <1>2, <1>3, <1>4 DEF Leasing

\* A step that only adds objects is a Store of the abstract disk.
LEMMA DDStore ==
  ASSUME TypeOK, TypeOK', head' = head, meta' = meta, refs' = refs,
         nodes \subseteq nodes', pages \subseteq pages'
  PROVE  DD!DNext
<1>1. Readable' \in SUBSET Root /\ Readable \subseteq Readable'
  BY DEF Readable, Closed, TypeOK, ObjectsOK
<1>2. DD!Store
  BY <1>1 DEF DD!Store, Readable
<1> QED BY <1>2 DEF DD!DNext

\* The publishing transaction is a Publish of the abstract disk.
LEMMA DDPublish ==
  ASSUME IInv, NEW h \in Handles, CommitPublish(h), damage = 0
  PROVE  DD!DNext
<1> DEFINE g == GenOf(commit[h].next)
           r == RootOf(commit[h].next)
<1>1. /\ refs' = refs /\ nodes' = nodes /\ pages' = pages
      /\ commit[h].pc = "publish" /\ meta.activeWriterEpoch = commit[h].epoch
  BY DEF CommitPublish, CommitAt, PublishAllowed, objects
<1>2. /\ meta'.activeWriterEpoch = 0 /\ meta'.writerHighWater = meta.writerHighWater
      /\ meta'.activeSession = meta.activeSession
  BY PublishedType DEF CommitPublish, IInv, TypeOK
<1>3. PICK e \in Entry : /\ head'.chain = Append(head.chain, e)
                        /\ e.generation > GenOf(head.chain)
  BY PublishEffect DEF IInv
<1>4. head.chain \in Chain /\ head'.chain = commit[h].next
  BY PublishEffect DEF IInv
<1>5. GenOf(Append(head.chain, e)) = e.generation /\ RootOf(Append(head.chain, e)) = e.root
  BY <1>4, AppendParts
<1>6. e = [generation |-> g, root |-> r]
  BY <1>3, <1>4, <1>5 DEF Entry
<1>7. GenOf(head.chain) \in Nat /\ e.generation \in 0..MaxGeneration
  BY <1>4, ChainParts, Bounds DEF Entry
<1>8. g \in 1..MaxGeneration /\ r \in Root /\ g > head.chain[Len(head.chain)].generation
  <2>1. g = e.generation /\ r = e.root
    BY <1>3, <1>4, <1>5
  <2>2. e.generation \in 1..MaxGeneration
    BY <1>3, <1>7, Bounds
  <2> HIDE DEF g, r
  <2> QED BY <1>3, <2>1, <2>2 DEF GenOf, Entry
<1>9. r \in Readable /\ Readable' = Readable
  <2>1. Closed(RootOf(head'.chain))
    BY PublishComplete
  <2> QED BY <1>1, <1>4, <2>1 DEF Readable, Closed
<1>10. meta.activeWriterEpoch # 0
  BY <1>1 DEF IInv, HistoryInv, CommitInv
<1>11. DD!Publish(g, r)
  <2> HIDE DEF g, r
  <2> QED BY <1>1, <1>2, <1>3, <1>6, <1>8, <1>9, <1>10 DEF DD!Publish, Readable
<1> QED BY <1>8, <1>11 DEF DD!DNext

\* The steps of commit() are Store and Publish, or nothing.
LEMMA DDCommitting ==
  ASSUME IInv, TypeOK', damage = 0, NEW h \in Handles, Committing(h)
  PROVE  DD!DNext \/ UNCHANGED DDVars
<1>1. CASE CommitPublish(h)
  BY <1>1, DDPublish
<1>2. CASE CommitStage(h)
  <2>1. /\ head' = head /\ meta' = meta /\ refs' = refs
        /\ nodes \subseteq nodes' /\ pages \subseteq pages'
    BY <1>2 DEF CommitStage, control
  <2> QED BY <2>1, DDStore DEF IInv
<1>3. CASE ~CommitPublish(h) /\ ~CommitStage(h)
  <2>1. head' = head /\ meta' = meta /\ refs' = refs /\ nodes' = nodes /\ pages' = pages
    BY <1>3 DEF Committing, CommitProgress, CommitBegin, CommitVerify, CommitPrune, CommitReread,
       CommitFail, control, objects
  <2> QED BY <2>1, DDStutter
<1> QED BY <1>1, <1>2, <1>3

\* The steps of compact() are Collect, or nothing.
LEMMA DDCompacting ==
  ASSUME IInv, damage = 0, NEW h \in Handles, Compacting(h)
  PROVE  DD!DNext \/ UNCHANGED DDVars
<1>1. CASE CompactSweep(h)
  <2>1. /\ compact[h].pc = "sweep" /\ meta.activeWriterEpoch = compact[h].epoch
        /\ head = compact[h].marked /\ refs = compact[h].seen
        /\ pages' = pages \cap UNION compact[h].keep
        /\ nodes' = nodes \cap compact[h].keep
        /\ meta' = meta /\ head' = head /\ refs' = refs
    BY <1>1 DEF CompactSweep, SweepAllowed, control
  <2>2. Stored /\ MarkComplete(h)
    BY DEF IInv, ObjectInv, SlotOK
  <2>3. /\ RootsOf(head.chain) \subseteq compact[h].keep /\ compact[h].epoch # 0
        /\ \A x \in refs : x.root \in compact[h].keep
    BY <2>1, <2>2 DEF MarkComplete
  <2>4. Readable' \in SUBSET Readable
    BY <2>1 DEF Readable, Closed
  <2>5. ASSUME NEW r \in RootsOf(head.chain) \cup {x.root : x \in refs}
        PROVE  r \in Readable'
    BY <2>1, <2>2, <2>3 DEF Stored, Readable, Closed
  <2>6. DD!Needed = RootsOf(head.chain) \cup {x.root : x \in refs}
    BY DEF DD!Needed, RootsOf
  <2>7. DD!Needed \subseteq Readable'
    BY <2>5, <2>6
  <2>8. DD!Collect
    BY <2>1, <2>3, <2>4, <2>7 DEF DD!Collect, Readable
  <2> QED BY <2>8 DEF DD!DNext
<1>2. CASE ~CompactSweep(h)
  <2>1. head' = head /\ meta' = meta /\ refs' = refs /\ nodes' = nodes /\ pages' = pages
    BY <1>2 DEF Compacting, CompactMark, CompactMarkRefs, CompactFail, control, objects
  <2> QED BY <2>1, DDStutter
<1> QED BY <1>1, <1>2

\* The steps of pinRoot() and unpinRoot() are Pin and Unpin, or nothing.
LEMMA DDPinning ==
  ASSUME IInv, TypeOK', RefsAdmissible, damage = 0, NEW h \in Handles, Pinning(h)
  PROVE  DD!DNext \/ UNCHANGED DDVars
<1>1. head' = head /\ nodes' = nodes /\ pages' = pages
  BY DEF Pinning, PinVerify, PinAdd, PinFail, UnpinRoot, control, objects
<1>2. ASSUME NEW k \in Kinds, PinAdd(h, k) PROVE DD!DNext
  <2> DEFINE p == [sequence |-> meta.refHighWater + 1, kind |-> k, root |-> pin[h].root,
                   creatorSession |-> IF k = "snapshot" THEN handle[h].session ELSE 0]
  <2>1. refs' = refs \cup {p} /\ p.root = pin[h].root
    BY <1>2 DEF PinAdd
  <2> HIDE DEF p
  <2>2. p \in Ref
    BY <2>1 DEF TypeOK, ControlOK
  <2>3. pin[h].root \in Readable
    BY <1>2 DEF PinAdd, IInv, ObjectInv, Stored, Readable, Closed
  <2>4. /\ meta'.activeWriterEpoch = meta.activeWriterEpoch
        /\ meta'.writerHighWater = meta.writerHighWater
        /\ meta'.activeSession = meta.activeSession
    BY <1>2 DEF PinAdd, IInv, TypeOK, MetaOK, Meta
  <2>5. DD!Pin(p)
    BY <1>1, <2>1, <2>3, <2>4 DEF DD!Pin, Readable, Closed
  <2> QED BY <2>2, <2>5 DEF DD!DNext
<1>3. ASSUME NEW s \in 1..MaxRef, UnpinRoot(h, s) PROVE DD!DNext \/ UNCHANGED DDVars
  <2>1. refs' = {x \in refs : x.sequence # s} /\ meta' = meta
    BY <1>3 DEF UnpinRoot
  <2>2. CASE \A x \in refs : x.sequence # s
    <3>1. refs' = refs
      BY <2>1, <2>2
    <3> QED BY <1>1, <2>1, <3>1, DDStutter
  <2>3. ASSUME NEW p \in refs, p.sequence = s PROVE DD!DNext
    <3>1. refs' = refs \ {p}
      BY <2>1, <2>3 DEF RefsAdmissible
    <3>2. DD!Unpin({p})
      BY <1>1, <2>1, <3>1 DEF DD!Unpin, Closed
    <3> QED BY <3>2 DEF DD!DNext
  <2> QED BY <2>2, <2>3
<1>4. ASSUME (\E r \in Root : PinVerify(h, r)) \/ PinFail(h) PROVE UNCHANGED DDVars
  <2>1. meta' = meta /\ refs' = refs
    BY <1>4 DEF PinVerify, PinFail, control
  <2> QED BY <1>1, <2>1, DDStutter
<1> QED BY <1>2, <1>3, <1>4 DEF Pinning

\* If nothing damages stored records, every step of the store is one atomic
\* operation of DurableDisk or invisible to its clients.
THEOREM Implementation == ASSUME MaxDamage = 0 PROVE Spec => ImplementsDurableDisk
<1>1. IInv /\ IInv' /\ RefsAdmissible /\ [Next]_vars => [DD!DNext]_DDVars
  <2> SUFFICES ASSUME IInv, IInv', RefsAdmissible, [Next]_vars
               PROVE  DD!DNext \/ UNCHANGED DDVars
    OBVIOUS
  <2>1. damage = 0 /\ damage' = 0 /\ TypeOK /\ TypeOK'
    BY DEF IInv, TypeOK, ControlOK
  <2>2. ~Damage
    BY <2>1 DEF Damage, DamageHead, DamageActivation, DamageObject, Damaging
  <2>3. ASSUME NEW h \in Handles, Staging(h) PROVE DD!DNext \/ UNCHANGED DDVars
    <3>1. /\ head' = head /\ meta' = meta /\ refs' = refs
          /\ nodes \subseteq nodes' /\ pages \subseteq pages'
      BY <2>3 DEF Staging, StageBegin, StageLand, control, objects
    <3> QED BY <2>1, <3>1, DDStore
  <2>4. ASSUME (\E b \in Backends : Crash(b)) \/ UNCHANGED vars PROVE UNCHANGED DDVars
    <3>1. head' = head /\ meta' = meta /\ refs' = refs /\ nodes' = nodes /\ pages' = pages
      BY <2>4 DEF Crash, vars, control, objects
    <3> QED BY <3>1, DDStutter
  <2> QED BY <2>1, <2>2, <2>3, <2>4, DDOpening, DDLeasing, DDCommitting, DDCompacting, DDPinning
          DEF Next
<1>2. [DD!DNext]_DDVars => [DD!DNext]_(DD!dvars)
  BY DEF DDVars, DD!dvars, Readable
<1> QED BY <1>1, <1>2, DDInit, Invariance, RefsStayAdmissible, PTL
        DEF Spec, ImplementsDurableDisk, DD!DSpec
=============================================================================
