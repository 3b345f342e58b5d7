----------------------------- MODULE DurableDisk -----------------------------
(***************************************************************************)
(* What the persistence layer promises its callers, with every disk        *)
(* operation atomic: a private disk is an append-only history of complete  *)
(* page trees, changed only by the newest session under a single-use       *)
(* writer grant, and nothing that the history or a pin needs is collected. *)
(*                                                                         *)
(* cadr-m10-indexeddb.mjs implements it (module IdbStore), and             *)
(* cadr-m10-controller.mjs uses it (module M10Controller).                 *)
(***************************************************************************)
EXTENDS Integers, Sequences, SequencesExt

CONSTANTS Sessions, Epochs, Generations, Roots, Pins, EmptyRoot, SessionPins

VARIABLES
  log,      \* published [generation, root] entries, oldest first
  owner,    \* the session that may act
  issued,   \* the last writer epoch granted
  grant,    \* the epoch that may publish next, 0 when none may
  pinned,   \* the pins in force
  readable  \* roots whose whole tree can be read

dvars == <<log, owner, issued, grant, pinned, readable>>

DInit ==
  /\ log = <<[generation |-> 0, root |-> EmptyRoot]>>
  /\ owner = 1 /\ issued = 0 /\ grant = 0
  /\ pinned = {} /\ readable = {EmptyRoot}

\* A new session takes over: the old one, its grant and its pins are void.
TakeOver(s) ==
  /\ s > owner /\ owner' = s /\ grant' = 0
  /\ pinned' = pinned \ SessionPins
  /\ UNCHANGED <<log, issued, readable>>

\* An epoch is granted once, and to one writer at a time.
Grant(e) ==
  /\ grant = 0 /\ e > issued /\ grant' = e /\ issued' = e
  /\ UNCHANGED <<log, owner, pinned, readable>>

Release ==
  /\ grant' = 0 /\ UNCHANGED <<log, owner, issued, pinned, readable>>

\* Publication uses the grant up and appends one complete newer tree.
Publish(g, r) ==
  /\ grant # 0 /\ grant' = 0
  /\ g > log[Len(log)].generation /\ r \in readable
  /\ log' = Append(log, [generation |-> g, root |-> r])
  /\ UNCHANGED <<owner, issued, pinned, readable>>

Pin(p) ==
  /\ p.root \in readable /\ pinned' = pinned \cup {p}
  /\ UNCHANGED <<log, owner, issued, grant, readable>>

Unpin(ps) ==
  /\ pinned' = pinned \ ps
  /\ UNCHANGED <<log, owner, issued, grant, readable>>

\* Staging makes trees readable.
Store ==
  /\ readable' \in SUBSET Roots /\ readable \subseteq readable'
  /\ UNCHANGED <<log, owner, issued, grant, pinned>>

\* Collection runs under the grant and spares the history and the pins.
Needed == {log[i].root : i \in 1..Len(log)} \cup {p.root : p \in pinned}
Collect ==
  /\ grant # 0
  /\ readable' \in SUBSET readable /\ Needed \subseteq readable'
  /\ UNCHANGED <<log, owner, issued, grant, pinned>>

DNext ==
  \/ \E s \in Sessions : TakeOver(s)
  \/ \E e \in Epochs : Grant(e)
  \/ Release
  \/ \E g \in Generations, r \in Roots : Publish(g, r)
  \/ \E p \in Pins : Pin(p)
  \/ \E p \in pinned : Unpin({p})
  \/ Store
  \/ Collect

DSpec == DInit /\ [][DNext]_dvars
=============================================================================
