----------------------------- MODULE MCIdbStore -----------------------------
(***************************************************************************)
(* Small instances of IdbStore.                                            *)
(***************************************************************************)
EXTENDS IdbStore, TLC

CONSTANTS h1, h2, tabA, tabB, p1, p2

\* Two tabs, one handle each.
TwoTabs == h1 :> tabA @@ h2 :> tabB

\* One tab that reopens its disk while an old handle is still in use.
OneTab == h1 :> tabA @@ h2 :> tabA
=============================================================================
