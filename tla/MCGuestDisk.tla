---------------------------- MODULE MCGuestDisk ----------------------------
(***************************************************************************)
(* A small instance of GuestDisk: a drive of two blocks, one page of guest *)
(* memory, and two CCW lists: one of two pages, which from block 1 runs    *)
(* off the drive, and one whose page is outside memory.                    *)
(***************************************************************************)
EXTENDS GuestDisk, TLC

CONSTANTS va, vb, pg, nopg

BaseImage == 0 :> va @@ 1 :> va

Ccws(page, more) == [page |-> page, more |-> more]

CcwLists == {<<Ccws(pg, TRUE), Ccws(pg, FALSE)>>, <<Ccws(nopg, FALSE)>>}
=============================================================================
