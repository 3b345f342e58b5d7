---------------------------- MODULE MCM13Session ----------------------------
(***************************************************************************)
(* An instance of M13Session for TLC: the application with and without     *)
(* faults, and callers that stop, hide, or reset the machine while its     *)
(* slices, its disk requests and its input are under way.                  *)
(***************************************************************************)
EXTENDS M13Session

Driver(ops, faults) == [client |-> "driver", ops |-> ops, faults |-> faults]

MCSessions ==
  [client : {"app"}, ops : {{}}, faults : BOOLEAN] \cup
  { Driver({"run", "start", "pause", "stop"}, FALSE),
    Driver({"run", "start", "pause", "hide", "show"}, FALSE),
    Driver({"run", "start", "pause", "reset", "boot"}, FALSE),
    Driver({"run", "start", "input"}, TRUE) }

=============================================================================
