--------------------------- MODULE MCM10Controller ---------------------------
(***************************************************************************)
(* Small instances of M10Controller.                                       *)
(***************************************************************************)
EXTENDS M10Controller, TLC

CONSTANTS r0, r1, MaxSession, MaxEpoch

MCSessions == 1..MaxSession
MCEpochs == 1..MaxEpoch
MCGenerations == 1..(MaxLog - 1)
MCPins == [root : {r0, r1}, session : 1..MaxSession]
=============================================================================
