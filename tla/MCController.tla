------------------------------ MODULE MCController -----------------------------
(* Two calls on two read loops.  r1 goes to a peer known under its real      *)
(* identifier, r2 to one that the handshake may rename.                      *)
EXTENDS Controller, TLC

CONSTANTS r1, r2, p1, p2

MCTarget == (r1 :> p1) @@ (r2 :> p2)
MCOp     == (r1 :> "StartRemoteMiner") @@ (r2 :> "PingPeer")
================================================================================
