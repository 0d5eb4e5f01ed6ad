--------------------------------- MODULE MCNode --------------------------------
(***************************************************************************)
(* Three parts of a node for TLC: its identity, the peers that it knows,   *)
(* and the read loops of its connections.  They share no state, so a       *)
(* behaviour exercises one of them, chosen at the start.                   *)
(***************************************************************************)
EXTENDS Identity, PeerRegistry, ReadLoop, TLC

VARIABLE part

nodeVars == <<part, identityVars, vars, readVars>>

NodeInit ==
    /\ part \in {"identity", "peers", "loops"}
    /\ IdentityInit
    /\ Init
    /\ LoopInit

NodeNext ==
    \/ part = "identity" /\ IdentityNext /\ UNCHANGED <<part, vars, readVars>>
    \/ part = "peers" /\ Next /\ UNCHANGED <<part, identityVars, readVars>>
    \/ part = "loops" /\ LoopNext /\ UNCHANGED <<part, identityVars, vars>>

NodeSpec == NodeInit /\ [][NodeNext]_nodeVars

\* Announced scores: one below the range, none, and one above the range.
MCAnnounced == {-1, 0, 3}

\* No operation tells one peer from another.
PeersAlike == Permutations(Ids)
================================================================================
