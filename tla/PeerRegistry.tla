----------------------------- MODULE PeerRegistry ------------------------------
(***************************************************************************)
(* The contents of the peer registry: the peers, their scores and metrics, *)
(* and the KD-tree that selection asks (go/node/peer.go), together with    *)
(* the callers that read a peer, do something else, and write it back:     *)
(* announcePeer (go/pkg/api/handlers.go), Connect (transport.go) and       *)
(* PingPeer (controller.go).                                               *)
(*                                                                         *)
(* Hops and GeoKM are used alike and are one number, geo.  Scores are      *)
(* integers on a short scale.  Name, address, keys, role and time stamps   *)
(* are left out, and so is persistence: see RegistrySave.                  *)
(***************************************************************************)
EXTENDS Integers, FiniteSets

CONSTANTS
    Ids,           \* peer IDs
    Calls,         \* bound: calls under way at the same time
    ScoreMaximum,  \* best score; the worst is 0
    ScoreDefault,  \* score of a new peer
    ScoreSuccessIncrement,
    ScoreFailureDecrement,
    ScoreTimeoutDecrement,
    Scores,        \* scores given to UpdateScore
    Announced,     \* scores in announcements; 0 means none
    Metrics,       \* values of ping and geo
    None           \* no peer

ASSUME PeerRegistryAssumption ==
    /\ IsFiniteSet(Ids)
    /\ ScoreMaximum \in Nat /\ ScoreDefault \in 0..ScoreMaximum
    /\ ScoreSuccessIncrement \in Nat
    /\ ScoreFailureDecrement \in Nat
    /\ ScoreTimeoutDecrement \in Nat
    /\ Scores \subseteq Int /\ Announced \subseteq Int /\ Metrics \subseteq Int

Peer == [score : Int, ping : Metrics, geo : Metrics, connected : BOOLEAN]

ASSUME NoneIsNoPeer == None \notin Peer

VARIABLES
    peers,   \* r.peers: peers[id] is a Peer or None
    kdTree,  \* r.kdTree: a set of points, empty if there is no tree
    stage,   \* stage[c]: what a call does next
    id,      \* id[c]: the peer that it is about
    copy,    \* copy[c]: the Peer that it has in hand
    lowest,  \* history: the worst score announced so far, or 0
    highest  \* history: the best score announced so far, or ScoreMaximum

extremes == <<lowest, highest>>
vars == <<peers, kdTree, stage, id, copy, extremes>>

Stages == {"idle", "announce", "update", "dial", "add", "store", "ping"}
Points == [id : Ids, ping : Metrics, geo : Metrics, badness : Int]

TypeOK ==
    /\ peers \in [Ids -> Peer \cup {None}]
    /\ kdTree \subseteq Points
    /\ stage \in [Calls -> Stages]
    /\ id \in [Calls -> Ids \cup {None}]
    /\ copy \in [Calls -> Peer \cup {None}]
    /\ \A c \in Calls : stage[c] # "idle" => id[c] \in Ids /\ copy[c] \in Peer
    /\ lowest \in Int /\ highest \in Int

Init ==
    /\ peers = [i \in Ids |-> None]
    /\ kdTree = {}
    /\ stage = [c \in Calls |-> "idle"]
    /\ id = [c \in Calls |-> None]
    /\ copy = [c \in Calls |-> None]
    /\ lowest = 0
    /\ highest = ScoreMaximum

--------------------------------------------------------------------------------
(* The tree and the queries. *)

Known == {i \in Ids : peers[i] # None}

MutBadness(p) == p.score

\* The score is inverted: less is better.
Badness(p) == ScoreMaximum - p.score

\* rebuildKDTree: the tree of a registry with contents ps.
Tree(ps) ==
    {[id |-> i, ping |-> ps[i].ping, geo |-> ps[i].geo, badness |-> Badness(ps[i])] :
       i \in {j \in Ids : ps[j] # None}}

\* The square of the weighted distance to the ideal peer, with the weights of
\* ping, hops and score in tenths.
Distance(p) ==
    100 * p.ping * p.ping + 49 * p.geo * p.geo + 144 * p.badness * p.badness

\* KNearest of the tree may return any of these sets.
KNearest(n) ==
    {S \in SUBSET kdTree :
       /\ Cardinality(S) = IF n < Cardinality(kdTree) THEN n ELSE Cardinality(kdTree)
       /\ \A p \in S, q \in kdTree \ S : Distance(p) <= Distance(q)}

\* What SelectNearestPeers(n) may return; SelectOptimalPeer is the case n = 1.
SelectNearestPeers(n) == {{p.id : p \in S} \cap Known : S \in KNearest(n)}

--------------------------------------------------------------------------------
(* The operations of the registry, each under r.mu. *)

\* Put p under i and rebuild the tree.
Put(i, p) ==
    /\ peers' = [peers EXCEPT ![i] = p]
    /\ kdTree' = Tree(peers')

WithDefault(p) == IF p.score = 0 THEN [p EXCEPT !.score = ScoreDefault] ELSE p

\* AddPeer: fails for an ID that is taken, and for a bad name.
AddPeer(i, p) ==
    \/ peers[i] = None /\ Put(i, WithDefault(p))
    \/ UNCHANGED <<peers, kdTree>>

\* UpdatePeer of a peer that exists.
UpdatePeer(i, p) == peers[i] # None /\ Put(i, p)

RemovePeer(i) ==
    /\ peers[i] # None
    /\ Put(i, None)
    /\ UNCHANGED <<stage, id, copy, extremes>>

MutClamp(s) == IF s < 0 THEN 0 ELSE s

Clamp(s) == IF s < 0 THEN 0 ELSE IF s > ScoreMaximum THEN ScoreMaximum ELSE s

UpdateScore(i, s) ==
    /\ peers[i] # None
    /\ Put(i, [peers[i] EXCEPT !.score = Clamp(s)])
    /\ UNCHANGED <<stage, id, copy, extremes>>

UpdateMetrics(i, ping, geo) ==
    /\ peers[i] # None
    /\ Put(i, [peers[i] EXCEPT !.ping = ping, !.geo = geo])

RecordSuccess(i) ==
    /\ peers[i] # None
    /\ LET s == peers[i].score + ScoreSuccessIncrement
       IN  Put(i, [peers[i] EXCEPT !.score = IF s > ScoreMaximum THEN ScoreMaximum ELSE s])
    /\ UNCHANGED <<stage, id, copy, extremes>>

Lowered(i, decrement) ==
    LET s == peers[i].score - decrement IN [peers[i] EXCEPT !.score = IF s < 0 THEN 0 ELSE s]

RecordFailure(i) ==
    /\ peers[i] # None
    /\ Put(i, Lowered(i, ScoreFailureDecrement))
    /\ UNCHANGED <<stage, id, copy, extremes>>

MutRecordTimeout(i) ==
    /\ peers[i] # None
    /\ peers' = [peers EXCEPT ![i] = Lowered(i, ScoreTimeoutDecrement)]
    /\ UNCHANGED <<kdTree, stage, id, copy, extremes>>

RecordTimeout(i) ==
    /\ peers[i] # None
    /\ Put(i, Lowered(i, ScoreTimeoutDecrement))
    /\ UNCHANGED <<stage, id, copy, extremes>>

\* SetConnected leaves the tree alone.
SetConnected(i, connected) ==
    /\ peers' = [peers EXCEPT ![i] = IF @ = None THEN None
                                                 ELSE [@ EXCEPT !.connected = connected]]
    /\ UNCHANGED kdTree

--------------------------------------------------------------------------------
(* Calls that read a peer and write it back later. *)

Begin(c, s, i, p) ==
    /\ stage[c] = "idle"
    /\ stage' = [stage EXCEPT ![c] = s]
    /\ id' = [id EXCEPT ![c] = i]
    /\ copy' = [copy EXCEPT ![c] = p]
    /\ UNCHANGED <<peers, kdTree>>

End(c) ==
    /\ stage' = [stage EXCEPT ![c] = "idle"]
    /\ id' = [id EXCEPT ![c] = None]
    /\ copy' = [copy EXCEPT ![c] = None]

\* announcePeer has decoded its body and called GetPeer: a peer that exists
\* keeps its score unless the body gives one.  The body may give any score.
StartAnnounce(c, i, s, ping, geo) ==
    LET body == [score |-> s, ping |-> ping, geo |-> geo, connected |-> FALSE]
    IN  /\ IF peers[i] = None
             THEN Begin(c, "announce", i, body)
             ELSE Begin(c, "update", i, IF s = 0 THEN [body EXCEPT !.score = peers[i].score]
                                                 ELSE body)
        /\ lowest' = IF s < lowest THEN s ELSE lowest
        /\ highest' = IF s > highest THEN s ELSE highest

\* announcePeer adds or updates; an error is for the client to see.
EndAnnounce(c) ==
    /\ \/ stage[c] = "announce" /\ AddPeer(id[c], copy[c])
       \/ stage[c] = "update" /\ UpdatePeer(id[c], copy[c])
       \/ /\ stage[c] = "update"
          /\ peers[id[c]] = None
          /\ UNCHANGED <<peers, kdTree>>
    /\ End(c)
    /\ UNCHANGED extremes

\* GetPeer, and Connect starts to dial.
StartConnect(c, i) ==
    peers[i] # None /\ Begin(c, "dial", i, peers[i]) /\ UNCHANGED extremes

\* The handshake is through: the other side is peer i.
Handshake(c, i) ==
    /\ stage[c] = "dial"
    /\ id' = [id EXCEPT ![c] = i]
    /\ \/ UpdatePeer(i, copy[c]) /\ stage' = [stage EXCEPT ![c] = "store"]
       \/ /\ peers[i] = None
          /\ stage' = [stage EXCEPT ![c] = "add"]
          /\ UNCHANGED <<peers, kdTree>>
    /\ UNCHANGED <<copy, extremes>>

\* Dialling or the handshake fails.
ConnectFails(c) == stage[c] = "dial" /\ End(c) /\ UNCHANGED <<peers, kdTree, extremes>>

\* UpdatePeer did not find the peer: AddPeer, whose failure is ignored.
AddConnected(c) ==
    /\ stage[c] = "add"
    /\ AddPeer(id[c], copy[c])
    /\ stage' = [stage EXCEPT ![c] = "store"]
    /\ UNCHANGED <<id, copy, extremes>>

EndConnect(c) ==
    stage[c] = "store" /\ SetConnected(id[c], TRUE) /\ End(c) /\ UNCHANGED extremes

\* PingPeer has its pong and calls GetPeer, for the metrics that it keeps.
StartPing(c, i) ==
    peers[i] # None /\ Begin(c, "ping", i, peers[i]) /\ UNCHANGED extremes

EndPing(c, rtt) ==
    /\ stage[c] = "ping"
    /\ \/ UpdateMetrics(id[c], rtt, copy[c].geo)
       \/ peers[id[c]] = None /\ UNCHANGED <<peers, kdTree>>
    /\ End(c)
    /\ UNCHANGED extremes

--------------------------------------------------------------------------------
\* removeConnection, when the connection of a peer ends.
Disconnected(i) ==
    /\ peers[i] # None /\ peers[i].connected
    /\ SetConnected(i, FALSE)
    /\ UNCHANGED <<stage, id, copy, extremes>>

Next ==
    \/ \E i \in Ids : \/ RemovePeer(i) \/ RecordSuccess(i) \/ RecordFailure(i)
                      \/ RecordTimeout(i) \/ Disconnected(i)
                      \/ \E s \in Scores : UpdateScore(i, s)
    \/ \E c \in Calls :
         \/ \E i \in Ids, s \in Announced, ping, geo \in Metrics :
              StartAnnounce(c, i, s, ping, geo)
         \/ \E i \in Ids : StartConnect(c, i) \/ Handshake(c, i) \/ StartPing(c, i)
         \/ EndAnnounce(c) \/ ConnectFails(c) \/ AddConnected(c) \/ EndConnect(c)
         \/ \E rtt \in Metrics : EndPing(c, rtt)

Spec == Init /\ [][Next]_vars

--------------------------------------------------------------------------------
\* "Peer reliability is tracked with a score between 0 and 100"
\* (docs/discovery.md:115).  announcePeer stores whatever score it is given.
ScoreInRange == \A i \in Known : peers[i].score \in 0..ScoreMaximum

\* What does hold of the range: announcements alone take a score out of it,
\* and no further than they themselves go.  The increments, the decrements,
\* UpdateScore (peer.go:396), defaults and copies that are written back when
\* they are out of date add nothing to that.
ScoreAsAnnounced == \A i \in Known : peers[i].score \in lowest..highest

\* Selection never works on old data: between operations the tree has exactly
\* the registered peers, at their present metrics and scores, however calls
\* overlap (peer.go:287, 304, 321, 379, 400, 466, 486, 512).
TreeFresh == kdTree = Tree(peers)

\* i is at least as good as j everywhere, and better somewhere.
Better(i, j) ==
    LET p == peers[i]
        q == peers[j]
    IN  /\ p.ping <= q.ping /\ p.geo <= q.geo /\ p.score >= q.score
        /\ p.ping < q.ping \/ p.geo < q.geo \/ p.score > q.score

\* Peer j is no better than the ideal peer that selection looks for.
BelowIdeal(j) == peers[j].ping >= 0 /\ peers[j].geo >= 0 /\ peers[j].score <= ScoreMaximum

\* "Lower ping, hops, geo are better; higher score is better" (peer.go:113): a
\* peer is never selected in place of one that is better in every respect, and
\* selection comes up with as many peers as there are.  This is for metrics and
\* scores on this side of the ideal peer's; beyond it, where an announcement
\* can take them, better is further away.
BestAreSelected ==
    \A n \in 1..Cardinality(Ids) : \A S \in SelectNearestPeers(n) :
      /\ Cardinality(S) = IF n < Cardinality(Known) THEN n ELSE Cardinality(Known)
      /\ \A i \in S, j \in Known \ S : BelowIdeal(j) => ~Better(j, i)
================================================================================
