--------------------------- MODULE PeerRegistryProofs --------------------------
(***************************************************************************)
(* Proofs about PeerRegistry for any number of peers, of calls under way,  *)
(* any score scale and any announcements: types, the freshness of the      *)
(* KD-tree, how far scores can leave their range, and what selection       *)
(* returns.                                                                *)
(***************************************************************************)
EXTENDS PeerRegistry, FiniteSetTheorems, TLAPS

--------------------------------------------------------------------------------
\* Init establishes TypeOK.
LEMMA InitType == Init => TypeOK
  BY PeerRegistryAssumption DEF Init, TypeOK, Stages

\* The tree of well-formed peers is a set of points (rebuildKDTree).
LEMMA TreeType ==
  ASSUME NEW ps \in [Ids -> Peer \cup {None}]
  PROVE  Tree(ps) \subseteq Points
<1> SUFFICES ASSUME NEW i \in {j \in Ids : ps[j] # None}
             PROVE  [id |-> i, ping |-> ps[i].ping, geo |-> ps[i].geo,
                     badness |-> Badness(ps[i])] \in Points
  BY DEF Tree
<1>1. ps[i] \in Peer
  OBVIOUS
<1>2. ps[i].score \in Int /\ ps[i].ping \in Metrics /\ ps[i].geo \in Metrics
  BY <1>1 DEF Peer
<1>3. Badness(ps[i]) \in Int
  BY <1>2, PeerRegistryAssumption DEF Badness
<1> QED
  BY <1>2, <1>3 DEF Points

\* A peer with new metrics is a peer, with its old score (UpdateMetrics).
LEMMA MeasuredPeer ==
  ASSUME NEW q \in Peer, NEW ping \in Metrics, NEW geo \in Metrics
  PROVE  /\ [q EXCEPT !.ping = ping, !.geo = geo] \in Peer
         /\ [q EXCEPT !.ping = ping, !.geo = geo].score = q.score
BY Zenon DEF Peer

\* Put of a well-formed peer, or of none, keeps peers and tree well formed, and
\* the tree fresh.
LEMMA PutType ==
  ASSUME TypeOK, NEW i \in Ids, NEW p \in Peer \cup {None}, Put(i, p)
  PROVE  /\ peers' \in [Ids -> Peer \cup {None}]
         /\ kdTree' \subseteq Points
         /\ TreeFresh'
<1>1. peers' \in [Ids -> Peer \cup {None}]
  BY DEF TypeOK, Put
<1>2. kdTree' = Tree(peers')
  BY DEF Put
<1>3. kdTree' \subseteq Points
  BY <1>1, <1>2, TreeType
<1>4. TreeFresh'
  BY <1>2 DEF TreeFresh
<1> QED
  BY <1>1, <1>3, <1>4

\* What a step that only works on the contents may do to them.
ContentsOK ==
  /\ peers' \in [Ids -> Peer \cup {None}]
  /\ kdTree' \subseteq Points
  /\ TreeFresh'

\* The same for AddPeer.
LEMMA AddPeerType ==
  ASSUME TypeOK, TreeFresh, NEW i \in Ids, NEW p \in Peer, AddPeer(i, p)
  PROVE  ContentsOK
<1>1. CASE peers[i] = None /\ Put(i, WithDefault(p))
  <2>1. WithDefault(p) \in Peer
    BY PeerRegistryAssumption DEF WithDefault, Peer
  <2> QED
    BY <1>1, <2>1, PutType DEF ContentsOK
<1>2. CASE UNCHANGED <<peers, kdTree>>
  BY <1>2 DEF ContentsOK, TypeOK, TreeFresh, Tree
<1> QED
  BY <1>1, <1>2 DEF AddPeer

\* SetConnected changes nothing that the tree is made of.
LEMMA SetConnectedType ==
  ASSUME TypeOK, TreeFresh, NEW i \in Ids, NEW b \in BOOLEAN, SetConnected(i, b)
  PROVE  ContentsOK
<1>1. peers' \in [Ids -> Peer \cup {None}]
  BY DEF TypeOK, SetConnected, Peer
<1>2. ASSUME NEW j \in Ids
      PROVE  /\ peers'[j] # None <=> peers[j] # None
             /\ peers[j] # None => /\ peers'[j].ping = peers[j].ping
                                   /\ peers'[j].geo = peers[j].geo
                                   /\ peers'[j].score = peers[j].score
  BY NoneIsNoPeer DEF TypeOK, SetConnected, Peer
<1>3. {j \in Ids : peers'[j] # None} = {j \in Ids : peers[j] # None}
  BY <1>2
<1>4. Tree(peers') = Tree(peers)
  BY <1>2, <1>3 DEF Tree, Badness
<1>5. kdTree' = kdTree
  BY DEF SetConnected
<1> QED
  BY <1>1, <1>4, <1>5 DEF ContentsOK, TypeOK, TreeFresh

\* A step that works on the contents and leaves the calls alone.
LEMMA ContentsStep ==
  ASSUME TypeOK, ContentsOK, UNCHANGED <<stage, id, copy, extremes>>
  PROVE  TypeOK' /\ TreeFresh'
  BY DEF TypeOK, ContentsOK, extremes

\* A step that ends a call.
LEMMA EndStep ==
  ASSUME TypeOK, ContentsOK, NEW c \in Calls, End(c), UNCHANGED extremes
  PROVE  TypeOK' /\ TreeFresh'
  BY DEF TypeOK, ContentsOK, End, Stages, extremes

\* A step that begins a call.
LEMMA BeginStep ==
  ASSUME TypeOK, TreeFresh, NEW c \in Calls, NEW s \in Stages, NEW i \in Ids, NEW p \in Peer,
         Begin(c, s, i, p), lowest' \in Int, highest' \in Int
  PROVE  TypeOK' /\ TreeFresh'
  BY DEF TypeOK, TreeFresh, Tree, Begin

--------------------------------------------------------------------------------
\* The operations of the registry on a peer that exists.
LEMMA OperationStep ==
  ASSUME TypeOK, TreeFresh, NEW i \in Ids,
         \/ RemovePeer(i) \/ RecordSuccess(i) \/ RecordFailure(i)
         \/ RecordTimeout(i) \/ Disconnected(i)
         \/ \E s \in Scores : UpdateScore(i, s)
  PROVE  TypeOK' /\ TreeFresh'
<1> USE PeerRegistryAssumption
<1>1. peers[i] # None => peers[i] \in Peer
  BY DEF TypeOK
<1>2. ASSUME NEW n \in Int, peers[i] # None
      PROVE  [peers[i] EXCEPT !.score = n] \in Peer
  BY <1>1, <1>2 DEF Peer
<1>3. ASSUME NEW p \in Peer \cup {None}, Put(i, p), UNCHANGED <<stage, id, copy, extremes>>
      PROVE  TypeOK' /\ TreeFresh'
  BY <1>3, PutType, ContentsStep DEF ContentsOK
<1>4. peers[i] # None => peers[i].score \in Int
  BY <1>1 DEF Peer
<1>5. CASE RemovePeer(i)
  BY <1>3, <1>5 DEF RemovePeer
<1>6. CASE RecordSuccess(i)
  <2> DEFINE s == peers[i].score + ScoreSuccessIncrement
             n == IF s > ScoreMaximum THEN ScoreMaximum ELSE s
  <2>1. peers[i] # None /\ Put(i, [peers[i] EXCEPT !.score = n])
    BY <1>6 DEF RecordSuccess
  <2>2. n \in Int
    BY <1>4, <2>1
  <2> HIDE DEF n
  <2> QED
    BY <1>2, <1>3, <1>6, <2>1, <2>2 DEF RecordSuccess
<1>7. ASSUME NEW d \in Nat, peers[i] # None
      PROVE  Lowered(i, d) \in Peer
  <2> DEFINE s == peers[i].score - d
             n == IF s < 0 THEN 0 ELSE s
  <2>1. n \in Int
    BY <1>4, <1>7
  <2>2. Lowered(i, d) = [peers[i] EXCEPT !.score = n]
    BY DEF Lowered
  <2> HIDE DEF n
  <2> QED
    BY <1>2, <1>7, <2>1, <2>2
<1>8. CASE RecordFailure(i)
  BY <1>3, <1>7, <1>8 DEF RecordFailure
<1>9. CASE RecordTimeout(i)
  BY <1>3, <1>7, <1>9 DEF RecordTimeout
<1>10. CASE Disconnected(i)
  BY <1>10, SetConnectedType, ContentsStep, Zenon DEF Disconnected
<1>11. ASSUME NEW s \in Scores, UpdateScore(i, s)
       PROVE  TypeOK' /\ TreeFresh'
  <2>1. Clamp(s) \in Int
    BY DEF Clamp
  <2> QED
    BY <1>2, <1>3, <1>11, <2>1 DEF UpdateScore
<1> QED
  BY <1>5, <1>6, <1>8, <1>9, <1>10, <1>11

\* The steps of announcePeer, Connect and PingPeer.
LEMMA CallStep ==
  ASSUME TypeOK, TreeFresh, NEW c \in Calls,
         \/ \E i \in Ids, s \in Announced, ping, geo \in Metrics :
              StartAnnounce(c, i, s, ping, geo)
         \/ \E i \in Ids : StartConnect(c, i) \/ Handshake(c, i) \/ StartPing(c, i)
         \/ EndAnnounce(c) \/ ConnectFails(c) \/ AddConnected(c) \/ EndConnect(c)
         \/ \E rtt \in Metrics : EndPing(c, rtt)
  PROVE  TypeOK' /\ TreeFresh'
<1> USE PeerRegistryAssumption
<1>1. stage[c] # "idle" => id[c] \in Ids /\ copy[c] \in Peer
  BY DEF TypeOK
<1>2. UNCHANGED <<peers, kdTree>> => ContentsOK
  BY DEF ContentsOK, TypeOK, TreeFresh, Tree
<1>3. ASSUME NEW i \in Ids, NEW p \in Peer, UpdatePeer(i, p)
      PROVE  ContentsOK
  BY <1>3, PutType DEF UpdatePeer, ContentsOK
<1>4. ASSUME NEW i \in Ids, NEW s \in Announced, NEW ping \in Metrics, NEW geo \in Metrics,
             StartAnnounce(c, i, s, ping, geo)
      PROVE  TypeOK' /\ TreeFresh'
  <2> DEFINE body == [score |-> s, ping |-> ping, geo |-> geo, connected |-> FALSE]
  <2>1. body \in Peer /\ lowest' \in Int /\ highest' \in Int
    <3>1. body \in Peer
      BY DEF Peer
    <3>2. lowest' \in Int /\ highest' \in Int
      BY <1>4 DEF StartAnnounce, TypeOK
    <3> QED BY <3>1, <3>2
  <2>2. CASE peers[i] = None
    <3>1. Begin(c, "announce", i, body)
      BY <1>4, <2>2 DEF StartAnnounce
    <3> HIDE DEF body
    <3> QED
      BY <2>1, <3>1, BeginStep DEF Stages
  <2>3. CASE peers[i] # None
    <3> DEFINE p == IF s = 0 THEN [body EXCEPT !.score = peers[i].score] ELSE body
    <3>1. Begin(c, "update", i, p)
      BY <1>4, <2>3 DEF StartAnnounce
    <3>2. peers[i].score \in Int
      BY <2>3 DEF TypeOK, Peer
    <3>3. p \in Peer
      BY <2>1, <3>2, ZenonT(30) DEF Peer
    <3> HIDE DEF p
    <3> QED
      BY <2>1, <3>1, <3>3, BeginStep DEF Stages
  <2> QED
    BY <2>2, <2>3
<1>5. ASSUME NEW i \in Ids, StartConnect(c, i) \/ StartPing(c, i)
      PROVE  TypeOK' /\ TreeFresh'
  <2>1. peers[i] \in Peer
    BY <1>5 DEF StartConnect, StartPing, TypeOK
  <2> QED
    BY <1>5, <2>1, BeginStep DEF StartConnect, StartPing, Stages, TypeOK, extremes
<1>6. ASSUME NEW i \in Ids, Handshake(c, i)
      PROVE  TypeOK' /\ TreeFresh'
  <2>1. copy[c] \in Peer
    BY <1>1, <1>6 DEF Handshake
  <2>2. ContentsOK
    BY <1>2, <1>3, <1>6, <2>1 DEF Handshake
  <2> QED
    BY <1>6, <2>1, <2>2 DEF Handshake, TypeOK, ContentsOK, Stages, extremes
<1>7. CASE EndAnnounce(c)
  <2>1. id[c] \in Ids /\ copy[c] \in Peer
    BY <1>1, <1>7 DEF EndAnnounce
  <2>2. ContentsOK
    BY <1>2, <1>3, <1>7, <2>1, AddPeerType DEF EndAnnounce
  <2> QED
    BY <1>7, <2>2, EndStep DEF EndAnnounce
<1>8. CASE ConnectFails(c)
  BY <1>2, <1>8, EndStep, SMTT(30) DEF ConnectFails
<1>9. CASE AddConnected(c)
  <2>1. id[c] \in Ids /\ copy[c] \in Peer
    BY <1>1, <1>9 DEF AddConnected
  <2>2. ContentsOK
    BY <1>9, <2>1, AddPeerType, SMTT(30) DEF AddConnected
  <2> QED
    BY <1>9, <2>1, <2>2, SMTT(30) DEF AddConnected, TypeOK, ContentsOK, Stages, extremes
<1>10. CASE EndConnect(c)
  <2>1. ContentsOK
    BY <1>1, <1>10, SetConnectedType, Zenon DEF EndConnect
  <2> QED
    BY <1>10, <2>1, EndStep, SMTT(30) DEF EndConnect
<1>11. ASSUME NEW rtt \in Metrics, EndPing(c, rtt)
       PROVE  TypeOK' /\ TreeFresh'
  <2>1. id[c] \in Ids /\ copy[c].geo \in Metrics
    BY <1>1, <1>11 DEF EndPing, Peer
  <2>2. ContentsOK
    <3>1. ASSUME peers[id[c]] # None
          PROVE  [peers[id[c]] EXCEPT !.ping = rtt, !.geo = copy[c].geo] \in Peer
      BY <2>1, <3>1, MeasuredPeer, Zenon DEF TypeOK
    <3>2. UpdateMetrics(id[c], rtt, copy[c].geo) => ContentsOK
      BY <2>1, <3>1, PutType DEF UpdateMetrics, ContentsOK
    <3> QED
      BY <1>2, <1>11, <3>2 DEF EndPing
  <2> QED
    BY <1>11, <2>2, EndStep DEF EndPing
<1> QED
  BY <1>4, <1>5, <1>6, <1>7, <1>8, <1>9, <1>10, <1>11

\* Types and the freshness of the tree are one inductive invariant.
LEMMA TypeFreshStep == TypeOK /\ TreeFresh /\ [Next]_vars => TypeOK' /\ TreeFresh'
<1> SUFFICES ASSUME TypeOK, TreeFresh, [Next]_vars
             PROVE  TypeOK' /\ TreeFresh'
  OBVIOUS
<1>1. CASE UNCHANGED vars
  BY <1>1 DEF vars, extremes, TypeOK, TreeFresh, Tree
<1>2. CASE Next
  BY <1>2, OperationStep, CallStep DEF Next
<1> QED
  BY <1>1, <1>2

\* Every reachable state of the registry is well formed.
THEOREM RegistryTypeOK == Spec => []TypeOK
<1>1. Init => TypeOK /\ TreeFresh
  BY InitType DEF Init, TreeFresh, Tree
<1> QED
  BY <1>1, TypeFreshStep, PTL DEF Spec

\* Selection never works on old data (rebuildKDTree): the tree always has the
\* registered peers at their present metrics, for any number of peers and of
\* calls that overlap.
THEOREM RegistryTreeFresh == Spec => []TreeFresh
<1>1. Init => TypeOK /\ TreeFresh
  BY InitType DEF Init, TreeFresh, Tree
<1> QED
  BY <1>1, TypeFreshStep, PTL DEF Spec

--------------------------------------------------------------------------------
\* The range of the scores is inductive only together with that of the copies
\* that calls have in hand, and it always has the range of the scale in it.
CopiesAsAnnounced == \A c \in Calls : stage[c] # "idle" => copy[c].score \in lowest..highest

ScaleIsAllowed ==
    lowest \in Int /\ highest \in Int /\ lowest <= 0 /\ ScoreMaximum <= highest

ScoreInv == ScoreAsAnnounced /\ CopiesAsAnnounced /\ ScaleIsAllowed

\* A peer with an allowed score may be put anywhere.
LEMMA PutRange ==
  ASSUME TypeOK, ScoreAsAnnounced, NEW i \in Ids, NEW p \in Peer \cup {None}, Put(i, p),
         UNCHANGED extremes, p # None => p.score \in lowest..highest
  PROVE  ScoreAsAnnounced'
  BY DEF TypeOK, ScoreAsAnnounced, Known, Put, extremes

\* The same for AddPeer, whose default is on the scale.
LEMMA AddPeerRange ==
  ASSUME TypeOK, ScoreAsAnnounced, ScaleIsAllowed, NEW i \in Ids, NEW p \in Peer,
         AddPeer(i, p), UNCHANGED extremes, p.score \in lowest..highest
  PROVE  ScoreAsAnnounced'
<1>1. CASE peers[i] = None /\ Put(i, WithDefault(p))
  <2>1. WithDefault(p) \in Peer /\ WithDefault(p).score \in lowest..highest
    <3>1. CASE p.score = 0
      <4>1. WithDefault(p) \in Peer /\ WithDefault(p).score = ScoreDefault
        BY <3>1, PeerRegistryAssumption DEF WithDefault, Peer
      <4> QED BY <4>1, PeerRegistryAssumption DEF ScaleIsAllowed
    <3>2. CASE p.score # 0
      BY <3>2 DEF WithDefault
    <3> QED BY <3>1, <3>2
  <2> QED
    BY <1>1, <2>1, PutRange
<1>2. CASE UNCHANGED <<peers, kdTree>>
  BY <1>2 DEF ScoreAsAnnounced, Known, extremes
<1> QED
  BY <1>1, <1>2 DEF AddPeer

\* SetConnected leaves the scores alone.
LEMMA SetConnectedRange ==
  ASSUME TypeOK, ScoreAsAnnounced, NEW i \in Ids, NEW b \in BOOLEAN, SetConnected(i, b),
         UNCHANGED extremes
  PROVE  ScoreAsAnnounced'
<1> SUFFICES ASSUME NEW j \in Ids, peers'[j] # None
             PROVE  peers'[j].score \in lowest..highest
  BY DEF ScoreAsAnnounced, Known, extremes
<1>1. peers[j] # None /\ peers'[j].score = peers[j].score
  BY NoneIsNoPeer DEF TypeOK, SetConnected, Peer
<1> QED
  BY <1>1 DEF ScoreAsAnnounced, Known

\* The operations of the registry clamp, on the side on which they move the
\* score.
LEMMA OperationRange ==
  ASSUME TypeOK, ScoreInv, NEW i \in Ids,
         \/ RemovePeer(i) \/ RecordSuccess(i) \/ RecordFailure(i)
         \/ RecordTimeout(i) \/ Disconnected(i)
         \/ \E s \in Scores : UpdateScore(i, s)
  PROVE  ScoreInv'
<1> USE PeerRegistryAssumption
<1>0. UNCHANGED <<stage, id, copy, extremes>>
  BY Zenon DEF RemovePeer, RecordSuccess, RecordFailure, RecordTimeout, Disconnected, UpdateScore
<1>1. CopiesAsAnnounced' /\ ScaleIsAllowed'
  BY <1>0 DEF ScoreInv, CopiesAsAnnounced, ScaleIsAllowed, extremes
<1> SUFFICES ScoreAsAnnounced'
  BY <1>1 DEF ScoreInv
<1>2. /\ peers[i] # None => peers[i] \in Peer /\ peers[i].score \in lowest..highest
      /\ lowest \in Int /\ highest \in Int /\ lowest <= 0 /\ ScoreMaximum <= highest
  BY DEF TypeOK, ScoreInv, ScoreAsAnnounced, ScaleIsAllowed, Known
<1>3. ASSUME NEW n \in lowest..highest, peers[i] # None,
             Put(i, [peers[i] EXCEPT !.score = n])
      PROVE  ScoreAsAnnounced'
  <2> DEFINE p == [peers[i] EXCEPT !.score = n]
  <2>0. n \in Int
    BY <1>2
  <2>1. p \in Peer /\ p.score = n
    BY <1>2, <1>3, <2>0 DEF Peer
  <2> HIDE DEF p
  <2>2. Put(i, p)
    BY <1>3 DEF p
  <2> QED
    BY <1>0, <2>1, <2>2, PutRange DEF ScoreInv
<1>4. CASE RemovePeer(i)
  BY <1>0, <1>4, PutRange DEF RemovePeer, ScoreInv
<1>5. CASE RecordSuccess(i)
  <2> DEFINE s == peers[i].score + ScoreSuccessIncrement
             n == IF s > ScoreMaximum THEN ScoreMaximum ELSE s
  <2>1. peers[i] # None /\ Put(i, [peers[i] EXCEPT !.score = n])
    BY <1>5 DEF RecordSuccess
  <2>2. n \in lowest..highest
    BY <1>2, <2>1
  <2> HIDE DEF n
  <2> QED
    BY <1>3, <2>1, <2>2
<1>6. ASSUME NEW d \in Nat, peers[i] # None, Put(i, Lowered(i, d))
      PROVE  ScoreAsAnnounced'
  <2> DEFINE s == peers[i].score - d
             n == IF s < 0 THEN 0 ELSE s
  <2>1. Lowered(i, d) = [peers[i] EXCEPT !.score = n]
    BY DEF Lowered
  <2>2. n \in lowest..highest
    BY <1>2, <1>6
  <2> HIDE DEF n
  <2> QED
    BY <1>3, <1>6, <2>1, <2>2
<1>7. CASE RecordFailure(i)
  BY <1>6, <1>7 DEF RecordFailure
<1>8. CASE RecordTimeout(i)
  BY <1>6, <1>8 DEF RecordTimeout
<1>9. CASE Disconnected(i)
  BY <1>0, <1>9, SetConnectedRange, ZenonT(30) DEF Disconnected, ScoreInv
<1>10. ASSUME NEW s \in Scores, UpdateScore(i, s)
       PROVE  ScoreAsAnnounced'
  <2>1. Clamp(s) \in lowest..highest
    BY <1>2 DEF Clamp
  <2> QED
    BY <1>3, <1>10, <2>1 DEF UpdateScore
<1> QED
  BY <1>4, <1>5, <1>7, <1>8, <1>9, <1>10

\* An announcement widens the range by the score that it gives.
LEMMA AnnounceRange ==
  ASSUME TypeOK, ScoreInv, NEW c \in Calls, NEW i \in Ids, NEW s \in Announced,
         NEW ping \in Metrics, NEW geo \in Metrics, StartAnnounce(c, i, s, ping, geo)
  PROVE  ScoreInv'
<1> DEFINE body == [score |-> s, ping |-> ping, geo |-> geo, connected |-> FALSE]
           p == IF s = 0 THEN [body EXCEPT !.score = peers[i].score] ELSE body
<1>1. /\ lowest \in Int /\ highest \in Int /\ lowest <= 0 /\ ScoreMaximum <= highest
      /\ s \in Int
      /\ lowest' = IF s < lowest THEN s ELSE lowest
      /\ highest' = IF s > highest THEN s ELSE highest
  BY PeerRegistryAssumption DEF StartAnnounce, ScoreInv, ScaleIsAllowed
<1>2. ScaleIsAllowed' /\ s \in lowest'..highest' /\ lowest..highest \subseteq lowest'..highest'
  BY <1>1, PeerRegistryAssumption DEF ScaleIsAllowed
<1>3. UNCHANGED <<peers, kdTree>>
  BY DEF StartAnnounce, Begin
<1>4. ScoreAsAnnounced'
  BY <1>2, <1>3 DEF ScoreInv, ScoreAsAnnounced, Known
<1>5. body.score \in lowest'..highest'
  BY <1>2
<1>6. peers[i] # None => p.score \in lowest'..highest'
  BY <1>2, <1>5 DEF ScoreInv, ScoreAsAnnounced, Known
<1>7. \/ Begin(c, "announce", i, body)
      \/ peers[i] # None /\ Begin(c, "update", i, p)
  BY SMTT(20), ZenonT(20) DEF StartAnnounce
<1> HIDE DEF body, p
<1>8. copy' = [copy EXCEPT ![c] = body] \/ (peers[i] # None /\ copy' = [copy EXCEPT ![c] = p])
  BY <1>7 DEF Begin
<1>9. \A d \in Calls : d # c => stage'[d] = stage[d] /\ copy'[d] = copy[d]
  BY <1>7 DEF Begin, TypeOK
<1>10. copy'[c].score \in lowest'..highest'
  BY <1>5, <1>6, <1>8 DEF TypeOK
<1>11. CopiesAsAnnounced'
  BY <1>2, <1>9, <1>10 DEF ScoreInv, CopiesAsAnnounced
<1> QED BY <1>2, <1>4, <1>11 DEF ScoreInv

\* The other calls hand on the scores that they have read or been given.
LEMMA CallRange ==
  ASSUME TypeOK, ScoreInv, NEW c \in Calls,
         \/ \E i \in Ids : StartConnect(c, i) \/ Handshake(c, i) \/ StartPing(c, i)
         \/ EndAnnounce(c) \/ ConnectFails(c) \/ AddConnected(c) \/ EndConnect(c)
         \/ \E rtt \in Metrics : EndPing(c, rtt)
  PROVE  ScoreInv'
<1> USE PeerRegistryAssumption
<1>0. UNCHANGED extremes
  BY Zenon DEF StartConnect, Handshake, StartPing, EndAnnounce, ConnectFails, AddConnected,
               EndConnect, EndPing
<1>1. stage[c] # "idle" => /\ id[c] \in Ids
                           /\ copy[c] \in Peer
                           /\ copy[c].score \in lowest..highest
  BY DEF TypeOK, ScoreInv, CopiesAsAnnounced
<1>2. UNCHANGED <<peers, kdTree>> => ScoreAsAnnounced'
  BY <1>0 DEF ScoreInv, ScoreAsAnnounced, Known, extremes
<1>3. ASSUME NEW i \in Ids, NEW p \in Peer, UpdatePeer(i, p), p.score \in lowest..highest
      PROVE  ScoreAsAnnounced'
  BY <1>0, <1>3, PutRange DEF UpdatePeer, ScoreInv
<1>4. ScaleIsAllowed'
  BY <1>0 DEF ScoreInv, ScaleIsAllowed, extremes
<1>5. End(c) => CopiesAsAnnounced'
  BY <1>0 DEF End, ScoreInv, CopiesAsAnnounced, TypeOK, extremes
<1>6. ASSUME NEW i \in Ids, peers[i] # None
      PROVE  peers[i].score \in lowest..highest
  BY <1>6 DEF ScoreInv, ScoreAsAnnounced, Known
<1> SUFFICES ScoreAsAnnounced' /\ CopiesAsAnnounced'
  BY <1>4 DEF ScoreInv
<1>8. ASSUME NEW i \in Ids, StartConnect(c, i) \/ StartPing(c, i)
      PROVE  ScoreAsAnnounced' /\ CopiesAsAnnounced'
  <2>1. UNCHANGED <<peers, kdTree>> /\ copy' = [copy EXCEPT ![c] = peers[i]]
        /\ \A d \in Calls : d # c => stage'[d] = stage[d]
    BY <1>8 DEF StartConnect, StartPing, Begin, TypeOK
  <2>2. peers[i].score \in lowest..highest
    BY <1>6, <1>8 DEF StartConnect, StartPing
  <2>3. CopiesAsAnnounced'
    BY <1>0, <2>1, <2>2 DEF ScoreInv, CopiesAsAnnounced, TypeOK, extremes
  <2> QED BY <1>2, <2>1, <2>3
<1>9. ASSUME NEW i \in Ids, Handshake(c, i)
      PROVE  ScoreAsAnnounced' /\ CopiesAsAnnounced'
  <2>1. ScoreAsAnnounced'
    BY <1>1, <1>2, <1>3, <1>9 DEF Handshake
  <2>2. CopiesAsAnnounced'
    BY <1>0, <1>1, <1>9 DEF Handshake, ScoreInv, CopiesAsAnnounced, TypeOK, extremes
  <2> QED
    BY <2>1, <2>2
<1>10. CASE EndAnnounce(c)
  <2>1. ScoreAsAnnounced'
    BY <1>0, <1>1, <1>2, <1>3, <1>10, AddPeerRange DEF EndAnnounce, ScoreInv
  <2> QED
    BY <1>5, <1>10, <2>1 DEF EndAnnounce
<1>11. CASE ConnectFails(c)
  BY <1>2, <1>5, <1>11 DEF ConnectFails
<1>12. CASE AddConnected(c)
  <2>1. ScoreAsAnnounced'
    BY <1>0, <1>1, <1>12, AddPeerRange DEF AddConnected, ScoreInv
  <2>2. CopiesAsAnnounced'
    BY <1>0, <1>1, <1>12 DEF AddConnected, ScoreInv, CopiesAsAnnounced, TypeOK, extremes
  <2> QED
    BY <2>1, <2>2
<1>13. CASE EndConnect(c)
  BY <1>0, <1>1, <1>5, <1>13, SetConnectedRange, Zenon DEF EndConnect, ScoreInv
<1>14. ASSUME NEW rtt \in Metrics, EndPing(c, rtt)
       PROVE  ScoreAsAnnounced' /\ CopiesAsAnnounced'
  <2> DEFINE i == id[c]
             p == [peers[i] EXCEPT !.ping = rtt, !.geo = copy[c].geo]
  <2>1. i \in Ids /\ copy[c].geo \in Metrics
    BY <1>1, <1>14 DEF EndPing, Peer
  <2>2. peers[i] # None => p \in Peer /\ p.score = peers[i].score
    <3>1. peers[i] # None => peers[i] \in Peer
      BY <2>1 DEF TypeOK
    <3> QED BY <2>1, <3>1, MeasuredPeer, ZenonT(30)
  <2>3. \/ peers[i] # None /\ Put(i, p)
        \/ UNCHANGED <<peers, kdTree>>
    BY <1>14, ZenonT(30) DEF EndPing, UpdateMetrics
  <2> HIDE DEF p
  <2>4. ScoreAsAnnounced'
    BY <1>0, <1>2, <1>6, <2>1, <2>2, <2>3, PutRange DEF ScoreInv
  <2> QED
    BY <1>5, <1>14, <2>4 DEF EndPing
<1> QED
  BY <1>8, <1>9, <1>10, <1>11, <1>12, <1>13, <1>14

\* Only announcements take a score out of its range, and no further than they
\* go, through every update, decrement, stale copy and default: UpdatePeer and
\* AddPeer do not clamp, and nothing else needs to do more than it does.
THEOREM RegistryScoreAsAnnounced == Spec => []ScoreAsAnnounced
<1>1. Init => ScoreInv
  BY PeerRegistryAssumption
     DEF Init, ScoreInv, ScoreAsAnnounced, CopiesAsAnnounced, ScaleIsAllowed, Known
<1>2. TypeOK /\ ScoreInv /\ [Next]_vars => ScoreInv'
  <2> SUFFICES ASSUME TypeOK, ScoreInv, [Next]_vars
               PROVE  ScoreInv'
    OBVIOUS
  <2>1. CASE UNCHANGED vars
    BY <2>1 DEF vars, extremes, ScoreInv, ScoreAsAnnounced, CopiesAsAnnounced, ScaleIsAllowed, Known
  <2>2. CASE Next
    BY <2>2, OperationRange, AnnounceRange, CallRange DEF Next
  <2> QED
    BY <2>1, <2>2
<1>3. ScoreInv => ScoreAsAnnounced
  BY DEF ScoreInv
<1> QED
  BY <1>1, <1>2, <1>3, RegistryTypeOK, PTL DEF Spec

--------------------------------------------------------------------------------
(* What selection returns. *)

\* The point of peer i in a tree that is up to date.
PointOf(i) ==
    [id |-> i, ping |-> peers[i].ping, geo |-> peers[i].geo, badness |-> Badness(peers[i])]

\* The squares in a distance grow with what they are taken of.
LEMMA SquareGrows ==
  ASSUME NEW a \in Nat, NEW b \in Nat
  PROVE  /\ a * a \in Nat
         /\ a <= b => a * a <= b * b
         /\ a < b => a * a < b * b
<1>1. a * a \in Nat
  OBVIOUS
<1>2. ASSUME a <= b
      PROVE  a * a <= b * b
  <2>1. PICK d \in Nat : b = a + d
    <3>1. b - a \in Nat /\ b = a + (b - a)
      BY <1>2
    <3> QED BY <3>1
  <2>2. b * b = a * a + (2 * (a * d) + d * d)
    BY <2>1
  <2>3. a * d \in Nat /\ d * d \in Nat /\ b * b \in Nat
    BY <2>1
  <2> QED BY <1>1, <2>2, <2>3
<1>3. ASSUME a < b
      PROVE  a * a < b * b
  <2>1. PICK d \in Nat : d > 0 /\ b = a + d
    <3>1. b - a \in Nat /\ b - a > 0 /\ b = a + (b - a)
      BY <1>3
    <3> QED BY <3>1
  <2>2. b * b = a * a + (2 * (a * d) + d * d)
    BY <2>1
  <2>3. a * d \in Nat /\ d * d \in Nat /\ d * d > 0 /\ b * b \in Nat
    BY <2>1
  <2> QED BY <1>1, <2>2, <2>3
<1> QED BY <1>1, <1>2, <1>3

\* A peer that is better in every respect, and no better than the ideal peer, is
\* nearer to it.
LEMMA BetterIsNearer ==
  ASSUME TypeOK, NEW i \in Known, NEW j \in Known, BelowIdeal(j), Better(j, i)
  PROVE  ~(Distance(PointOf(i)) <= Distance(PointOf(j)))
<1> DEFINE P(k) == peers[k].ping
           G(k) == peers[k].geo
           B(k) == ScoreMaximum - peers[k].score
<1>0. \A k \in {i, j} : P(k) \in Int /\ G(k) \in Int /\ peers[k].score \in Int
  BY PeerRegistryAssumption, NoneIsNoPeer, Zenon DEF TypeOK, Known, Peer
<1>1. \A k \in {i, j} : /\ P(k) \in Nat /\ G(k) \in Nat
                         /\ peers[k].score \in Int /\ peers[k].score <= ScoreMaximum
  BY <1>0, PeerRegistryAssumption DEF BelowIdeal, Better
<1>2. \A k \in {i, j} : B(k) \in Nat
  BY <1>1, PeerRegistryAssumption
<1>3. /\ P(j) <= P(i) /\ G(j) <= G(i) /\ peers[j].score >= peers[i].score
      /\ P(j) < P(i) \/ G(j) < G(i) \/ peers[j].score > peers[i].score
  BY DEF Better
<1>4. B(j) <= B(i) /\ (P(j) < P(i) \/ G(j) < G(i) \/ B(j) < B(i))
  BY <1>1, <1>3, PeerRegistryAssumption
<1>5. /\ P(j) * P(j) \in Nat /\ P(i) * P(i) \in Nat /\ P(j) * P(j) <= P(i) * P(i)
      /\ P(j) < P(i) => P(j) * P(j) < P(i) * P(i)
  BY <1>1, <1>3, SquareGrows
<1>6. /\ G(j) * G(j) \in Nat /\ G(i) * G(i) \in Nat /\ G(j) * G(j) <= G(i) * G(i)
      /\ G(j) < G(i) => G(j) * G(j) < G(i) * G(i)
  BY <1>1, <1>3, SquareGrows
<1>7. /\ B(j) * B(j) \in Nat /\ B(i) * B(i) \in Nat /\ B(j) * B(j) <= B(i) * B(i)
      /\ B(j) < B(i) => B(j) * B(j) < B(i) * B(i)
  BY <1>2, <1>4, SquareGrows, SMTT(30)
<1>8. \A k \in {i, j} : Distance(PointOf(k)) =
                          100 * (P(k) * P(k)) + 49 * (G(k) * G(k)) + 144 * (B(k) * B(k))
  <2> SUFFICES ASSUME NEW k \in {i, j}
               PROVE  100 * P(k) * P(k) + 49 * G(k) * G(k) + 144 * B(k) * B(k)
                        = 100 * (P(k) * P(k)) + 49 * (G(k) * G(k)) + 144 * (B(k) * B(k))
    BY DEF Distance, PointOf, Badness
  <2>1. P(k) \in Nat /\ G(k) \in Nat /\ B(k) \in Nat
    BY <1>1, <1>2, SMTT(30)
  <2> HIDE DEF P, G, B
  <2> QED BY <2>1, SMTT(30)
<1>9. P(j) * P(j) < P(i) * P(i) \/ G(j) * G(j) < G(i) * G(i) \/ B(j) * B(j) < B(i) * B(i)
  BY <1>4, <1>5, <1>6, <1>7
<1> HIDE DEF P, G, B
<1> DEFINE pi == P(i) * P(i)
           pj == P(j) * P(j)
           gi == G(i) * G(i)
           gj == G(j) * G(j)
           bi == B(i) * B(i)
           bj == B(j) * B(j)
<1>10. /\ Distance(PointOf(i)) = 100 * pi + 49 * gi + 144 * bi
       /\ Distance(PointOf(j)) = 100 * pj + 49 * gj + 144 * bj
  BY <1>8, SMTT(30)
<1>11. /\ pi \in Nat /\ pj \in Nat /\ gi \in Nat /\ gj \in Nat /\ bi \in Nat /\ bj \in Nat
       /\ pj <= pi /\ gj <= gi /\ bj <= bi /\ (pj < pi \/ gj < gi \/ bj < bi)
  BY <1>5, <1>6, <1>7, <1>9
<1> HIDE DEF pi, pj, gi, gj, bi, bj
<1> QED BY <1>10, <1>11

\* A set of points has as many IDs as points.
LEMMA PointsAreIds ==
  ASSUME NEW J \in SUBSET Known
  PROVE  /\ IsFiniteSet(J)
         /\ Cardinality({PointOf(i) : i \in J}) = Cardinality(J)
<1> DEFINE f == [i \in J |-> PointOf(i)]
           T == {PointOf(i) : i \in J}
<1>1. IsFiniteSet(J)
  <2>1. J \in SUBSET Ids
    BY DEF Known
  <2> QED BY <2>1, PeerRegistryAssumption, FS_Subset
<1>2. f \in Bijection(J, T)
  <2>1. f \in [J -> T]
    OBVIOUS
  <2>2. \A a, b \in J : f[a] = f[b] => a = b
    BY DEF PointOf
  <2>3. \A t \in T : \E a \in J : f[a] = t
    OBVIOUS
  <2> QED BY <2>1, <2>2, <2>3 DEF Bijection, Injection, IsInjective, Surjection
<1>3. ExistsBijection(J, T)
  BY <1>2 DEF ExistsBijection
<1> QED BY <1>1, <1>3, FS_Bijection

\* Of a fresh tree KNearest gives the best peers.
LEMMA SelectionIsBest ==
  ASSUME TypeOK, TreeFresh
  PROVE  BestAreSelected
<1> SUFFICES ASSUME NEW n \in 1..Cardinality(Ids), NEW S \in KNearest(n)
             PROVE  LET J == {p.id : p \in S} \cap Known
                    IN  /\ Cardinality(J) = IF n < Cardinality(Known) THEN n ELSE Cardinality(Known)
                        /\ \A i \in J, j \in Known \ J : BelowIdeal(j) => ~Better(j, i)
  BY DEF BestAreSelected, SelectNearestPeers
<1> DEFINE J == {p.id : p \in S} \cap Known
<1>1. kdTree = {PointOf(i) : i \in Known}
  BY DEF TreeFresh, Tree, PointOf, Known
<1>2. /\ S \subseteq kdTree
      /\ Cardinality(S) = IF n < Cardinality(kdTree) THEN n ELSE Cardinality(kdTree)
      /\ \A p \in S, q \in kdTree \ S : Distance(p) <= Distance(q)
  BY DEF KNearest
<1>3. \A i : PointOf(i).id = i
  BY DEF PointOf
<1>4. S = {PointOf(i) : i \in J}
  BY <1>1, <1>2, <1>3
<1>5. Cardinality(S) = Cardinality(J) /\ Cardinality(kdTree) = Cardinality(Known)
  <2> HIDE DEF J
  <2>1. J \in SUBSET Known
    BY DEF J
  <2> QED BY <1>1, <1>4, <2>1, PointsAreIds, Zenon
<1>6. ASSUME NEW i \in J, NEW j \in Known \ J, BelowIdeal(j)
      PROVE  ~Better(j, i)
  <2>1. PointOf(i) \in S /\ PointOf(j) \in kdTree \ S
    BY <1>1, <1>3, <1>4
  <2>2. Distance(PointOf(i)) <= Distance(PointOf(j))
    BY <1>2, <2>1
  <2> QED BY <1>6, <2>2, BetterIsNearer
<1> QED BY <1>2, <1>5, <1>6

\* "Lower ping, hops, geo are better; higher score is better" (peer.go:113):
\* selection never prefers a peer to one that is better in every respect, and no
\* better than the ideal peer, nor comes up with fewer peers than there are,
\* however calls overlap and whatever is announced.
THEOREM RegistryBestAreSelected == Spec => []BestAreSelected
  BY SelectionIsBest, RegistryTypeOK, RegistryTreeFresh, PTL
================================================================================
