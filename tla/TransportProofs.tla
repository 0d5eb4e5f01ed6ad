----------------------------- MODULE TransportProofs ---------------------------
(***************************************************************************)
(* The connection map and the pending counter of the transport, for any    *)
(* number of peers and connections and any limit.                          *)
(***************************************************************************)
EXTENDS Transport, FiniteSetTheorems, TLAPS

\* Stages of handleWSUpgrade that only an inbound connection passes, and the
\* stages of either direction before the connection is stored in the map.
InboundStages == {"counted", "admitted", "upgrading", "reading", "acking"}
EarlyStages == InboundStages \cup {"unused", "dialing", "storing", "failed"}

PendingStages == {"upgrading", "reading", "acking", "storing", "flagging", "spawning",
                  "keeping"}

Pending == {c \in Inbound : stage[c] \in PendingStages}

\* Everything of the type invariant but the counter.
Typed ==
    /\ stage \in [Conns -> Stages]
    /\ seen \in [Conns -> Nat]
    /\ peerOf \in [Conns -> Peers \cup {None}]
    /\ copied \in [Conns -> BOOLEAN]
    /\ conns \in [Peers -> Conns \cup {None}]
    /\ reg \in [Peers -> {"absent", "off", "on"}]
    /\ closing \in [Conns -> {"fresh", "sending", "dropping", "clearing", "shutting", "done"}]
    /\ reader \in [Conns -> {"none", "running", "failing", "closing", "ended"}]
    /\ keeper \in [Conns -> {"none", "running", "closing", "ended"}]
    /\ cancelled \in BOOLEAN
    /\ stop \in {"no", "cancelled", "closing", "draining", "waiting", "done", "failed"}
    /\ toClose \subseteq Conns
    /\ current \in Conns \cup {None}

--------------------------------------------------------------------------------
\* The map and the handshakes are finite.
LEMMA Finite == IsFiniteSet(Inbound) /\ IsFiniteSet(Mapped)
<1>1. Inbound \in SUBSET Conns /\ Mapped \in SUBSET Peers
  BY DEF Conns, Mapped
<1> QED BY <1>1, TransportAssumption, FS_Subset

\* Every variable but the counter keeps its type.
LEMMA TransportTyped == Spec => []Typed
<1>1. Init => Typed
  <2> SUFFICES ASSUME Init PROVE Typed
    OBVIOUS
  <2>1. reg \in [Peers -> {"absent", "off", "on"}]
    BY DEF Init
  <2> QED BY <2>1 DEF Init, Typed, Stages
<1>2. Typed /\ [Next]_vars => Typed'
  <2> SUFFICES ASSUME Typed, [Next]_vars PROVE Typed'
    OBVIOUS
  <2> USE DEF Typed, loopVars, stopVars, Stages
  <2>1. ASSUME NEW c \in Conns, CountConns(c) PROVE Typed'
    <3>1. Cardinality(Mapped) \in Nat
      BY Finite, FS_CardinalityType
    <3> QED BY <2>1, <3>1 DEF CountConns
  <2>2. ASSUME NEW c \in Conns, NEW p \in Peers, Dial(c, p) PROVE Typed'
    <3>1. (reg[p] = "on") \in BOOLEAN
      OBVIOUS
    <3> QED BY <2>2, <3>1 DEF Dial
  <2>3. ASSUME NEW c \in Conns, Establish(c) PROVE Typed'
    <3>1. CASE CheckLimit(c)
      BY <3>1 DEF CheckLimit
    <3>2. CASE AddPending(c) \/ Upgrade(c) \/ RejectInbound(c) \/ Acknowledge(c)
      BY <3>2 DEF AddPending, Upgrade, RejectInbound, Acknowledge
    <3>3. ASSUME NEW p \in Peers, AcceptInbound(c, p) PROVE Typed'
      BY <3>3 DEF AcceptInbound
    <3>4. CASE FailOutbound(c)
      BY <3>4 DEF FailOutbound
    <3>5. ASSUME NEW p \in Peers, ShakeOutbound(c, p) PROVE Typed'
      BY <3>5 DEF ShakeOutbound
    <3>6. CASE Store(c)
      BY <3>6 DEF Store
    <3>7. CASE FlagConnected(c)
      BY <3>7 DEF FlagConnected, SetConnected
    <3>8. CASE SpawnReader(c) \/ SpawnKeeper(c)
      BY <3>8 DEF SpawnReader, SpawnKeeper
    <3> QED BY <2>3, <3>1, <3>2, <3>3, <3>4, <3>5, <3>6, <3>7, <3>8 DEF Establish
  <2> USE DEF estVars
  <2>4. ASSUME NEW c \in Conns, RunClose(c) PROVE Typed'
    <3>1. CASE SendDisconnect(c) \/ ShutSocket(c)
      BY <3>1 DEF SendDisconnect, ShutSocket
    <3>2. CASE DropEntry(c)
      BY <3>2 DEF DropEntry
    <3>3. CASE ClearFlag(c)
      BY <3>3 DEF ClearFlag, SetConnected
    <3> QED BY <2>4, <3>1, <3>2, <3>3 DEF RunClose
  <2>5. ASSUME NEW c \in Conns, UserClose(c) \/ PeerGone(c) PROVE Typed'
    BY <2>5 DEF UserClose, PeerGone, CallClose
  <2>6. ASSUME NEW c \in Conns, ReaderStops(c) \/ ReaderEnds(c) PROVE Typed'
    BY <2>6 DEF ReaderStops, ReaderEnds, CallClose
  <2>7. ASSUME NEW c \in Conns, KeeperCancelled(c) \/ KeeperStops(c) \/ KeeperEnds(c)
        PROVE  Typed'
    BY <2>7 DEF KeeperCancelled, KeeperStops, KeeperEnds, CallClose
  <2>8. CASE StopCancel
    BY <2>8 DEF StopCancel
  <2>9. CASE StopSteps
    <3>1. CASE StopSnapshot
      BY <3>1 DEF StopSnapshot, Mapped
    <3>2. ASSUME NEW c \in Conns, StopCloses(c) PROVE Typed'
      BY <3>2 DEF StopCloses
    <3>3. CASE StopClosed
      BY <3>3 DEF StopClosed
    <3>4. CASE StopShutdown \/ StopDrained \/ StopDrainTimeout \/ StopDone
      BY <3>4 DEF StopShutdown, StopDrained, StopDrainTimeout, StopDone
    <3> QED BY <2>9, <3>1, <3>2, <3>3, <3>4 DEF StopSteps
  <2>10. CASE UNCHANGED vars
    BY <2>10 DEF vars
  <2> QED
    BY <2>1, <2>2, <2>3, <2>4, <2>5, <2>6, <2>7, <2>8, <2>9, <2>10 DEF Next, Finished
<1> QED BY <1>1, <1>2, PTL DEF Spec

\* Every connection, and every peer, has its entry in the functions.
LEMMA Domains ==
    ASSUME Typed
    PROVE  /\ DOMAIN stage = Conns /\ DOMAIN peerOf = Conns /\ DOMAIN closing = Conns
           /\ DOMAIN reader = Conns /\ DOMAIN keeper = Conns /\ DOMAIN conns = Peers
BY DEF Typed

--------------------------------------------------------------------------------
\* What the progress of a handshake says about the rest: until a connection is
\* stored nobody can close it and it has no loops, and Stop only gets hold of
\* connections that were stored.
Staged ==
    /\ \A c \in Conns : stage[c] \in InboundStages => c \in Inbound
    /\ \A c \in Conns : stage[c] = "dialing" => c \notin Inbound
    /\ \A c \in Conns : stage[c] \in EarlyStages =>
         closing[c] = "fresh" /\ reader[c] = "none" /\ keeper[c] = "none"
    /\ \A c \in toClose : stage[c] \notin EarlyStages
    /\ current # None => stage[current] \notin EarlyStages

\* The inductive invariant of the connection map.
MapInv == Typed /\ Staged /\ NoDeadEntry

\* A connection in the map has been stored.
LEMMA MappedIsStored ==
    ASSUME MapInv, NEW p \in Mapped
    PROVE  conns[p] \in Conns /\ stage[conns[p]] \notin EarlyStages
BY DEF MapInv, Typed, Staged, NoDeadEntry, Mapped, Reading, EarlyStages, InboundStages

\* Steps of a handshake before Store move one connection that is not in the
\* map between early stages.
LEMMA EarlyMoves ==
    ASSUME MapInv, Typed', NEW c \in Conns,
           UNCHANGED <<conns, closing, loopVars, stopVars>>,
           stage[c] \in EarlyStages, stage'[c] \in EarlyStages,
           stage'[c] \in InboundStages => c \in Inbound,
           stage'[c] = "dialing" => c \notin Inbound,
           \A d \in Conns \ {c} : stage'[d] = stage[d] /\ peerOf'[d] = peerOf[d]
    PROVE  MapInv'
<1>1. \A p \in Mapped : conns[p] # c
  BY MappedIsStored
<1>2. NoDeadEntry'
  BY <1>1, MappedIsStored
     DEF MapInv, NoDeadEntry, Mapped, Reading, loopVars
<1>3. Staged'
  BY DEF MapInv, Staged, Typed, loopVars, stopVars
<1> QED BY <1>2, <1>3 DEF MapInv

\* Steps that leave the handshakes and the map alone, and move no close past
\* its beginning.
LEMMA LateMoves ==
    ASSUME MapInv, Typed',
           UNCHANGED <<stage, peerOf, conns>>,
           \A c \in Conns : stage[c] \in EarlyStages =>
             closing'[c] = closing[c] /\ reader'[c] = reader[c] /\ keeper'[c] = keeper[c],
           \A p \in Mapped :
             /\ closing'[conns[p]] \in {"fresh", "sending", "dropping"}
             /\ reader[conns[p]] \in {"running", "failing", "closing"} =>
                  reader'[conns[p]] \in {"running", "failing", "closing"},
           \A c \in toClose' : stage[c] \notin EarlyStages,
           current' # None => stage[current'] \notin EarlyStages
    PROVE  MapInv'
<1>1. NoDeadEntry'
  BY DEF MapInv, NoDeadEntry, Mapped, Reading
<1>2. Staged'
  BY DEF MapInv, Staged, Typed
<1> QED BY <1>1, <1>2 DEF MapInv

\* One step of the establishing goroutine keeps the map's invariant.
LEMMA EstablishStep ==
    ASSUME MapInv, Typed', NEW c \in Conns, Establish(c)
    PROVE  MapInv'
<1> USE DEF InboundStages, EarlyStages, Conns
<1>1. CASE CheckLimit(c)
  BY <1>1, EarlyMoves DEF CheckLimit, MapInv, Typed, Staged
<1>2. CASE AddPending(c) \/ Upgrade(c) \/ RejectInbound(c) \/ Acknowledge(c)
  <2>1. /\ stage[c] \in InboundStages
        /\ stage'[c] \in {"upgrading", "reading", "failed", "storing"}
        /\ \A d \in Conns \ {c} : stage'[d] = stage[d] /\ peerOf'[d] = peerOf[d]
        /\ UNCHANGED <<conns, closing, loopVars, stopVars>>
    <3> USE Domains DEF MapInv
    <3>1. CASE AddPending(c)
      BY <3>1 DEF AddPending
    <3>2. CASE Upgrade(c)
      BY <3>2 DEF Upgrade
    <3>3. CASE RejectInbound(c)
      BY <3>3 DEF RejectInbound
    <3>4. CASE Acknowledge(c)
      BY <3>4 DEF Acknowledge
    <3> QED BY <1>2, <3>1, <3>2, <3>3, <3>4
  <2>2. c \in Inbound
    BY <2>1 DEF MapInv, Staged
  <2> QED BY <2>1, <2>2, EarlyMoves
<1>3. ASSUME NEW p \in Peers, AcceptInbound(c, p) PROVE MapInv'
  BY <1>3, EarlyMoves DEF AcceptInbound, MapInv, Typed, Staged
<1>4. CASE FailOutbound(c)
  BY <1>4, EarlyMoves DEF FailOutbound, MapInv, Typed, Staged
<1>5. ASSUME NEW p \in Peers, ShakeOutbound(c, p) PROVE MapInv'
  BY <1>5, EarlyMoves DEF ShakeOutbound, MapInv, Typed, Staged
<1>6. CASE Store(c)
  <2>1. /\ closing[c] = "fresh"
        /\ stage'[c] = "flagging"
        /\ \A d \in Conns : d # c => stage'[d] = stage[d]
        /\ \A p \in Peers : conns'[p] = c \/ conns'[p] = conns[p]
        /\ \A p \in Peers : conns'[p] = c /\ conns[p] # c => p = peerOf[c]
        /\ UNCHANGED <<peerOf, closing, reader, keeper, toClose, current>>
    BY <1>6, Domains DEF Store, MapInv, Staged, loopVars, stopVars
  <2>2. \A p \in Peers : conns[p] # c
    BY <1>6, MappedIsStored, TransportAssumption DEF Store, Mapped, Typed
  <2>3. NoDeadEntry'
    <3> SUFFICES ASSUME NEW p \in Peers, conns'[p] # None
                 PROVE  LET d == conns'[p] IN
                          /\ peerOf'[d] = p
                          /\ closing'[d] \in {"fresh", "sending", "dropping"}
                          /\ stage'[d] \in {"flagging", "spawning"} \/ reader'[d] = "running"
                             \/ reader'[d] = "failing" \/ reader'[d] = "closing"
      BY DEF NoDeadEntry, Mapped, Reading
    <3>1. CASE conns'[p] = c
      BY <2>1, <2>2, <3>1
    <3>2. CASE conns'[p] # c
      <4>1. p \in Mapped /\ conns'[p] = conns[p] /\ conns[p] \in Conns
        BY <2>1, <3>2 DEF Mapped, MapInv, Typed
      <4>2. /\ peerOf[conns[p]] = p
            /\ closing[conns[p]] \in {"fresh", "sending", "dropping"}
            /\ stage[conns[p]] \in {"flagging", "spawning"}
               \/ reader[conns[p]] \in {"running", "failing", "closing"}
        BY <4>1 DEF MapInv, NoDeadEntry, Reading
      <4> QED BY <2>1, <3>2, <4>1, <4>2
    <3> QED BY <3>1, <3>2
  <2>4. Staged'
    <3>1. ASSUME NEW d \in Conns, stage'[d] \in EarlyStages
          PROVE  d # c /\ stage'[d] = stage[d]
      BY <2>1, <3>1
    <3>2. ASSUME NEW d \in Conns, stage[d] \notin EarlyStages
          PROVE  stage'[d] \notin EarlyStages
      BY <2>1, <3>2
    <3> HIDE DEF InboundStages, EarlyStages, Conns
    <3>3. /\ \A d \in Conns : stage'[d] \in InboundStages => d \in Inbound
          /\ \A d \in Conns : stage'[d] = "dialing" => d \notin Inbound
      BY <3>1 DEF MapInv, Staged, EarlyStages
    <3>4. \A d \in Conns : stage'[d] \in EarlyStages =>
            closing'[d] = "fresh" /\ reader'[d] = "none" /\ keeper'[d] = "none"
      BY <2>1, <3>1 DEF MapInv, Staged
    <3>5. /\ \A d \in toClose' : stage'[d] \notin EarlyStages
          /\ current' # None => stage'[current'] \notin EarlyStages
      BY <2>1, <3>2 DEF MapInv, Staged, Typed
    <3> QED BY <3>3, <3>4, <3>5 DEF Staged
  <2> QED BY <2>3, <2>4 DEF MapInv
<1>7. CASE FlagConnected(c) \/ SpawnReader(c) \/ SpawnKeeper(c)
  <2>1. /\ UNCHANGED <<peerOf, conns, closing, toClose, current>>
        /\ \A d \in Conns : d # c =>
             stage'[d] = stage[d] /\ reader'[d] = reader[d] /\ keeper'[d] = keeper[d]
        /\ stage[c] \notin EarlyStages /\ stage'[c] \notin EarlyStages
        /\ \/ stage'[c] = "spawning"
           \/ reader'[c] = "running"
           \/ reader'[c] = reader[c] /\ stage[c] = "keeping"
    <3>1. CASE FlagConnected(c)
      BY <3>1, Domains DEF FlagConnected, MapInv, loopVars, stopVars
    <3>2. CASE SpawnReader(c)
      BY <3>2, Domains DEF SpawnReader, MapInv, stopVars
    <3>3. CASE SpawnKeeper(c)
      BY <3>3, Domains DEF SpawnKeeper, MapInv, stopVars
    <3> QED BY <1>7, <3>1, <3>2, <3>3
  <2>2. NoDeadEntry'
    <3> SUFFICES ASSUME NEW p \in Mapped
                 PROVE  LET d == conns[p] IN
                          /\ peerOf[d] = p
                          /\ closing[d] \in {"fresh", "sending", "dropping"}
                          /\ stage'[d] \in {"flagging", "spawning"} \/ reader'[d] = "running"
                             \/ reader'[d] = "failing" \/ reader'[d] = "closing"
      BY <2>1 DEF NoDeadEntry, Mapped, Reading
    <3>1. conns[p] \in Conns
      BY MappedIsStored
    <3>2. /\ peerOf[conns[p]] = p
          /\ closing[conns[p]] \in {"fresh", "sending", "dropping"}
          /\ stage[conns[p]] \in {"flagging", "spawning"}
             \/ reader[conns[p]] \in {"running", "failing", "closing"}
      BY DEF MapInv, NoDeadEntry, Reading
    <3> QED BY <2>1, <3>1, <3>2
  <2>3. Staged'
    <3>1. Staged
      BY DEF MapInv
    <3>2. \A d \in Conns : stage'[d] \in EarlyStages =>
            stage'[d] = stage[d] /\ reader'[d] = reader[d] /\ keeper'[d] = keeper[d]
      BY <2>1
    <3>3. \A d \in Conns : stage[d] \notin EarlyStages => stage'[d] \notin EarlyStages
      BY <2>1
    <3>4. toClose \subseteq Conns /\ current \in Conns \cup {None}
      BY DEF MapInv, Typed
    <3>5. /\ \A d \in Conns : stage'[d] \in InboundStages => d \in Inbound
          /\ \A d \in Conns : stage'[d] = "dialing" => d \notin Inbound
      BY <3>1, <3>2 DEF Staged, EarlyStages
    <3>6. \A d \in Conns : stage'[d] \in EarlyStages =>
            closing[d] = "fresh" /\ reader'[d] = "none" /\ keeper'[d] = "none"
      BY <3>1, <3>2 DEF Staged
    <3>7. /\ \A d \in toClose : stage'[d] \notin EarlyStages
          /\ current # None => stage'[current] \notin EarlyStages
      BY <3>1, <3>3, <3>4 DEF Staged
    <3> QED BY <2>1, <3>5, <3>6, <3>7 DEF Staged
  <2> QED BY <2>2, <2>3 DEF MapInv
<1> QED BY <1>1, <1>2, <1>3, <1>4, <1>5, <1>6, <1>7 DEF Establish

\* One step of the function under closeOnce keeps the map's invariant.
LEMMA CloseStep ==
    ASSUME MapInv, Typed', NEW c \in Conns, RunClose(c)
    PROVE  MapInv'
<1> USE DEF estVars, loopVars, stopVars
<1>1. /\ UNCHANGED <<stage, peerOf, reader, keeper, toClose, current>>
      /\ closing[c] # "fresh"
      /\ \A d \in Conns : d # c => closing'[d] = closing[d]
  <2>1. CASE SendDisconnect(c)
    BY <2>1, Domains DEF SendDisconnect, MapInv
  <2>2. CASE DropEntry(c)
    BY <2>2, Domains DEF DropEntry, MapInv
  <2>3. CASE ClearFlag(c)
    BY <2>3, Domains DEF ClearFlag, MapInv
  <2>4. CASE ShutSocket(c)
    BY <2>4, Domains DEF ShutSocket, MapInv
  <2> QED BY <2>1, <2>2, <2>3, <2>4 DEF RunClose
<1>2. stage[c] \notin EarlyStages
  BY <1>1 DEF MapInv, Staged
<1>3. CASE SendDisconnect(c)
  <2>1. conns' = conns /\ closing'[c] = "dropping"
    BY <1>3, Domains DEF SendDisconnect, MapInv
  <2>2. \A p \in Mapped : closing'[conns[p]] \in {"fresh", "sending", "dropping"}
    BY <1>1, <2>1, MappedIsStored DEF MapInv, NoDeadEntry
  <2> QED BY <1>1, <1>2, <2>1, <2>2, LateMoves DEF MapInv, Staged
<1>4. CASE DropEntry(c)
  <2>1. /\ \A p \in Peers : conns'[p] = conns[p] \/ conns'[p] = None
        /\ \A p \in Peers : conns[p] = c /\ peerOf[c] = p => conns'[p] = None
    BY <1>4, Domains DEF DropEntry, MapInv
  <2>2. c # None
    BY TransportAssumption
  <2>3. \A p \in Mapped' : p \in Mapped /\ conns'[p] = conns[p] /\ conns[p] # c
    BY <2>1, <2>2 DEF Mapped, MapInv, NoDeadEntry
  <2>4. NoDeadEntry'
    <3> SUFFICES ASSUME NEW p \in Mapped'
                 PROVE  LET d == conns'[p] IN
                          /\ peerOf[d] = p
                          /\ closing'[d] \in {"fresh", "sending", "dropping"}
                          /\ stage[d] \in {"flagging", "spawning"} \/ Reading(d)
                             \/ reader[d] = "closing"
      BY <1>1 DEF NoDeadEntry, Reading
    <3>1. p \in Mapped /\ conns'[p] = conns[p] /\ conns[p] # c
      BY <2>3
    <3>2. conns[p] \in Conns
      BY <3>1, MappedIsStored
    <3>3. /\ peerOf[conns[p]] = p
          /\ closing[conns[p]] \in {"fresh", "sending", "dropping"}
          /\ stage[conns[p]] \in {"flagging", "spawning"}
             \/ Reading(conns[p]) \/ reader[conns[p]] = "closing"
      BY <3>1 DEF MapInv, NoDeadEntry
    <3>4. closing'[conns[p]] = closing[conns[p]]
      BY <1>1, <3>1, <3>2
    <3> QED BY <3>1, <3>3, <3>4
  <2>5. Staged'
    BY <1>1, <1>2 DEF MapInv, Staged
  <2> QED BY <2>4, <2>5 DEF MapInv
<1>5. CASE ClearFlag(c) \/ ShutSocket(c)
  <2>1. conns' = conns /\ closing[c] \in {"clearing", "shutting"}
    BY <1>5 DEF ClearFlag, ShutSocket
  <2>2. \A p \in Mapped : closing'[conns[p]] \in {"fresh", "sending", "dropping"}
    BY <1>1, <2>1, MappedIsStored DEF MapInv, NoDeadEntry
  <2> QED BY <1>1, <1>2, <2>1, <2>2, LateMoves DEF MapInv, Staged
<1> QED BY <1>3, <1>4, <1>5 DEF RunClose

\* A call of Close, and the steps of the two loops.
LEMMA LoopStep ==
    ASSUME MapInv, Typed', NEW c \in Conns,
           \/ UserClose(c) \/ PeerGone(c) \/ ReaderStops(c) \/ ReaderEnds(c)
           \/ KeeperCancelled(c) \/ KeeperStops(c) \/ KeeperEnds(c)
    PROVE  MapInv'
<1> USE DEF estVars, loopVars, stopVars
<1>1. stage[c] \notin EarlyStages
  <2>1. CASE UserClose(c)
    BY <2>1 DEF UserClose, EarlyStages, InboundStages
  <2>2. CASE PeerGone(c) \/ ReaderStops(c) \/ ReaderEnds(c)
    <3>1. reader[c] # "none"
      BY <2>2 DEF PeerGone, ReaderStops, ReaderEnds, Reading
    <3> QED BY <3>1 DEF MapInv, Staged
  <2>3. CASE KeeperCancelled(c) \/ KeeperStops(c) \/ KeeperEnds(c)
    <3>1. keeper[c] # "none"
      BY <2>3 DEF KeeperCancelled, KeeperStops, KeeperEnds
    <3> QED BY <3>1 DEF MapInv, Staged
  <2> QED BY <2>1, <2>2, <2>3
<1>2. /\ UNCHANGED <<stage, peerOf, conns, toClose, current>>
      /\ \A d \in Conns : d # c =>
           closing'[d] = closing[d] /\ reader'[d] = reader[d] /\ keeper'[d] = keeper[d]
      /\ \/ closing'[c] = closing[c]
         \/ closing[c] = "fresh" /\ closing'[c] = "dropping"
      /\ \/ reader'[c] = reader[c]
         \/ reader'[c] \in {"failing", "closing"}
         \/ closing[c] = "done"
  <2>1. CASE UserClose(c)
    BY <2>1, Domains DEF UserClose, CallClose, MapInv
  <2>2. CASE PeerGone(c)
    BY <2>2, Domains DEF PeerGone, MapInv
  <2>3. CASE ReaderStops(c)
    BY <2>3, Domains DEF ReaderStops, CallClose, MapInv
  <2>4. CASE ReaderEnds(c)
    BY <2>4, Domains DEF ReaderEnds, MapInv
  <2>5. CASE KeeperCancelled(c) \/ KeeperEnds(c)
    BY <2>5, Domains DEF KeeperCancelled, KeeperEnds, MapInv
  <2>6. CASE KeeperStops(c)
    BY <2>6, Domains DEF KeeperStops, CallClose, MapInv
  <2> QED BY <2>1, <2>2, <2>3, <2>4, <2>5, <2>6
<1>3. \A p \in Mapped :
        /\ closing'[conns[p]] \in {"fresh", "sending", "dropping"}
        /\ reader[conns[p]] \in {"running", "failing", "closing"} =>
             reader'[conns[p]] \in {"running", "failing", "closing"}
  <2> SUFFICES ASSUME NEW p \in Mapped
               PROVE  /\ closing'[conns[p]] \in {"fresh", "sending", "dropping"}
                      /\ reader[conns[p]] \in {"running", "failing", "closing"} =>
                           reader'[conns[p]] \in {"running", "failing", "closing"}
    OBVIOUS
  <2>1. conns[p] \in Conns /\ closing[conns[p]] \in {"fresh", "sending", "dropping"}
    BY MappedIsStored DEF MapInv, NoDeadEntry
  <2>2. CASE conns[p] = c
    BY <1>2, <2>1, <2>2
  <2>3. CASE conns[p] # c
    BY <1>2, <2>1, <2>3
  <2> QED BY <2>2, <2>3
<1> QED BY <1>1, <1>2, <1>3, LateMoves DEF MapInv, Staged

\* The steps of Stop.
LEMMA StopStep ==
    ASSUME MapInv, Typed', StopCancel \/ StopSteps
    PROVE  MapInv'
<1> USE DEF estVars, loopVars, stopVars
<1>1. CASE StopSnapshot
  <2>1. \A c \in toClose' : stage[c] \notin EarlyStages
    BY <1>1, MappedIsStored DEF StopSnapshot
  <2> QED BY <1>1, <2>1, LateMoves DEF StopSnapshot, MapInv, Staged, NoDeadEntry
<1>2. ASSUME NEW c \in Conns, StopCloses(c) PROVE MapInv'
  <2>1. stage[c] \notin EarlyStages
    BY <1>2 DEF StopCloses, MapInv, Staged
  <2>2. /\ UNCHANGED <<stage, peerOf, conns, reader, keeper, toClose>>
        /\ \A d \in Conns : d # c => closing'[d] = closing[d]
        /\ closing'[c] = closing[c] \/ closing'[c] = "sending"
        /\ current' = c
    BY <1>2, Domains DEF StopCloses, MapInv
  <2>3. \A p \in Mapped : closing'[conns[p]] \in {"fresh", "sending", "dropping"}
    BY <2>2, MappedIsStored DEF MapInv, NoDeadEntry
  <2> QED BY <2>1, <2>2, <2>3, LateMoves DEF MapInv, Staged
<1>3. CASE StopClosed
  BY <1>3, LateMoves DEF StopClosed, MapInv, Staged, NoDeadEntry
<1>4. CASE StopCancel \/ StopShutdown \/ StopDrained \/ StopDrainTimeout \/ StopDone
  BY <1>4, LateMoves
     DEF StopCancel, StopShutdown, StopDrained, StopDrainTimeout, StopDone, MapInv, Staged,
         NoDeadEntry
<1> QED BY <1>1, <1>2, <1>3, <1>4 DEF StopSteps

\* The connection map and the progress of handshakes, closes and loops stay
\* consistent in every reachable state.
LEMMA MapInvariant == Spec => []MapInv
<1>1. Init => Staged /\ NoDeadEntry
  BY DEF Init, Staged, NoDeadEntry, Mapped, InboundStages
<1>2. MapInv /\ Typed' /\ [Next]_vars => MapInv'
  <2> SUFFICES ASSUME MapInv, Typed', [Next]_vars PROVE MapInv'
    OBVIOUS
  <2>1. ASSUME NEW c \in Conns, CountConns(c) PROVE MapInv'
    <3>1. /\ c \in Inbound /\ stage[c] = "unused" /\ stage'[c] = "counted"
          /\ \A d \in Conns \ {c} : stage'[d] = stage[d] /\ peerOf'[d] = peerOf[d]
          /\ UNCHANGED <<conns, closing, loopVars, stopVars>>
      BY <2>1, Domains DEF CountConns, MapInv
    <3> QED BY <3>1, EarlyMoves DEF EarlyStages, InboundStages
  <2>2. ASSUME NEW c \in Conns, NEW p \in Peers, Dial(c, p) PROVE MapInv'
    <3>1. /\ c \in Outbound /\ stage[c] = "unused" /\ stage'[c] = "dialing"
          /\ \A d \in Conns \ {c} : stage'[d] = stage[d] /\ peerOf'[d] = peerOf[d]
          /\ UNCHANGED <<conns, closing, loopVars, stopVars>>
      BY <2>2, Domains DEF Dial, MapInv
    <3> QED BY <3>1, EarlyMoves, TransportAssumption DEF EarlyStages, InboundStages
  <2>3. CASE UNCHANGED vars
    BY <2>3 DEF vars, estVars, loopVars, stopVars, MapInv, Staged, NoDeadEntry, Mapped, Reading
  <2> QED BY <2>1, <2>2, <2>3, EstablishStep, CloseStep, LoopStep, StopStep
          DEF Next, Finished
<1> QED BY <1>1, <1>2, TransportTyped, PTL DEF Spec, MapInv

\* For any number of peers and connections: what GetConnection and Send find
\* in the map is a connection to that peer that is not yet past its close.
THEOREM TransportNoDeadEntry == Spec => []NoDeadEntry
<1>1. MapInv => NoDeadEntry
  BY DEF MapInv
<1> QED BY <1>1, MapInvariant, PTL

\* An entry leaves the map only in the dropConnection of the connection it
\* names: the late close of a replaced connection spares its successor.
THEOREM TransportEvictOnlySelf == Spec => EvictOnlySelf
<1> DEFINE Evicts ==
      \A p \in Peers : conns[p] # None /\ conns'[p] = None
         => closing[conns[p]] = "dropping" /\ closing'[conns[p]] = "clearing"
<1>1. Typed /\ [Next]_vars => [Evicts]_vars
  <2> SUFFICES ASSUME Typed, Next PROVE Evicts
    OBVIOUS
  <2>1. ASSUME NEW c \in Conns, Store(c) PROVE Evicts
    BY <2>1, TransportAssumption DEF Store, Typed
  <2>2. ASSUME NEW c \in Conns, DropEntry(c) PROVE Evicts
    BY <2>2 DEF DropEntry, Typed
  <2>3. CASE UNCHANGED conns
    BY <2>3
  <2>4. ASSUME NEW c \in Conns, Establish(c) PROVE Store(c) \/ UNCHANGED conns
    BY <2>4 DEF Establish, CheckLimit, AddPending, Upgrade, RejectInbound, AcceptInbound,
       Acknowledge, FailOutbound, ShakeOutbound, FlagConnected, SpawnReader, SpawnKeeper
  <2>5. ASSUME NEW c \in Conns, RunClose(c) PROVE DropEntry(c) \/ UNCHANGED conns
    BY <2>5 DEF RunClose, SendDisconnect, ClearFlag, ShutSocket
  <2>6. ASSUME NEW c \in Conns,
               \/ CountConns(c) \/ (\E p \in Peers : Dial(c, p)) \/ UserClose(c) \/ PeerGone(c)
               \/ ReaderStops(c) \/ ReaderEnds(c)
               \/ KeeperCancelled(c) \/ KeeperStops(c) \/ KeeperEnds(c)
        PROVE  UNCHANGED conns
    BY <2>6 DEF CountConns, Dial, UserClose, PeerGone, ReaderStops, ReaderEnds,
       KeeperCancelled, KeeperStops, KeeperEnds
  <2>7. CASE StopCancel \/ StopSteps \/ Finished
    BY <2>3, <2>7 DEF StopCancel, StopSteps, StopSnapshot, StopCloses, StopClosed,
       StopShutdown, StopDrained, StopDrainTimeout, StopDone, Finished, vars
  <2> QED BY <2>1, <2>2, <2>3, <2>4, <2>5, <2>6, <2>7 DEF Next
<1> QED BY <1>1, TransportTyped, PTL DEF Spec, EvictOnlySelf

--------------------------------------------------------------------------------
\* How the set of pending handshakes changes with the stage of one connection.
LEMMA PendingChange ==
    ASSUME Typed, Typed', NEW c \in Conns,
           \A d \in Conns \ {c} : stage'[d] = stage[d]
    PROVE  Pending' = IF c \in Inbound /\ stage'[c] \in PendingStages
                        THEN Pending \cup {c} ELSE Pending \ {c}
<1>1. CASE c \in Inbound /\ stage'[c] \in PendingStages
  BY <1>1 DEF Pending, Conns
<1>2. CASE ~(c \in Inbound /\ stage'[c] \in PendingStages)
  BY <1>2 DEF Pending, Conns
<1> QED BY <1>1, <1>2

\* The pending handshakes are finite in number.
LEMMA PendingFinite == IsFiniteSet(Pending) /\ Cardinality(Pending) \in Nat
<1>1. Pending \in SUBSET Inbound
  BY DEF Pending
<1>2. IsFiniteSet(Pending)
  BY <1>1, Finite, FS_Subset
<1> QED BY <1>2, FS_CardinalityType

\* pendingConns is exact after every step.
LEMMA PendingStep ==
    ASSUME MapInv, Typed', PendingExact, [Next]_vars
    PROVE  PendingExact'
<1>1. pendingConns = Cardinality(Pending)
  BY DEF PendingExact, Pending, PendingStages
<1>2. SUFFICES pendingConns' = Cardinality(Pending')
  BY DEF PendingExact, Pending, PendingStages
<1>3. ASSUME NEW c \in Conns, AddPending(c) PROVE pendingConns' = Cardinality(Pending')
  <2>1. /\ stage[c] = "admitted" /\ stage'[c] = "upgrading" /\ pendingConns' = pendingConns + 1
        /\ \A d \in Conns \ {c} : stage'[d] = stage[d]
    BY <1>3, Domains DEF AddPending, MapInv
  <2>2. c \in Inbound /\ c \notin Pending
    BY <2>1 DEF MapInv, Staged, InboundStages, Pending, PendingStages
  <2>3. Pending' = Pending \cup {c}
    BY <2>1, <2>2, PendingChange DEF MapInv, PendingStages
  <2> QED BY <1>1, <2>1, <2>2, <2>3, PendingFinite, FS_AddElement
<1>4. ASSUME NEW c \in Conns, RejectInbound(c) \/ (SpawnKeeper(c) /\ c \in Inbound)
      PROVE  pendingConns' = Cardinality(Pending')
  <2>1. /\ stage[c] \in {"upgrading", "reading", "acking", "keeping"}
        /\ stage'[c] \in {"failed", "up"} /\ pendingConns' = pendingConns - 1
        /\ \A d \in Conns \ {c} : stage'[d] = stage[d]
    BY <1>4, Domains DEF RejectInbound, SpawnKeeper, MapInv
  <2>2. c \in Inbound
    BY <1>4 DEF RejectInbound, MapInv, Staged, InboundStages
  <2>3. c \in Pending
    BY <2>1, <2>2 DEF Pending, PendingStages
  <2>4. Pending' = Pending \ {c}
    BY <2>1, PendingChange DEF MapInv, PendingStages
  <2> QED BY <1>1, <2>1, <2>3, <2>4, PendingFinite, FS_RemoveElement
<1>5. ASSUME NEW c \in Conns, pendingConns' = pendingConns,
             \A d \in Conns \ {c} : stage'[d] = stage[d],
             c \in Inbound => (stage[c] \in PendingStages <=> stage'[c] \in PendingStages)
      PROVE  pendingConns' = Cardinality(Pending')
  <2>1. Pending' = Pending
    BY <1>5 DEF Pending, Conns
  <2> QED BY <1>1, <1>5, <2>1
<1>6. ASSUME NEW c \in Conns,
             \/ CheckLimit(c) \/ Upgrade(c) \/ (\E p \in Peers : AcceptInbound(c, p))
             \/ Acknowledge(c) \/ CountConns(c)
      PROVE  pendingConns' = Cardinality(Pending')
  <2>1. /\ pendingConns' = pendingConns
        /\ \A d \in Conns \ {c} : stage'[d] = stage[d]
        /\ stage[c] \in PendingStages <=> stage'[c] \in PendingStages
    <3> USE Domains DEF MapInv, PendingStages
    <3>1. CASE CheckLimit(c)
      BY <3>1 DEF CheckLimit
    <3>2. CASE Upgrade(c)
      BY <3>2 DEF Upgrade
    <3>3. ASSUME NEW p \in Peers, AcceptInbound(c, p)
          PROVE  /\ pendingConns' = pendingConns
                 /\ \A d \in Conns \ {c} : stage'[d] = stage[d]
                 /\ stage[c] \in PendingStages <=> stage'[c] \in PendingStages
      BY <3>3 DEF AcceptInbound
    <3>4. CASE Acknowledge(c)
      BY <3>4 DEF Acknowledge
    <3>5. CASE CountConns(c)
      BY <3>5 DEF CountConns
    <3> QED BY <1>6, <3>1, <3>2, <3>3, <3>4, <3>5
  <2> QED BY <1>5, <2>1
<1>7. ASSUME NEW c \in Conns, FailOutbound(c) \/ (SpawnKeeper(c) /\ c \notin Inbound)
      PROVE  pendingConns' = Cardinality(Pending')
  <2>1. /\ pendingConns' = pendingConns
        /\ \A d \in Conns \ {c} : stage'[d] = stage[d]
    BY <1>7, Domains DEF FailOutbound, SpawnKeeper, MapInv
  <2>2. c \notin Inbound
    BY <1>7 DEF FailOutbound, MapInv, Staged
  <2> QED BY <1>5, <2>1, <2>2
<1>8. ASSUME NEW c \in Conns, NEW p \in Peers, ShakeOutbound(c, p) \/ Dial(c, p)
      PROVE  pendingConns' = Cardinality(Pending')
  <2>1. c \notin Inbound
    BY <1>8, TransportAssumption DEF ShakeOutbound, Dial, MapInv, Staged
  <2>2. /\ pendingConns' = pendingConns
        /\ \A d \in Conns \ {c} : stage'[d] = stage[d]
    BY <1>8, Domains DEF ShakeOutbound, Dial, MapInv
  <2> QED BY <1>5, <2>1, <2>2
<1>9. ASSUME NEW c \in Conns, Store(c) \/ FlagConnected(c) \/ SpawnReader(c)
      PROVE  pendingConns' = Cardinality(Pending')
  <2>1. /\ stage[c] \in PendingStages /\ stage'[c] \in PendingStages
        /\ pendingConns' = pendingConns
        /\ \A d \in Conns \ {c} : stage'[d] = stage[d]
    <3> USE Domains DEF MapInv, PendingStages
    <3>1. CASE Store(c)
      BY <3>1 DEF Store
    <3>2. CASE FlagConnected(c)
      BY <3>2 DEF FlagConnected
    <3>3. CASE SpawnReader(c)
      BY <3>3 DEF SpawnReader
    <3> QED BY <1>9, <3>1, <3>2, <3>3
  <2> QED BY <1>5, <2>1
<1>10. CASE UNCHANGED <<stage, pendingConns>>
  BY <1>1, <1>10 DEF Pending
<1>11. ASSUME NEW c \in Conns,
              \/ RunClose(c) \/ UserClose(c) \/ PeerGone(c) \/ ReaderStops(c) \/ ReaderEnds(c)
              \/ KeeperCancelled(c) \/ KeeperStops(c) \/ KeeperEnds(c)
       PROVE  UNCHANGED <<stage, pendingConns>>
  BY <1>11 DEF RunClose, SendDisconnect, DropEntry, ClearFlag, ShutSocket, UserClose, PeerGone,
     ReaderStops, ReaderEnds, KeeperCancelled, KeeperStops, KeeperEnds, estVars
<1>12. CASE StopCancel \/ StopSteps \/ UNCHANGED vars
  BY <1>10, <1>12 DEF StopCancel, StopSteps, StopSnapshot, StopCloses, StopClosed,
     StopShutdown, StopDrained, StopDrainTimeout, StopDone, vars, estVars
<1> QED
  BY <1>3, <1>4, <1>6, <1>7, <1>8, <1>9, <1>10, <1>11, <1>12 DEF Next, Establish, Finished

\* The counter behind MaxConns neither leaks nor goes negative, whichever way
\* handshakes end.
THEOREM TransportPendingExact == Spec => []PendingExact
<1>1. Init => PendingExact
  <2> SUFFICES ASSUME Init PROVE PendingExact
    OBVIOUS
  <2>1. {c \in Inbound : stage[c] \in PendingStages} = {}
    BY DEF Init, PendingStages, Conns
  <2> QED BY <2>1, FS_EmptySet DEF Init, PendingExact, PendingStages
<1>2. MapInv /\ Typed' /\ PendingExact /\ [Next]_vars => PendingExact'
  BY PendingStep
<1> QED BY <1>1, <1>2, MapInvariant, TransportTyped, PTL DEF Spec

\* Every variable of the transport keeps its type.
THEOREM TransportTypeOK == Spec => []TypeOK
<1>1. Typed /\ PendingExact => TypeOK
  BY PendingFinite DEF Typed, TypeOK, PendingExact, Pending, PendingStages
<1> QED BY <1>1, TransportTyped, TransportPendingExact, PTL
================================================================================
