-------------------------------- MODULE Transport ------------------------------
(***************************************************************************)
(* The life cycle of peer connections in go/node/transport.go: admission   *)
(* of inbound connections, both handshakes, the connection map, the two    *)
(* goroutines of every connection, the close-once protocol, Stop, and the  *)
(* Connected flag that the transport keeps in the peer registry.           *)
(*                                                                         *)
(* A step is what one goroutine does between two points where another can  *)
(* interfere: a critical section of t.mu or of the registry, an atomic     *)
(* operation, or a blocking call.                                          *)
(***************************************************************************)
EXTENDS Integers, FiniteSets

CONSTANTS
    Peers,     \* peer identifiers
    Inbound,   \* bound: PeerConnections that handleWSUpgrade may create
    Outbound,  \* bound: PeerConnections that Connect may create
    MaxConns,  \* config.MaxConns
    None       \* nil

Conns == Inbound \cup Outbound

ASSUME TransportAssumption ==
    /\ IsFiniteSet(Conns) /\ IsFiniteSet(Peers)
    /\ Inbound \cap Outbound = {}
    /\ MaxConns \in Nat
    /\ None \notin Conns \cup Peers

VARIABLES
    stage,      \* stage[c]: progress of the goroutine that establishes c
    seen,       \* seen[c]: currentConns as handleWSUpgrade read it, 0 once used
    pendingConns, \* t.pendingConns
    peerOf,     \* peerOf[c]: pc.Peer.ID once the handshake has told it
    copied,     \* copied[c]: Connected in the Peer given to Connect, FALSE once used
    conns,      \* t.conns: [Peers -> Conns or None]
    reg,        \* reg[p]: p in the registry, with its Connected flag
    closing,    \* closing[c]: progress of the function run by pc.closeOnce
    reader,     \* reader[c]: the readLoop goroutine
    keeper,     \* keeper[c]: the keepalive goroutine
    cancelled,  \* t.ctx is cancelled
    stop,       \* progress of Stop
    toClose,    \* Stop's snapshot, the part not yet closed
    current     \* the connection Stop is closing

estVars == <<stage, seen, pendingConns, peerOf, copied>>
loopVars == <<reader, keeper>>
stopVars == <<cancelled, stop, toClose, current>>
vars == <<estVars, conns, reg, closing, loopVars, stopVars>>

Stages == {"unused", "counted", "admitted", "upgrading", "reading", "acking",
           "dialing", "storing", "flagging", "spawning", "keeping", "up", "failed"}

TypeOK ==
    /\ stage \in [Conns -> Stages]
    /\ seen \in [Conns -> Nat]
    /\ pendingConns \in Nat
    /\ peerOf \in [Conns -> Peers \cup {None}]
    /\ copied \in [Conns -> BOOLEAN]
    /\ conns \in [Peers -> Conns \cup {None}]
    /\ reg \in [Peers -> {"absent", "off", "on"}]
    /\ closing \in [Conns -> {"fresh", "sending", "dropping", "clearing", "shutting", "done"}]
    /\ reader \in [Conns -> {"none", "running", "failing", "closing", "ended"}]
    /\ keeper \in [Conns -> {"none", "running", "closing", "ended"}]
    /\ cancelled \in BOOLEAN
    /\ stop \in {"no", "cancelled", "closing", "draining", "waiting", "done", "failed"}
    /\ toClose \subseteq Conns
    /\ current \in Conns \cup {None}

\* NewTransport and Start: no connections, any peers in the registry.
Init ==
    /\ stage = [c \in Conns |-> "unused"]
    /\ seen = [c \in Conns |-> 0]
    /\ pendingConns = 0
    /\ peerOf = [c \in Conns |-> None]
    /\ copied = [c \in Conns |-> FALSE]
    /\ conns = [p \in Peers |-> None]
    /\ reg \in [Peers -> {"absent", "off"}]
    /\ closing = [c \in Conns |-> "fresh"]
    /\ reader = [c \in Conns |-> "none"]
    /\ keeper = [c \in Conns |-> "none"]
    /\ cancelled = FALSE
    /\ stop = "no"
    /\ toClose = {}
    /\ current = None

--------------------------------------------------------------------------------
(* The registry, as the transport uses it. *)

\* registry.SetConnected(p, v) does nothing for an unknown peer.
SetConnected(p, v) ==
    reg' = [reg EXCEPT ![p] = IF @ = "absent" THEN @ ELSE IF v THEN "on" ELSE "off"]

--------------------------------------------------------------------------------
(* handleWSUpgrade. *)

Mapped == {p \in Peers : conns[p] # None}

\* A request arrives while the listener is open; len(t.conns) under t.mu.
CountConns(c) ==
    /\ c \in Inbound
    /\ stage[c] = "unused"
    /\ stop \in {"no", "cancelled", "closing"}
    /\ stage' = [stage EXCEPT ![c] = "counted"]
    /\ seen' = [seen EXCEPT ![c] = Cardinality(Mapped)]
    /\ UNCHANGED <<pendingConns, peerOf, copied, conns, reg, closing, loopVars, stopVars>>

\* totalConns < MaxConns, with pendingConns loaded now.
WithinLimit(c) == seen[c] + pendingConns < MaxConns

\* Answer 503 at the limit.
CheckLimit(c) ==
    /\ stage[c] = "counted"
    /\ stage' = [stage EXCEPT ![c] = IF WithinLimit(c) THEN "admitted" ELSE "failed"]
    /\ seen' = [seen EXCEPT ![c] = 0]
    /\ UNCHANGED <<pendingConns, peerOf, copied, conns, reg, closing, loopVars, stopVars>>

\* t.pendingConns.Add(1)
AddPending(c) ==
    /\ stage[c] = "admitted"
    /\ stage' = [stage EXCEPT ![c] = "upgrading"]
    /\ pendingConns' = pendingConns + 1
    /\ UNCHANGED <<seen, peerOf, copied, conns, reg, closing, loopVars, stopVars>>

\* upgrader.Upgrade takes the connection over from the HTTP server.
Upgrade(c) ==
    /\ stage[c] = "upgrading"
    /\ stage' = [stage EXCEPT ![c] = "reading"]
    /\ UNCHANGED <<seen, pendingConns, peerOf, copied, conns, reg, closing, loopVars, stopVars>>

MutRejectInbound(c) ==
    /\ stage[c] \in {"upgrading", "reading", "acking"}
    /\ stage' = [stage EXCEPT ![c] = "failed"]
    /\ peerOf' = [peerOf EXCEPT ![c] = None]
    /\ UNCHANGED <<seen, pendingConns, copied, conns, reg, closing, loopVars, stopVars>>

\* The upgrade, the handshake message, its version, its key, the allowlist,
\* the identity or the acknowledgement fails: close, return, deferred Add(-1).
RejectInbound(c) ==
    /\ stage[c] \in {"upgrading", "reading", "acking"}
    /\ stage' = [stage EXCEPT ![c] = "failed"]
    /\ pendingConns' = pendingConns - 1
    /\ peerOf' = [peerOf EXCEPT ![c] = None]
    /\ UNCHANGED <<seen, copied, conns, reg, closing, loopVars, stopVars>>

\* All checks pass for peer p.  An unknown peer is registered; the result of
\* AddPeer, which refuses an invalid name, is ignored.
AcceptInbound(c, p) ==
    /\ stage[c] = "reading"
    /\ stage' = [stage EXCEPT ![c] = "acking"]
    /\ peerOf' = [peerOf EXCEPT ![c] = p]
    /\ \/ UNCHANGED reg
       \/ reg[p] = "absent" /\ reg' = [reg EXCEPT ![p] = "off"]
    /\ UNCHANGED <<seen, pendingConns, copied, conns, closing, loopVars, stopVars>>

\* The acknowledgement is written.
Acknowledge(c) ==
    /\ stage[c] = "acking"
    /\ stage' = [stage EXCEPT ![c] = "storing"]
    /\ UNCHANGED <<seen, pendingConns, peerOf, copied, conns, reg, closing, loopVars, stopVars>>

--------------------------------------------------------------------------------
(* Connect and performHandshake. *)

\* Connect is called with a copy of registered peer p.
Dial(c, p) ==
    /\ c \in Outbound
    /\ stage[c] = "unused"
    /\ reg[p] # "absent"
    /\ stage' = [stage EXCEPT ![c] = "dialing"]
    /\ copied' = [copied EXCEPT ![c] = (reg[p] = "on")]
    /\ UNCHANGED <<seen, pendingConns, peerOf, conns, reg, closing, loopVars, stopVars>>

\* Dialling or any step of performHandshake fails.
FailOutbound(c) ==
    /\ stage[c] = "dialing"
    /\ stage' = [stage EXCEPT ![c] = "failed"]
    /\ copied' = [copied EXCEPT ![c] = FALSE]
    /\ UNCHANGED <<seen, pendingConns, peerOf, conns, reg, closing, loopVars, stopVars>>

\* The handshake tells that the peer is p.  UpdatePeer, or else AddPeer, puts
\* Connect's Peer into the registry, with the flag it was copied with; AddPeer
\* may refuse its name.
ShakeOutbound(c, p) ==
    /\ stage[c] = "dialing"
    /\ stage' = [stage EXCEPT ![c] = "storing"]
    /\ peerOf' = [peerOf EXCEPT ![c] = p]
    /\ \/ reg' = [reg EXCEPT ![p] = IF copied[c] THEN "on" ELSE "off"]
       \/ reg[p] = "absent" /\ UNCHANGED reg
    /\ copied' = [copied EXCEPT ![c] = FALSE]
    /\ UNCHANGED <<seen, pendingConns, conns, closing, loopVars, stopVars>>

--------------------------------------------------------------------------------
(* The common end of handleWSUpgrade and Connect. *)

\* t.conns[peer.ID] = pc, whatever was there.
Store(c) ==
    /\ stage[c] = "storing"
    /\ stage' = [stage EXCEPT ![c] = "flagging"]
    /\ conns' = [conns EXCEPT ![peerOf[c]] = c]
    /\ UNCHANGED <<seen, pendingConns, peerOf, copied, reg, closing, loopVars, stopVars>>

\* registry.SetConnected(id, true)
FlagConnected(c) ==
    /\ stage[c] = "flagging"
    /\ stage' = [stage EXCEPT ![c] = "spawning"]
    /\ SetConnected(peerOf[c], TRUE)
    /\ UNCHANGED <<seen, pendingConns, peerOf, copied, conns, closing, loopVars, stopVars>>

\* t.wg.Add(1); go t.readLoop(pc)
SpawnReader(c) ==
    /\ stage[c] = "spawning"
    /\ stage' = [stage EXCEPT ![c] = "keeping"]
    /\ reader' = [reader EXCEPT ![c] = "running"]
    /\ UNCHANGED <<seen, pendingConns, peerOf, copied, conns, reg, closing, keeper, stopVars>>

\* t.wg.Add(1); go t.keepalive(pc); return, with handleWSUpgrade's Add(-1).
SpawnKeeper(c) ==
    /\ stage[c] = "keeping"
    /\ stage' = [stage EXCEPT ![c] = "up"]
    /\ keeper' = [keeper EXCEPT ![c] = "running"]
    /\ pendingConns' = IF c \in Inbound THEN pendingConns - 1 ELSE pendingConns
    /\ UNCHANGED <<seen, peerOf, copied, conns, reg, closing, reader, stopVars>>

--------------------------------------------------------------------------------
(* Close and GracefulClose.  The function under closeOnce runs once; every  *)
(* other caller waits until it is done.                                     *)

\* closing' when a goroutine calls Close on c.
CallClose(c) ==
    closing' = [closing EXCEPT ![c] = IF @ = "fresh" THEN "dropping" ELSE @]

\* GracefulClose's best-effort disconnect message, sent or not.
SendDisconnect(c) ==
    /\ closing[c] = "sending"
    /\ closing' = [closing EXCEPT ![c] = "dropping"]
    /\ UNCHANGED <<estVars, conns, reg, loopVars, stopVars>>

MutDropEntry(c) ==
    /\ closing[c] = "dropping"
    /\ closing' = [closing EXCEPT ![c] = "clearing"]
    /\ conns' = [conns EXCEPT ![peerOf[c]] = None]
    /\ UNCHANGED <<estVars, reg, loopVars, stopVars>>

MutDropNothing(c) ==
    /\ closing[c] = "dropping"
    /\ closing' = [closing EXCEPT ![c] = "clearing"]
    /\ UNCHANGED <<estVars, conns, reg, loopVars, stopVars>>

\* dropConnection under t.mu: delete the entry if it is still this connection.
DropEntry(c) ==
    /\ closing[c] = "dropping"
    /\ closing' = [closing EXCEPT ![c] = "clearing"]
    /\ conns' = [conns EXCEPT ![peerOf[c]] = IF @ = c THEN None ELSE @]
    /\ UNCHANGED <<estVars, reg, loopVars, stopVars>>

\* dropConnection, last: registry.SetConnected(id, false), unconditionally.
ClearFlag(c) ==
    /\ closing[c] = "clearing"
    /\ closing' = [closing EXCEPT ![c] = "shutting"]
    /\ SetConnected(peerOf[c], FALSE)
    /\ UNCHANGED <<estVars, conns, loopVars, stopVars>>

\* pc.Conn.Close()
ShutSocket(c) ==
    /\ closing[c] = "shutting"
    /\ closing' = [closing EXCEPT ![c] = "done"]
    /\ UNCHANGED <<estVars, conns, reg, loopVars, stopVars>>

\* DisconnectFromPeer, or another holder of a connection once stored in the
\* map, calls Close.
UserClose(c) ==
    /\ stage[c] \in {"flagging", "spawning", "keeping", "up"}
    /\ closing[c] = "fresh"
    /\ CallClose(c)
    /\ UNCHANGED <<estVars, conns, reg, loopVars, stopVars>>

--------------------------------------------------------------------------------
(* readLoop and keepalive. *)

Reading(c) == reader[c] \in {"running", "failing"}

\* The remote end closes or the network fails: the read under way, or the next
\* one, will end with an error, at the latest at its deadline.
PeerGone(c) ==
    /\ reader[c] = "running"
    /\ reader' = [reader EXCEPT ![c] = "failing"]
    /\ UNCHANGED <<estVars, conns, reg, closing, keeper, stopVars>>

MutReaderStops(c) ==
    /\ Reading(c)
    /\ reader' = [reader EXCEPT ![c] = "closing"]
    /\ UNCHANGED <<estVars, conns, reg, closing, keeper, stopVars>>

\* The read fails because the socket is closed here or there, the idle
\* deadline passes, or ctx is done at the head of the loop; the deferred
\* removeConnection follows.
ReaderStops(c) ==
    /\ Reading(c)
    /\ reader' = [reader EXCEPT ![c] = "closing"]
    /\ CallClose(c)
    /\ UNCHANGED <<estVars, conns, reg, keeper, stopVars>>

\* removeConnection returns: closeOnce is done.
ReaderEnds(c) ==
    /\ reader[c] = "closing"
    /\ closing[c] = "done"
    /\ reader' = [reader EXCEPT ![c] = "ended"]
    /\ UNCHANGED <<estVars, conns, reg, closing, keeper, stopVars>>

\* case <-t.ctx.Done()
KeeperCancelled(c) ==
    /\ keeper[c] = "running"
    /\ cancelled
    /\ keeper' = [keeper EXCEPT ![c] = "ended"]
    /\ UNCHANGED <<estVars, conns, reg, closing, reader, stopVars>>

MutKeeperStops(c) ==
    /\ keeper[c] = "running"
    /\ closing[c] # "done"
    /\ keeper' = [keeper EXCEPT ![c] = "closing"]
    /\ CallClose(c)
    /\ UNCHANGED <<estVars, conns, reg, reader, stopVars>>

\* A tick finds the connection stale, or its ping cannot be written.
KeeperStops(c) ==
    /\ keeper[c] = "running"
    /\ keeper' = [keeper EXCEPT ![c] = "closing"]
    /\ CallClose(c)
    /\ UNCHANGED <<estVars, conns, reg, reader, stopVars>>

KeeperEnds(c) ==
    /\ keeper[c] = "closing"
    /\ closing[c] = "done"
    /\ keeper' = [keeper EXCEPT ![c] = "ended"]
    /\ UNCHANGED <<estVars, conns, reg, closing, reader, stopVars>>

--------------------------------------------------------------------------------
(* Stop. *)

StopCancel ==
    /\ stop = "no"
    /\ stop' = "cancelled"
    /\ cancelled' = TRUE
    /\ UNCHANGED <<estVars, conns, reg, closing, loopVars, toClose, current>>

\* The snapshot of t.conns under t.mu.
StopSnapshot ==
    /\ stop = "cancelled"
    /\ stop' = "closing"
    /\ toClose' = {conns[p] : p \in Mapped}
    /\ UNCHANGED <<estVars, conns, reg, closing, loopVars, cancelled, current>>

\* pc.GracefulClose on the next connection of the snapshot.
StopCloses(c) ==
    /\ stop = "closing"
    /\ current = None
    /\ c \in toClose
    /\ current' = c
    /\ closing' = [closing EXCEPT ![c] = IF @ = "fresh" THEN "sending" ELSE @]
    /\ UNCHANGED <<estVars, conns, reg, loopVars, cancelled, stop, toClose>>

MutStopClosed ==
    /\ current # None
    /\ closing[current] = "done"
    /\ current' = None
    /\ UNCHANGED <<estVars, conns, reg, closing, loopVars, cancelled, stop, toClose>>

\* GracefulClose returns.
StopClosed ==
    /\ current # None
    /\ closing[current] = "done"
    /\ toClose' = toClose \ {current}
    /\ current' = None
    /\ UNCHANGED <<estVars, conns, reg, closing, loopVars, cancelled, stop>>

\* server.Shutdown closes the listener and waits for handlers that have not
\* taken their connection over yet.
StopShutdown ==
    /\ stop = "closing"
    /\ current = None
    /\ toClose = {}
    /\ stop' = "draining"
    /\ UNCHANGED <<estVars, conns, reg, closing, loopVars, cancelled, toClose,
                   current>>

HttpIdle == \A c \in Conns : stage[c] \notin {"counted", "admitted", "upgrading"}

StopDrained ==
    /\ stop = "draining"
    /\ HttpIdle
    /\ stop' = "waiting"
    /\ UNCHANGED <<estVars, conns, reg, closing, loopVars, cancelled, toClose,
                   current>>

\* The five seconds of Shutdown pass: Stop fails without waiting.
StopDrainTimeout ==
    /\ stop = "draining"
    /\ ~HttpIdle
    /\ stop' = "failed"
    /\ UNCHANGED <<estVars, conns, reg, closing, loopVars, cancelled, toClose,
                   current>>

\* The goroutines counted by t.wg.
Live == {c \in Conns : Reading(c) \/ reader[c] = "closing"
                       \/ keeper[c] \in {"running", "closing"}}

\* t.wg.Wait()
StopDone ==
    /\ stop = "waiting"
    /\ Live = {}
    /\ stop' = "done"
    /\ UNCHANGED <<estVars, conns, reg, closing, loopVars, cancelled, toClose,
                   current>>

--------------------------------------------------------------------------------
Establish(c) ==
    \/ CheckLimit(c) \/ AddPending(c) \/ Upgrade(c) \/ RejectInbound(c)
    \/ (\E p \in Peers : AcceptInbound(c, p)) \/ Acknowledge(c)
    \/ FailOutbound(c) \/ \E p \in Peers : ShakeOutbound(c, p)
    \/ Store(c) \/ FlagConnected(c) \/ SpawnReader(c) \/ SpawnKeeper(c)

RunClose(c) == SendDisconnect(c) \/ DropEntry(c) \/ ClearFlag(c) \/ ShutSocket(c)

StopSteps ==
    \/ StopSnapshot \/ (\E c \in Conns : StopCloses(c)) \/ StopClosed
    \/ StopShutdown \/ StopDrained \/ StopDrainTimeout \/ StopDone

\* The transport is stopped and nothing is left to do.
Finished ==
    /\ stop \in {"done", "failed"}
    /\ Live = {}
    /\ \A c \in Conns : closing[c] \in {"fresh", "done"} /\ stage[c] \in {"unused", "up", "failed"}
    /\ UNCHANGED vars

Next ==
    \/ \E c \in Conns : CountConns(c) \/ \E p \in Peers : Dial(c, p)
    \/ \E c \in Conns : Establish(c)
    \/ \E c \in Conns : RunClose(c)
    \/ \E c \in Conns : UserClose(c) \/ PeerGone(c)
    \/ \E c \in Conns : ReaderStops(c) \/ ReaderEnds(c)
    \/ \E c \in Conns : KeeperCancelled(c) \/ KeeperStops(c) \/ KeeperEnds(c)
    \/ StopCancel
    \/ StopSteps
    \/ Finished

Spec == Init /\ [][Next]_vars

\* A read on a connection that is dead, closed or cancelled ends at the latest
\* at its deadline; a ping on it fails at the next tick.
MustEnd(c) == reader[c] = "failing" \/ closing[c] = "done" \/ cancelled

\* A goroutine that can step does: handshakes, writes and reads all carry
\* deadlines.  Nothing forces a healthy connection to end, a new one to
\* arrive, or Stop to be called.
Fairness ==
    /\ \A c \in Conns :
         /\ WF_vars(Establish(c))
         /\ WF_vars(RunClose(c))
         /\ WF_vars((MustEnd(c) /\ ReaderStops(c)) \/ ReaderEnds(c))
         /\ WF_vars((MustEnd(c) /\ KeeperStops(c)) \/ KeeperCancelled(c) \/ KeeperEnds(c))
    /\ WF_vars(StopSteps)

FairSpec == Spec /\ Fairness

--------------------------------------------------------------------------------
\* No dead entry in the map: what GetConnection and Send find is a connection
\* to that very peer that is still being set up or still has a reader, and
\* whose close has not yet passed dropConnection; however connections replace
\* each other and whoever closes them.
NoDeadEntry ==
    \A p \in Mapped : LET c == conns[p] IN
      /\ peerOf[c] = p
      /\ closing[c] \in {"fresh", "sending", "dropping"}
      /\ stage[c] \in {"flagging", "spawning"} \/ Reading(c) \/ reader[c] = "closing"

\* A closing connection removes only itself: an entry disappears from the map
\* only in the dropConnection of the connection it names, so the late close of
\* a replaced connection leaves its successor in place (transport.go:1085).
EvictOnlySelf ==
    [][\A p \in Peers : conns[p] # None /\ conns'[p] = None
         => closing[conns[p]] = "dropping" /\ closing'[conns[p]] = "clearing"]_vars

\* pendingConns counts exactly the handshakes in handleWSUpgrade past the
\* limit check, whichever way they leave (transport.go:461): it neither leaks,
\* which would refuse peers for good, nor goes below zero.
PendingExact ==
    pendingConns = Cardinality({c \in Inbound : stage[c] \in
        {"upgrading", "reading", "acking", "storing", "flagging", "spawning", "keeping"}})

\* Stop returns: closing every connection of its snapshot, draining the HTTP
\* server and waiting for the loops never blocks for good, whoever else is
\* closing the same connections (transport.go:299).
StopReturns == stop = "cancelled" ~> stop \in {"done", "failed"}

\* A closed connection leaks no goroutine: both its loops have run and ended,
\* even if it was closed before they were started (transport.go:377).
NoLoopLeak ==
    \A c \in Conns : closing[c] = "done" ~> reader[c] = "ended" /\ keeper[c] = "ended"

\* A dead peer is evicted: once the remote end of a connection in the map is
\* gone, the entry does not keep naming it (transport.go:800).
DeadPeerEvicted ==
    \A c \in Conns : reader[c] = "failing" ~> \A p \in Peers : conns[p] # c

--------------------------------------------------------------------------------
Settled ==
    \A c \in Conns : stage[c] \in {"unused", "up", "failed"} /\ closing[c] \in {"fresh", "done"}

\* "The handler tracks pendingConns (atomic counter) during the handshake phase
\* in addition to established connections, preventing races where a surge of
\* simultaneous inbounds could exceed the limit" (docs/architecture.md:59): the
\* map never holds more inbound connections than MaxConns.
LimitEnforced == Cardinality({p \in Mapped : conns[p] \in Inbound}) <= MaxConns

\* "GetConnectedPeers returns all currently connected peers" (peer.go:673): once
\* nothing is changing, a registered peer with a live entry in the map has its
\* Connected flag set.
LiveMeansConnected ==
    Settled => \A p \in Mapped : reg[p] # "off"
================================================================================
