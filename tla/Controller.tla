------------------------------- MODULE Controller ------------------------------
(***************************************************************************)
(* Controller of go/node/controller.go: callers that each run sendRequest  *)
(* with a message of their own, and the transport's read loops that run    *)
(* handleResponse.  They share the pending map (guarded by c.mu) and one   *)
(* response channel of capacity 1 per request.                             *)
(*                                                                         *)
(* The transport is seen through what the controller calls: GetConnection, *)
(* Connect, Send and the handler it invokes.  Remote peers may answer a    *)
(* request late, twice, with an error or with an unexpected message, or    *)
(* never.                                                                  *)
(***************************************************************************)
EXTENDS Integers, FiniteSets

CONSTANTS
    Requests,    \* one per call; stands for the fresh UUID of its message
    Loops,       \* read loops, each runs one handleResponse at a time
    Peers,       \* peer identifiers
    Registered,  \* the identifiers that c.peers.GetPeer finds
    Target,      \* [Requests -> Peers]: the peerID argument
    Op,          \* [Requests -> Ops]: the public method that was called
    ReplyIds,    \* bound: identifiers of the messages the peers may send
    ReplyTypes,  \* bound: types of the messages the peers may send
    None         \* nil

Ops == {"GetRemoteStats", "StartRemoteMiner", "StopRemoteMiner",
        "GetRemoteLogs", "PingPeer"}

ASSUME ControllerAssumption ==
    /\ Registered \subseteq Peers
    /\ Target \in [Requests -> Peers]
    /\ Op \in [Requests -> Ops]
    /\ ReplyTypes \subseteq {"stats", "miner_ack", "logs", "pong", "error"}
    /\ None \notin Requests \cup Peers

\* What handleResponse looks at, and what ParseResponse and the ack.Success
\* test make of the rest: good is FALSE for a payload that does not parse and
\* for an acknowledgement with Success unset.
Messages == [id: ReplyIds, replyTo: Requests \cup {None}, type: ReplyTypes,
             good: BOOLEAN]

ASSUME NoneIsNoMessage == None \notin Messages

VARIABLES
    pc,       \* pc[r]: where the caller of r is
    actual,   \* actual[r]: actualPeerID
    live,     \* peers with an entry in the transport's connection map
    pending,  \* keys of c.pending
    buf,      \* buf[r]: the one slot of respCh, None when empty
    closed,   \* requests whose respCh is closed
    resp,     \* resp[r]: the message the select received
    result,   \* result[r]: what the public method returned
    asked,    \* requests that reached the peer
    net,      \* messages under way to this node
    used,     \* identifiers of messages sent so far
    holding,  \* holding[l]: msg of a handleResponse that has taken its channel
    crashed   \* the process died of a panic

vars == <<pc, actual, live, pending, buf, closed, resp, result, asked, net,
          used, holding, crashed>>

Stages == {"idle", "connect", "register", "send", "wait", "unregister", "close",
           "returned"}

TypeOK ==
    /\ pc \in [Requests -> Stages]
    /\ actual \in [Requests -> Peers \cup {None}]
    /\ live \subseteq Peers
    /\ pending \subseteq Requests
    /\ buf \in [Requests -> Messages \cup {None}]
    /\ closed \subseteq Requests
    /\ resp \in [Requests -> Messages \cup {None}]
    /\ result \in [Requests -> {"none", "ok", "fail"}]
    /\ asked \subseteq Requests
    /\ net \subseteq Messages
    /\ used \subseteq ReplyIds
    /\ holding \in [Loops -> Messages \cup {None}]
    /\ crashed \in BOOLEAN

Init ==
    /\ pc = [r \in Requests |-> "idle"]
    /\ actual = [r \in Requests |-> None]
    /\ live \in SUBSET Peers
    /\ pending = {}
    /\ buf = [r \in Requests |-> None]
    /\ closed = {}
    /\ resp = [r \in Requests |-> None]
    /\ result = [r \in Requests |-> "none"]
    /\ asked = {}
    /\ net = {}
    /\ used = {}
    /\ holding = [l \in Loops |-> None]
    /\ crashed = FALSE

--------------------------------------------------------------------------------
(* The caller: a public method around sendRequest. *)

\* The caller of r is about to take this step, in a process that is alive.
At(r, here) == ~crashed /\ pc[r] = here

\* The public method fails without having registered anything.
ReturnEarly(r) ==
    /\ pc' = [pc EXCEPT ![r] = "returned"]
    /\ result' = [result EXCEPT ![r] = "fail"]
    /\ UNCHANGED <<actual, live, pending, buf, closed, resp, asked, net, used,
                   holding, crashed>>

\* No identity, a missing argument, or a message that cannot be built.
Refuse(r) ==
    /\ At(r, "idle")
    /\ ReturnEarly(r)

\* sendRequest looks for a connection.
Begin(r) ==
    /\ At(r, "idle")
    /\ actual' = [actual EXCEPT ![r] = Target[r]]
    /\ pc' = [pc EXCEPT ![r] = IF Target[r] \in live THEN "register" ELSE "connect"]
    /\ UNCHANGED <<live, pending, buf, closed, resp, result, asked, net, used,
                   holding, crashed>>

\* The peer is unknown, or Connect fails.
ConnectFails(r) ==
    /\ At(r, "connect")
    /\ ReturnEarly(r)

\* Connect succeeds; the handshake tells the peer's real identifier q.
ConnectSucceeds(r, q) ==
    /\ At(r, "connect")
    /\ Target[r] \in Registered
    /\ live' = live \cup {q}
    /\ actual' = [actual EXCEPT ![r] = q]
    /\ pc' = [pc EXCEPT ![r] = "register"]
    /\ UNCHANGED <<pending, buf, closed, resp, result, asked, net, used, holding,
                   crashed>>

\* c.pending[msg.ID] = respCh
Register(r) ==
    /\ At(r, "register")
    /\ pending' = pending \cup {r}
    /\ pc' = [pc EXCEPT ![r] = "send"]
    /\ UNCHANGED <<actual, live, buf, closed, resp, result, asked, net, used,
                   holding, crashed>>

\* transport.Send finds the connection and writes the message.
SendSucceeds(r) ==
    /\ At(r, "send")
    /\ actual[r] \in live
    /\ asked' = asked \cup {r}
    /\ pc' = [pc EXCEPT ![r] = "wait"]
    /\ UNCHANGED <<actual, live, pending, buf, closed, resp, result, net, used,
                   holding, crashed>>

\* The connection is gone by now, or the write fails.
SendFails(r) ==
    /\ At(r, "send")
    /\ pc' = [pc EXCEPT ![r] = "unregister"]
    /\ UNCHANGED <<actual, live, pending, buf, closed, resp, result, asked, net,
                   used, holding, crashed>>

\* case resp := <-respCh
ReceiveResponse(r) ==
    /\ At(r, "wait")
    /\ buf[r] # None
    /\ resp' = [resp EXCEPT ![r] = buf[r]]
    /\ buf' = [buf EXCEPT ![r] = None]
    /\ pc' = [pc EXCEPT ![r] = "unregister"]
    /\ UNCHANGED <<actual, live, pending, closed, result, asked, net, used,
                   holding, crashed>>

MutTimeout(r) ==
    /\ At(r, "wait")
    /\ UNCHANGED vars

\* case <-ctx.Done()
Timeout(r) ==
    /\ At(r, "wait")
    /\ pc' = [pc EXCEPT ![r] = "unregister"]
    /\ UNCHANGED <<actual, live, pending, buf, closed, resp, result, asked, net,
                   used, holding, crashed>>

MutUnregister(r) ==
    /\ At(r, "unregister")
    /\ pc' = [pc EXCEPT ![r] = "close"]
    /\ UNCHANGED <<actual, live, pending, buf, closed, resp, result, asked, net,
                   used, holding, crashed>>

\* The deferred function, first half: delete(c.pending, msg.ID) under c.mu.
Unregister(r) ==
    /\ At(r, "unregister")
    /\ pending' = pending \ {r}
    /\ pc' = [pc EXCEPT ![r] = "close"]
    /\ UNCHANGED <<actual, live, buf, closed, resp, result, asked, net, used,
                   holding, crashed>>

ExpectedType(op) ==
    CASE op = "GetRemoteStats"                         -> "stats"
      [] op \in {"StartRemoteMiner", "StopRemoteMiner"} -> "miner_ack"
      [] op = "GetRemoteLogs"                          -> "logs"
      [] op = "PingPeer"                               -> "pong"

MutValidateResponse(m, expected) == m # None /\ m.type # "error"

ValidateResponse(m, expected) ==
    m # None /\ m.type # "error" /\ m.type = expected

\* With the Success test that StartRemoteMiner and StopRemoteMiner add.
ParseResponse(m, expected) == ValidateResponse(m, expected) /\ m.good

\* PingPeer does not look at the payload of the pong.
Accepts(op, m) ==
    IF op = "PingPeer" THEN ValidateResponse(m, ExpectedType(op))
                       ELSE ParseResponse(m, ExpectedType(op))

\* The deferred function, second half: close(respCh), outside c.mu; then the
\* public method judges the response.
CloseAndReturn(r) ==
    /\ At(r, "close")
    /\ closed' = closed \cup {r}
    /\ result' = [result EXCEPT ![r] =
                     IF Accepts(Op[r], resp[r]) THEN "ok" ELSE "fail"]
    /\ pc' = [pc EXCEPT ![r] = "returned"]
    /\ UNCHANGED <<actual, live, pending, buf, resp, asked, net, used, holding,
                   crashed>>

--------------------------------------------------------------------------------
(* The read loops: handleResponse. *)

MutTakePending(l, m) ==
    /\ ~crashed
    /\ holding[l] = None
    /\ m \in net
    /\ net' = net \ {m}
    /\ UNCHANGED pending
    /\ holding' = [holding EXCEPT ![l] = IF m.replyTo \in pending THEN m ELSE None]
    /\ UNCHANGED <<pc, actual, live, buf, closed, resp, result, asked, used, crashed>>

\* Take the channel out of the pending map, under c.mu.  A message that is no
\* reply, or whose request is not pending, is dropped here.
TakePending(l, m) ==
    /\ ~crashed
    /\ holding[l] = None
    /\ m \in net
    /\ net' = net \ {m}
    /\ pending' = pending \ {m.replyTo}
    /\ holding' = [holding EXCEPT ![l] = IF m.replyTo \in pending THEN m ELSE None]
    /\ UNCHANGED <<pc, actual, live, buf, closed, resp, result, asked, used, crashed>>

\* The select after c.mu is released: a send on a closed channel panics even
\* with a default case, a full channel takes the default case.
Deliver(l) ==
    /\ ~crashed
    /\ holding[l] # None
    /\ LET r == holding[l].replyTo IN
         /\ crashed' = (r \in closed)
         /\ buf' = IF r \notin closed /\ buf[r] = None
                     THEN [buf EXCEPT ![r] = holding[l]] ELSE buf
    /\ holding' = [holding EXCEPT ![l] = None]
    /\ UNCHANGED <<pc, actual, live, pending, closed, resp, result, asked, net, used>>

--------------------------------------------------------------------------------
(* The environment: connections and remote peers. *)

\* A peer that was asked answers, perhaps again, perhaps with nonsense; or a
\* peer sends a message that is no reply.
PeerSends(m) ==
    /\ ~crashed
    /\ m.id \notin used
    /\ m.replyTo \in asked \cup {None}
    /\ used' = used \cup {m.id}
    /\ net' = net \cup {m}
    /\ UNCHANGED <<pc, actual, live, pending, buf, closed, resp, result, asked,
                   holding, crashed>>

\* A message is lost with its connection, or dropped by the read loop.
Lose(m) ==
    /\ ~crashed
    /\ m \in net
    /\ net' = net \ {m}
    /\ UNCHANGED <<pc, actual, live, pending, buf, closed, resp, result, asked,
                   used, holding, crashed>>

\* A connection ends.
Disconnect(p) ==
    /\ ~crashed
    /\ p \in live
    /\ live' = live \ {p}
    /\ UNCHANGED <<pc, actual, pending, buf, closed, resp, result, asked, net,
                   used, holding, crashed>>

--------------------------------------------------------------------------------
Caller(r) ==
    \/ Refuse(r) \/ Begin(r) \/ ConnectFails(r) \/ \E q \in Peers : ConnectSucceeds(r, q)
    \/ Register(r) \/ SendSucceeds(r) \/ SendFails(r)
    \/ ReceiveResponse(r) \/ Timeout(r) \/ Unregister(r) \/ CloseAndReturn(r)

ReadLoop(l) == (\E m \in net : TakePending(l, m)) \/ Deliver(l)

\* Every call has returned, or the process is gone.
Quiet ==
    /\ crashed \/ \A r \in Requests : pc[r] = "returned"
    /\ UNCHANGED vars

Next ==
    \/ \E r \in Requests : Caller(r)
    \/ \E l \in Loops : ReadLoop(l)
    \/ \E m \in Messages : PeerSends(m)
    \/ \E m \in net : Lose(m)
    \/ \E p \in live : Disconnect(p)
    \/ Quiet

Spec == Init /\ [][Next]_vars

\* A caller that has begun is a running goroutine, and its context's deadline
\* fires: dialling, the handshake, writing and waiting all have deadlines.
Fairness ==
    \A r \in Requests : WF_vars(pc[r] # "idle" /\ Caller(r))

FairSpec == Spec /\ Fairness

--------------------------------------------------------------------------------
Holders(r) == {l \in Loops : holding[l] # None /\ holding[l].replyTo = r}

\* At most one reply ever gets hold of a request's channel, whatever peers
\* send: while a request is pending nobody holds it, and of the read loops
\* holding it, its buffer and its caller at most one has a message.  So the
\* "full" default of handleResponse (controller.go:56) is never taken and no
\* second answer can replace the first.
SingleDelivery ==
    \A r \in Requests :
      /\ \A k, l \in Holders(r) : k = l
      /\ Holders(r) # {} => r \notin pending /\ buf[r] = None /\ resp[r] = None
      /\ r \in pending => buf[r] = None /\ resp[r] = None
      /\ buf[r] # None => resp[r] = None

\* A public method reports success only for a message that answers this very
\* request, of the type it asked for and, but for PingPeer, with a payload that
\* says so; never for an answer to another call in flight (controller.go:47, protocol.go:41).
OkMeansAnswered ==
    \A r \in Requests : result[r] = "ok" =>
      /\ resp[r] # None
      /\ resp[r].replyTo = r
      /\ resp[r].type = ExpectedType(Op[r])
      /\ Op[r] # "PingPeer" => resp[r].good
      /\ r \in asked

\* Timeouts, failed sends and late replies leave nothing behind: an entry of
\* c.pending always belongs to a call that is still running and will remove
\* it (controller.go:92).
NoPendingLeak ==
    \A r \in pending : pc[r] \in {"send", "wait", "unregister"}

\* Every call that has begun returns: with an answer, or after its timeout,
\* even when the peer never answers (controller.go:109), unless the process
\* crashed.
CallsReturn ==
    \A r \in Requests : pc[r] # "idle" ~> pc[r] = "returned" \/ crashed

\* handleResponse says "Channel full or closed" of its default case
\* (controller.go:57): a reply that finds its channel closed is dropped, and
\* the process goes on.
ClosedChannelIsHandled == ~crashed
================================================================================
