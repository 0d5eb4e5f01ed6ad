------------------------------ MODULE NodeProofs -------------------------------
(***************************************************************************)
(* What a node makes of the answers it asks for, and who it is.  Request  *)
(* and response correlation in the controller, for any number of           *)
(* concurrent calls, read loops, peers and messages.  A node stays who it  *)
(* is, and a deleted identity never comes back, for every number of key    *)
(* pairs: with one manager over the files, and crashes and failures        *)
(* anywhere.                                                               *)
(***************************************************************************)
EXTENDS Controller, Identity, FiniteSetTheorems, TLAPS

\* The part of a message that routing looks at.
LEMMA MessageFields ==
    ASSUME NEW m \in Messages
    PROVE  /\ m # None
           /\ m.replyTo \in Requests \cup {None}
           /\ m.id \in ReplyIds
BY NoneIsNoMessage DEF Messages

\* Every variable keeps its type.
THEOREM ControllerTypeOK == Spec => []TypeOK
<1>1. Init => TypeOK
  <2> SUFFICES ASSUME Init PROVE TypeOK
    OBVIOUS
  <2>1. crashed \in BOOLEAN /\ live \subseteq Peers
    BY Zenon DEF Init
  <2>2. /\ pc \in [Requests -> Stages]
        /\ result \in [Requests -> {"none", "ok", "fail"}]
        /\ actual \in [Requests -> Peers \cup {None}]
    BY DEF Init, Stages
  <2>3. /\ buf \in [Requests -> Messages \cup {None}]
        /\ resp \in [Requests -> Messages \cup {None}]
        /\ holding \in [Loops -> Messages \cup {None}]
    BY DEF Init
  <2> QED BY <2>1, <2>2, <2>3 DEF Init, TypeOK
<1>2. TypeOK /\ [Next]_vars => TypeOK'
  <2> SUFFICES ASSUME TypeOK, [Next]_vars PROVE TypeOK'
    OBVIOUS
  <2>1. ASSUME NEW r \in Requests, Refuse(r) \/ ConnectFails(r) PROVE TypeOK'
    BY <2>1 DEF Refuse, ConnectFails, ReturnEarly, TypeOK, Stages
  <2>2. ASSUME NEW r \in Requests, Begin(r) PROVE TypeOK'
    BY <2>2, ControllerAssumption, ZenonT(30) DEF Begin, TypeOK, Stages
  <2>3. ASSUME NEW r \in Requests, NEW q \in Peers, ConnectSucceeds(r, q) PROVE TypeOK'
    BY <2>3 DEF ConnectSucceeds, TypeOK, Stages
  <2>4. ASSUME NEW r \in Requests, Register(r) \/ Unregister(r) PROVE TypeOK'
    BY <2>4 DEF Register, Unregister, TypeOK, Stages
  <2>5. ASSUME NEW r \in Requests, SendSucceeds(r) \/ SendFails(r) \/ Timeout(r)
        PROVE  TypeOK'
    BY <2>5 DEF SendSucceeds, SendFails, Timeout, TypeOK, Stages
  <2>6. ASSUME NEW r \in Requests, ReceiveResponse(r) PROVE TypeOK'
    BY <2>6 DEF ReceiveResponse, TypeOK, Stages
  <2>7. ASSUME NEW r \in Requests, CloseAndReturn(r) PROVE TypeOK'
    BY <2>7 DEF CloseAndReturn, TypeOK, Stages
  <2>8. ASSUME NEW l \in Loops, NEW m \in net, TakePending(l, m) PROVE TypeOK'
    BY <2>8 DEF TakePending, TypeOK
  <2>9. ASSUME NEW l \in Loops, Deliver(l) PROVE TypeOK'
    <3>1. crashed' \in BOOLEAN
      <4>1. crashed' = (holding[l].replyTo \in closed)
        BY <2>9 DEF Deliver
      <4>2. (holding[l].replyTo \in closed) \in BOOLEAN
        OBVIOUS
      <4> QED BY <4>1, <4>2
    <3>2. holding[l] \in Messages
      BY <2>9 DEF Deliver, TypeOK
    <3>3. buf' \in [Requests -> Messages \cup {None}]
      BY <2>9, <3>2, Zenon DEF Deliver, TypeOK
    <3> QED BY <2>9, <3>1, <3>3 DEF Deliver, TypeOK
  <2>10. ASSUME NEW m \in Messages, PeerSends(m) PROVE TypeOK'
    BY <2>10, MessageFields DEF PeerSends, TypeOK
  <2>11. ASSUME NEW m \in net, Lose(m) PROVE TypeOK'
    BY <2>11 DEF Lose, TypeOK
  <2>12. ASSUME NEW p \in live, Disconnect(p) PROVE TypeOK'
    BY <2>12 DEF Disconnect, TypeOK
  <2>13. CASE UNCHANGED vars
    BY <2>13 DEF vars, TypeOK
  <2> QED
    BY <2>1, <2>2, <2>3, <2>4, <2>5, <2>6, <2>7, <2>8, <2>9, <2>10, <2>11, <2>12,
       <2>13 DEF Next, Caller, ReadLoop, Quiet
<1> QED BY <1>1, <1>2, PTL DEF Spec

--------------------------------------------------------------------------------
\* Before it registers, a request has left no trace, so its channel is empty
\* and no read loop can have taken it.
Untouched ==
    \A r \in Requests : pc[r] \in {"idle", "connect", "register"} =>
      /\ buf[r] = None
      /\ resp[r] = None
      /\ Holders(r) = {}

\* Where a message in a place of request r came from: it names r, and the
\* peer had been sent r.
Provenance ==
    /\ \A m \in net : m.replyTo \in asked \cup {None}
    /\ \A l \in Loops : holding[l] # None => holding[l].replyTo \in asked
    /\ \A r \in Requests :
         /\ buf[r] # None => buf[r].replyTo = r /\ r \in asked
         /\ resp[r] # None => resp[r].replyTo = r /\ r \in asked
         /\ result[r] = "ok" => pc[r] = "returned"

\* The inductive invariant.
IInv ==
    TypeOK /\ NoPendingLeak /\ SingleDelivery /\ Untouched /\ Provenance
    /\ OkMeansAnswered

\* Steps of a caller that move only its program counter, or that touch
\* variables the invariant does not read.
LEMMA CallerMoves ==
    ASSUME IInv, TypeOK', NEW r \in Requests,
           \/ Refuse(r) \/ ConnectFails(r) \/ Begin(r)
           \/ (\E q \in Peers : ConnectSucceeds(r, q))
           \/ SendSucceeds(r) \/ SendFails(r) \/ Timeout(r)
    PROVE  IInv'
<1>1. /\ UNCHANGED <<pending, buf, resp, net, holding>>
      /\ asked \subseteq asked'
      /\ \A s \in Requests : s # r => pc'[s] = pc[s] /\ result'[s] = result[s]
      /\ result'[r] # "ok"
      /\ \/ pc[r] \in {"idle", "connect"} /\ pc'[r] \in {"connect", "register", "returned"}
         \/ pc[r] \in {"send", "wait"} /\ pc'[r] \in {"wait", "unregister"}
  <2>1. result[r] = "ok" => pc[r] = "returned"
    BY DEF IInv, Provenance
  <2>2. pc \in [Requests -> Stages] /\ result \in [Requests -> {"none", "ok", "fail"}]
    BY DEF IInv, TypeOK
  <2>3. CASE Refuse(r) \/ ConnectFails(r)
    BY <2>2, <2>3 DEF Refuse, ConnectFails, ReturnEarly, At
  <2>4. CASE Begin(r)
    BY <2>1, <2>2, <2>4 DEF Begin, At
  <2>5. CASE \E q \in Peers : ConnectSucceeds(r, q)
    BY <2>1, <2>2, <2>5 DEF ConnectSucceeds, At
  <2>6. CASE SendSucceeds(r)
    BY <2>1, <2>2, <2>6, SMTT(30) DEF SendSucceeds, At
  <2>7. CASE SendFails(r) \/ Timeout(r)
    BY <2>1, <2>2, <2>7, SMTT(30) DEF SendFails, Timeout, At
  <2> QED BY <2>3, <2>4, <2>5, <2>6, <2>7, SMTT(30)
<1>2. \A s \in Requests : Holders(s)' = Holders(s)
  BY <1>1 DEF Holders
<1>3. NoPendingLeak'
  BY <1>1 DEF IInv, TypeOK, NoPendingLeak
<1>4. SingleDelivery'
  BY <1>1, <1>2, ZenonT(30) DEF IInv, SingleDelivery
<1>5. Untouched'
  BY <1>1, <1>2 DEF IInv, Untouched
<1>6. Provenance'
  BY <1>1, SMTT(30) DEF IInv, Provenance
<1>7. OkMeansAnswered'
  BY <1>1 DEF IInv, OkMeansAnswered
<1> QED BY <1>3, <1>4, <1>5, <1>6, <1>7, SMTT(30) DEF IInv

\* c.pending[msg.ID] = respCh: the request was untouched.
LEMMA RegisterStep ==
    ASSUME IInv, TypeOK', NEW r \in Requests, Register(r)
    PROVE  IInv'
<1>1. /\ UNCHANGED <<buf, resp, result, asked, net, holding>>
      /\ pending' = pending \cup {r}
      /\ pc[r] = "register" /\ pc'[r] = "send"
      /\ \A s \in Requests : s # r => pc'[s] = pc[s]
  BY DEF IInv, TypeOK, Register, At
<1>2. \A s \in Requests : Holders(s)' = Holders(s)
  BY <1>1 DEF Holders
<1>3. NoPendingLeak'
  BY <1>1 DEF IInv, TypeOK, NoPendingLeak
<1>4. SingleDelivery'
  BY <1>1, <1>2, SMTT(30) DEF IInv, SingleDelivery, Untouched
<1>5. Untouched'
  BY <1>1, <1>2, SMTT(30) DEF IInv, Untouched
<1>6. Provenance' /\ OkMeansAnswered'
  BY <1>1 DEF IInv, Provenance, OkMeansAnswered
<1> QED BY <1>3, <1>4, <1>5, <1>6, SMTT(30) DEF IInv

\* The caller takes the one message out of its channel.
LEMMA ReceiveStep ==
    ASSUME IInv, TypeOK', NEW r \in Requests, ReceiveResponse(r)
    PROVE  IInv'
<1>1. /\ UNCHANGED <<pending, result, asked, net, holding>>
      /\ buf[r] # None /\ buf'[r] = None /\ resp'[r] = buf[r]
      /\ pc[r] = "wait" /\ pc'[r] = "unregister"
      /\ \A s \in Requests : s # r =>
           pc'[s] = pc[s] /\ buf'[s] = buf[s] /\ resp'[s] = resp[s]
  BY SMTT(30) DEF IInv, TypeOK, ReceiveResponse, At
<1>2. \A s \in Requests : Holders(s)' = Holders(s)
  BY <1>1 DEF Holders
<1>3. NoPendingLeak'
  BY <1>1, SMTT(30) DEF IInv, TypeOK, NoPendingLeak
<1>4. SingleDelivery'
  BY <1>1, <1>2, SMTT(30) DEF IInv, SingleDelivery
<1>5. Untouched'
  BY <1>1, <1>2, SMTT(30) DEF IInv, Untouched
<1>6. Provenance'
  BY <1>1, SMTT(30) DEF IInv, Provenance
<1>7. OkMeansAnswered'
  BY <1>1, SMTT(30) DEF IInv, Provenance, OkMeansAnswered
<1> QED BY <1>3, <1>4, <1>5, <1>6, <1>7, SMTT(30) DEF IInv

\* The deferred delete.
LEMMA UnregisterStep ==
    ASSUME IInv, TypeOK', NEW r \in Requests, Unregister(r)
    PROVE  IInv'
<1>1. /\ UNCHANGED <<buf, resp, result, asked, net, holding>>
      /\ pending' = pending \ {r}
      /\ pc[r] = "unregister" /\ pc'[r] = "close"
      /\ \A s \in Requests : s # r => pc'[s] = pc[s]
  BY DEF IInv, TypeOK, Unregister, At
<1>2. \A s \in Requests : Holders(s)' = Holders(s)
  BY <1>1, SMTT(30) DEF Holders
<1>3. NoPendingLeak'
  BY <1>1, SMTT(30) DEF IInv, TypeOK, NoPendingLeak
<1>4. SingleDelivery'
  BY <1>1, <1>2 DEF IInv, SingleDelivery
<1>5. Untouched'
  BY <1>1, <1>2, SMTT(30) DEF IInv, Untouched
<1>6. Provenance' /\ OkMeansAnswered'
  BY <1>1, SMTT(30) DEF IInv, Provenance, OkMeansAnswered
<1> QED BY <1>3, <1>4, <1>5, <1>6 DEF IInv

\* The public method judges the response it received.
LEMMA ReturnStep ==
    ASSUME IInv, TypeOK', NEW r \in Requests, CloseAndReturn(r)
    PROVE  IInv'
<1>1. /\ UNCHANGED <<pending, buf, resp, asked, net, holding>>
      /\ pc[r] = "close" /\ pc'[r] = "returned"
      /\ result'[r] = "ok" => Accepts(Op[r], resp[r])
      /\ \A s \in Requests : s # r => pc'[s] = pc[s] /\ result'[s] = result[s]
  BY DEF IInv, TypeOK, CloseAndReturn, At
<1>2. \A s \in Requests : Holders(s)' = Holders(s)
  BY <1>1, SMTT(30) DEF Holders
<1>3. NoPendingLeak'
  BY <1>1, SMTT(30) DEF IInv, TypeOK, NoPendingLeak
<1>4. SingleDelivery'
  BY <1>1, <1>2 DEF IInv, SingleDelivery
<1>5. Untouched'
  BY <1>1, <1>2, SMTT(30) DEF IInv, Untouched
<1>6. Provenance'
  BY <1>1, SMTT(30) DEF IInv, Provenance
<1>7. OkMeansAnswered'
  BY <1>1 DEF IInv, Provenance, OkMeansAnswered, Accepts, ParseResponse, ValidateResponse
<1> QED BY <1>3, <1>4, <1>5, <1>6, <1>7 DEF IInv

\* A read loop takes a channel out of the map, or drops the message.
LEMMA TakeStep ==
    ASSUME IInv, TypeOK', NEW l \in Loops, NEW m \in net, TakePending(l, m)
    PROVE  IInv'
<1>1. /\ UNCHANGED <<pc, buf, resp, result, asked>>
      /\ net' \subseteq net
      /\ pending' = pending \ {m.replyTo}
      /\ holding[l] = None
      /\ holding'[l] = IF m.replyTo \in pending THEN m ELSE None
      /\ \A k \in Loops : k # l => holding'[k] = holding[k]
  BY DEF IInv, TypeOK, TakePending
<1>2. m \in Messages /\ m # None
  BY MessageFields, SMTT(30) DEF IInv, TypeOK
<1>3. \A s \in Requests :
        Holders(s)' = IF m.replyTo \in pending /\ s = m.replyTo
                        THEN Holders(s) \cup {l} ELSE Holders(s)
  BY <1>1, <1>2 DEF Holders
<1>4. NoPendingLeak'
  BY <1>1, SMTT(30) DEF IInv, NoPendingLeak
<1>5. SingleDelivery'
  BY <1>1, <1>3, SMTT(30) DEF IInv, SingleDelivery
<1>6. Untouched'
  BY <1>1, <1>3, SMTT(30) DEF IInv, Untouched, NoPendingLeak
<1>7. Provenance'
  <2>1. None \notin pending
    BY ControllerAssumption, SMTT(30) DEF IInv, TypeOK
  <2>2. holding'[l] # None => holding'[l].replyTo \in asked
    BY <1>1, <2>1, SMTT(30) DEF IInv, Provenance
  <2> QED BY <1>1, <2>2, SMTT(30) DEF IInv, Provenance
<1>8. OkMeansAnswered'
  BY <1>1 DEF IInv, OkMeansAnswered
<1> QED BY <1>4, <1>5, <1>6, <1>7, <1>8, SMTT(30) DEF IInv

\* A read loop sends into the channel it holds: it is the only holder, and
\* neither the buffer nor the caller has a message yet.
LEMMA DeliverStep ==
    ASSUME IInv, TypeOK', NEW l \in Loops, Deliver(l)
    PROVE  IInv'
<1>1. PICK r \in Requests : holding[l] # None /\ r = holding[l].replyTo /\ r \in asked
  BY DEF IInv, TypeOK, Provenance, Deliver
<1>2. l \in Holders(r)
  BY <1>1, SMTT(30) DEF Holders
<1>3. /\ UNCHANGED <<pc, pending, resp, result, asked, net>>
      /\ buf'[r] = buf[r] \/ buf'[r] = holding[l]
      /\ \A s \in Requests : s # r => buf'[s] = buf[s]
      /\ holding'[l] = None
      /\ \A k \in Loops : k # l => holding'[k] = holding[k]
  BY <1>1 DEF IInv, TypeOK, Deliver
<1>4. /\ Holders(r) = {l}
      /\ r \notin pending /\ buf[r] = None /\ resp[r] = None
      /\ pc[r] \notin {"idle", "connect", "register"}
  <2>1. /\ \A k, n \in Holders(r) : k = n
        /\ Holders(r) # {} => r \notin pending /\ buf[r] = None /\ resp[r] = None
    BY <1>1, Zenon DEF IInv, SingleDelivery
  <2>2. pc[r] \in {"idle", "connect", "register"} => Holders(r) = {}
    BY <1>1, Zenon DEF IInv, Untouched
  <2>3. Holders(r) # {}
    BY <1>2, ZenonT(30)
  <2>4. Holders(r) = {l}
    BY <1>2, <2>1, SMTT(30)
  <2> QED BY <2>1, <2>2, <2>3, <2>4, Zenon
<1>5. /\ Holders(r)' = {}
      /\ \A s \in Requests : s # r => Holders(s)' = Holders(s)
  BY <1>1, <1>3, <1>4, SMTT(30) DEF Holders
<1>6. NoPendingLeak'
  BY <1>3, SMTT(30) DEF IInv, NoPendingLeak
<1>7. SingleDelivery'
  <2> SUFFICES ASSUME NEW s \in Requests
               PROVE  /\ \A j, k \in Holders(s)' : j = k
                      /\ Holders(s)' # {} => s \notin pending' /\ buf'[s] = None /\ resp'[s] = None
                      /\ s \in pending' => buf'[s] = None /\ resp'[s] = None
                      /\ buf'[s] # None => resp'[s] = None
    BY SMTT(30) DEF SingleDelivery
  <2>1. CASE s = r
    BY <1>3, <1>4, <1>5, <2>1, SMTT(30)
  <2>2. CASE s # r
    <3>1. Holders(s)' = Holders(s) /\ buf'[s] = buf[s] /\ UNCHANGED <<pending, resp>>
      BY <1>3, <1>5, <2>2, SMTT(30)
    <3> QED BY <3>1, SMTT(30) DEF IInv, SingleDelivery
  <2> QED BY <2>1, <2>2, SMTT(30)
<1>8. Untouched'
  BY <1>3, <1>4, <1>5, SMTT(30) DEF IInv, Untouched
<1>9. Provenance'
  BY <1>1, <1>3, <1>4, SMTT(20) DEF IInv, Provenance
<1>10. OkMeansAnswered'
  BY <1>3, Zenon DEF IInv, OkMeansAnswered
<1> QED BY <1>6, <1>7, <1>8, <1>9, <1>10, SMTT(30) DEF IInv

\* Peers and the network touch only messages under way and connections.
LEMMA EnvironmentStep ==
    ASSUME IInv, TypeOK',
           \/ \E m \in Messages : PeerSends(m)
           \/ \E m \in net : Lose(m)
           \/ \E p \in live : Disconnect(p)
           \/ UNCHANGED vars
    PROVE  IInv'
<1>1. /\ UNCHANGED <<pc, pending, buf, resp, result, asked, holding>>
      /\ \A m \in net' : m \in net \/ m.replyTo \in asked \cup {None}
  BY SMTT(30) DEF PeerSends, Lose, Disconnect, vars
<1>2. \A s \in Requests : Holders(s)' = Holders(s)
  BY <1>1, SMTT(30) DEF Holders
<1>3. NoPendingLeak' /\ OkMeansAnswered'
  BY <1>1, SMTT(30) DEF IInv, NoPendingLeak, OkMeansAnswered
<1>4. SingleDelivery' /\ Untouched'
  BY <1>1, <1>2, SMTT(30) DEF IInv, SingleDelivery, Untouched
<1>5. Provenance'
  BY <1>1 DEF IInv, Provenance
<1> QED BY <1>3, <1>4, <1>5, SMTT(30) DEF IInv

\* The bookkeeping of sendRequest and handleResponse holds in every reachable
\* state: who holds a channel, where a message came from, what was judged.
LEMMA Correlation == Spec => []IInv
<1>1. Init => IInv
  <2> SUFFICES ASSUME Init PROVE IInv
    OBVIOUS
  <2>1. TypeOK
    BY Zenon DEF Init, TypeOK, Stages
  <2>2. \A r \in Requests : Holders(r) = {}
    BY DEF Init, Holders
  <2> QED
    BY <2>1, <2>2 DEF Init, IInv, NoPendingLeak, SingleDelivery, Untouched, Provenance,
       OkMeansAnswered
<1>2. IInv /\ TypeOK' /\ [Next]_vars => IInv'
  <2> SUFFICES ASSUME IInv, TypeOK', [Next]_vars PROVE IInv'
    BY SMTT(30)
  <2>1. ASSUME NEW r \in Requests, Caller(r) PROVE IInv'
    BY <2>1, CallerMoves, RegisterStep, ReceiveStep, UnregisterStep, ReturnStep, SMTT(30) DEF Caller
  <2>2. ASSUME NEW l \in Loops, ReadLoop(l) PROVE IInv'
    BY <2>2, TakeStep, DeliverStep DEF ReadLoop
  <2> QED BY <2>1, <2>2, EnvironmentStep DEF Next, Quiet
<1> QED BY <1>1, <1>2, ControllerTypeOK, PTL DEF Spec

\* For any number of calls, loops and messages: at most one reply ever gets
\* hold of a request's response channel.
THEOREM ControllerSingleDelivery == Spec => []SingleDelivery
<1>1. IInv => SingleDelivery
  BY DEF IInv
<1> QED BY <1>1, Correlation, PTL

\* A method reports success only for an answer to its own request, of the
\* right type, from a peer that was asked.
THEOREM ControllerOkMeansAnswered == Spec => []OkMeansAnswered
<1>1. IInv => OkMeansAnswered
  BY DEF IInv
<1> QED BY <1>1, Correlation, PTL

\* Timeouts and failures leave no entry in the pending map.
THEOREM ControllerNoPendingLeak == Spec => []NoPendingLeak
<1>1. IInv => NoPendingLeak
  BY DEF IInv
<1> QED BY <1>1, Correlation, PTL

--------------------------------------------------------------------------------
\* One manager uses the files.
Single == \A m, n \in Managers : m = n

Saving == {"saveKey", "writeKey", "saveConfig", "writeConfig"}
Deleting == {"deleteKey", "deleteConfig"}

IdentityTypes ==
    /\ keyFile \in Keys \cup {Absent, Torn} /\ configFile \in Keys \cup {Absent, Torn}
    /\ step \in [Managers -> {"down", "loadKey", "loaded", "up"} \cup Saving \cup Deleting]
    /\ identity \in [Managers -> Keys \cup {Absent}]
    /\ privateKey \in [Managers -> Keys \cup {Absent}]
    /\ generated \in 0..MaxKeys

\* Everything in memory and in the config is younger than the last Delete.
AgeInv ==
    /\ deleted \in 0..generated
    /\ configFile \in Keys => configFile > deleted
    /\ \A m \in Managers : identity[m] # Absent => identity[m] > deleted

\* Where a call of the manager is, and what it has in hand there.
CallInv ==
    \A m \in Managers :
      /\ step[m] \in {"down", "loadKey"} => privateKey[m] = Absent
      /\ step[m] = "down" => identity[m] = Absent
      /\ step[m] = "loadKey" => configFile \in Keys /\ identity[m] = configFile
      /\ step[m] = "loaded" =>
           \/ /\ identity[m] = Absent /\ privateKey[m] = Absent
              /\ granted = {} \/ broken \/ m \in misread
           \/ /\ configFile \in Keys /\ identity[m] = configFile
              /\ keyFile \in Keys /\ privateKey[m] = keyFile
      /\ step[m] \in Saving =>
           /\ identity[m] = privateKey[m] /\ identity[m] # Absent
           /\ granted # {} => broken
      /\ step[m] \in {"saveConfig", "writeConfig"} => keyFile = privateKey[m]
      /\ step[m] \in Deleting => broken
      /\ step[m] = "up" /\ ~broken => identity[m] = privateKey[m]

\* Unless a Delete or a replacement was cut short, the files hold the identity
\* that was granted, or there is no config to come up with.
FileInv ==
    ~broken => \/ granted = {} /\ configFile \notin Keys
               \/ granted = {configFile} /\ configFile \in Keys /\ keyFile = configFile

IdentityInv == IdentityTypes /\ AgeInv /\ CallInv /\ FileInv

--------------------------------------------------------------------------------
\* A start of the node finds the identity of the files or none, because a file is
\* not there or cannot be read, and may generate one (identity.go:95-152, 289-320); the process may end at any point.
LEMMA LoadStep ==
  ASSUME Single, IdentityInv, NEW m \in Managers,
         StartLoad(m) \/ LoadKey(m) \/ Create(m) \/ EndLoad(m) \/ Exit(m)
  PROVE  IdentityInv'
  <1> USE IdentityAssumption DEF Single, IdentityInv, Keys, Saving, Deleting, Goto, hist
  <1>1. CASE StartLoad(m)
    <2> USE <1>1 DEF StartLoad, ReadFails
    <2>1. IdentityTypes'
      BY SMTT(20), ZenonT(20) DEF IdentityTypes
    <2>2. AgeInv'
      BY SMTT(20), ZenonT(20) DEF IdentityTypes, AgeInv
    <2>3. CallInv'
      BY SMTT(20), ZenonT(20) DEF IdentityTypes, CallInv, FileInv
    <2>4. FileInv'
      BY SMTT(20), ZenonT(20) DEF IdentityTypes, CallInv, FileInv
    <2> QED BY <2>1, <2>2, <2>3, <2>4, SMTT(20), ZenonT(20)
  <1>2. CASE LoadKey(m)
    <2> USE <1>2 DEF LoadKey, ReadFails
    <2>1. IdentityTypes'
      BY SMTT(20), ZenonT(20) DEF IdentityTypes
    <2>2. AgeInv'
      BY SMTT(20), ZenonT(20) DEF IdentityTypes, AgeInv
    <2>3. CallInv'
      BY SMTT(20), ZenonT(20) DEF IdentityTypes, CallInv, FileInv
    <2>4. FileInv'
      BY SMTT(20), ZenonT(20) DEF IdentityTypes, CallInv, FileInv
    <2> QED BY <2>1, <2>2, <2>3, <2>4, SMTT(20), ZenonT(20)
  <1>3. CASE Create(m)
    <2> USE <1>3 DEF Create, NewKeyPair, HasIdentity
    <2>1. IdentityTypes'
      BY SMTT(20), ZenonT(20) DEF IdentityTypes
    <2>2. AgeInv'
      BY SMTT(20), ZenonT(20) DEF IdentityTypes, AgeInv
    <2>3. CallInv'
      <3>1. granted' # {} => broken'
        BY ZenonT(20) DEF CallInv
      <3>2. /\ step' = [step EXCEPT ![m] = "saveKey"]
            /\ identity'[m] = generated + 1 /\ privateKey'[m] = generated + 1
            /\ generated + 1 # Absent
        BY DEF IdentityTypes
      <3> QED BY <3>1, <3>2 DEF IdentityTypes, CallInv
    <2>4. FileInv'
      BY SMTT(20), ZenonT(20) DEF IdentityTypes, CallInv, FileInv
    <2> QED BY <2>1, <2>2, <2>3, <2>4, SMTT(20), ZenonT(20)
  <1>4. CASE EndLoad(m)
    <2> USE <1>4 DEF EndLoad, HasIdentity
    <2>1. IdentityTypes'
      BY SMTT(20), ZenonT(20) DEF IdentityTypes
    <2>2. AgeInv'
      BY SMTT(20), ZenonT(20) DEF IdentityTypes, AgeInv
    <2>3. CallInv'
      BY SMTT(20), ZenonT(20) DEF IdentityTypes, CallInv, FileInv
    <2>4. FileInv'
      BY SMTT(20), ZenonT(20) DEF IdentityTypes, CallInv, FileInv
    <2> QED BY <2>1, <2>2, <2>3, <2>4, SMTT(20), ZenonT(20)
  <1>5. CASE Exit(m)
    <2> USE <1>5 DEF Exit
    <2>1. IdentityTypes'
      BY SMTT(20), ZenonT(20) DEF IdentityTypes
    <2>2. AgeInv'
      BY SMTT(20), ZenonT(20) DEF IdentityTypes, AgeInv
    <2>3. CallInv'
      BY SMTT(20), ZenonT(20) DEF IdentityTypes, CallInv, FileInv
    <2>4. FileInv'
      BY SMTT(20), ZenonT(20) DEF IdentityTypes, CallInv, FileInv
    <2> QED BY <2>1, <2>2, <2>3, <2>4, SMTT(20), ZenonT(20)
  <1> QED BY <1>1, <1>2, <1>3, <1>4, <1>5

\* GenerateIdentity saves the key before the config (identity.go:174-205).
LEMMA GenerateStep ==
  ASSUME Single, IdentityInv, NEW m \in Managers,
         Generate(m) \/ OpenFile(m) \/ WriteKey(m)
  PROVE  IdentityInv'
  <1> USE IdentityAssumption DEF Single, IdentityInv, Keys, Saving, Deleting, Goto, hist
  <1>1. CASE Generate(m)
    <2> USE <1>1 DEF Generate, NewKeyPair
    <2>1. IdentityTypes'
      BY SMTT(30) DEF IdentityTypes
    <2>2. AgeInv'
      BY SMTT(30) DEF IdentityTypes, AgeInv
    <2>3. CallInv'
      <3>1. granted' # {} => broken'
        BY ZenonT(30)
      <3>2. /\ step' = [step EXCEPT ![m] = "saveKey"]
            /\ identity'[m] = generated + 1 /\ privateKey'[m] = generated + 1
            /\ generated + 1 # Absent
        BY DEF IdentityTypes
      <3> QED BY <3>1, <3>2 DEF IdentityTypes, CallInv
    <2>4. FileInv'
      BY ZenonT(30) DEF IdentityTypes, CallInv, FileInv
    <2> QED BY <2>1, <2>2, <2>3, <2>4, SMTT(30)
  <1>2. CASE OpenFile(m)
    <2> USE <1>2 DEF OpenFile
    <2>1. IdentityTypes'
      BY SMTT(30) DEF IdentityTypes
    <2>2. AgeInv'
      BY SMTT(30) DEF IdentityTypes, AgeInv
    <2>3. CallInv'
      BY SMTT(30) DEF IdentityTypes, CallInv, FileInv
    <2>4. FileInv'
      BY SMTT(30) DEF IdentityTypes, CallInv, FileInv
    <2> QED BY <2>1, <2>2, <2>3, <2>4, SMTT(30)
  <1>3. CASE WriteKey(m)
    <2> USE <1>3 DEF WriteKey
    <2>1. IdentityTypes'
      BY SMTT(30) DEF IdentityTypes
    <2>2. AgeInv'
      BY SMTT(30) DEF IdentityTypes, AgeInv
    <2>3. CallInv'
      BY SMTT(30) DEF IdentityTypes, CallInv, FileInv
    <2>4. FileInv'
      BY DEF IdentityTypes, CallInv, FileInv
    <2> QED BY <2>1, <2>2, <2>3, <2>4, SMTT(30)
  <1> QED BY <1>1, <1>2, <1>3

\* GenerateIdentity returns, with the config written or with an error
\* (identity.go:201-214, 249-286).
LEMMA SavedStep ==
  ASSUME Single, IdentityInv, NEW m \in Managers,
         WriteConfig(m) \/ SaveFails(m)
  PROVE  IdentityInv'
  <1> USE IdentityAssumption DEF Single, IdentityInv, Keys, Saving, Deleting, Goto, hist
  <1>1. CASE WriteConfig(m)
    <2> USE <1>1 DEF WriteConfig
    <2>1. IdentityTypes'
      BY SMTT(30) DEF IdentityTypes
    <2>2. AgeInv'
      BY SMTT(30) DEF IdentityTypes, AgeInv
    <2>3. CallInv'
      BY SMTT(30) DEF IdentityTypes, CallInv, FileInv
    <2>4. FileInv'
      BY SMTT(30) DEF IdentityTypes, CallInv, FileInv
    <2> QED BY <2>1, <2>2, <2>3, <2>4, SMTT(30)
  <1>2. CASE SaveFails(m)
    <2> USE <1>2 DEF SaveFails
    <2>1. IdentityTypes'
      BY SMTT(30) DEF IdentityTypes
    <2>2. AgeInv'
      BY SMTT(30) DEF IdentityTypes, AgeInv
    <2>3. CallInv'
      BY SMTT(30) DEF IdentityTypes, CallInv, FileInv
    <2>4. FileInv'
      BY SMTT(30) DEF IdentityTypes, CallInv, FileInv
    <2> QED BY <2>1, <2>2, <2>3, <2>4, SMTT(30)
  <1> QED BY <1>1, <1>2, SMTT(30)

\* Delete removes the key before the config, and either may fail
\* (identity.go:323-346).
LEMMA DeleteStep ==
  ASSUME Single, IdentityInv, NEW m \in Managers,
         StartDelete(m) \/ DeleteKey(m) \/ DeleteConfig(m) \/ DeleteFails(m)
  PROVE  IdentityInv'
  <1> USE IdentityAssumption DEF Single, IdentityInv, Keys, Saving, Deleting, Goto, hist
  <1>1. CASE StartDelete(m)
    <2> USE <1>1 DEF StartDelete
    <2>1. IdentityTypes'
      BY SMTT(30) DEF IdentityTypes
    <2>2. AgeInv'
      BY SMTT(30) DEF IdentityTypes, AgeInv
    <2>3. CallInv'
      BY SMTT(30) DEF IdentityTypes, CallInv, FileInv
    <2>4. FileInv'
      BY SMTT(30) DEF IdentityTypes, CallInv, FileInv
    <2> QED BY <2>1, <2>2, <2>3, <2>4, SMTT(30)
  <1>2. CASE DeleteKey(m)
    <2> USE <1>2 DEF DeleteKey
    <2>1. IdentityTypes'
      BY SMTT(30) DEF IdentityTypes
    <2>2. AgeInv'
      BY SMTT(30) DEF IdentityTypes, AgeInv
    <2>3. CallInv'
      BY SMTT(30) DEF IdentityTypes, CallInv, FileInv
    <2>4. FileInv'
      BY SMTT(30) DEF IdentityTypes, CallInv, FileInv
    <2> QED BY <2>1, <2>2, <2>3, <2>4, SMTT(30)
  <1>3. CASE DeleteConfig(m)
    <2> USE <1>3 DEF DeleteConfig
    <2>1. IdentityTypes'
      BY SMTT(30) DEF IdentityTypes
    <2>2. AgeInv'
      BY SMTT(30) DEF IdentityTypes, AgeInv
    <2>3. CallInv'
      BY SMTT(30) DEF IdentityTypes, CallInv, FileInv
    <2>4. FileInv'
      BY SMTT(30) DEF IdentityTypes, CallInv, FileInv
    <2> QED BY <2>1, <2>2, <2>3, <2>4, SMTT(30)
  <1>4. CASE DeleteFails(m)
    <2> USE <1>4 DEF DeleteFails
    <2>1. IdentityTypes'
      BY SMTT(30) DEF IdentityTypes
    <2>2. AgeInv'
      BY SMTT(30) DEF IdentityTypes, AgeInv
    <2>3. CallInv'
      BY SMTT(30) DEF IdentityTypes, CallInv, FileInv
    <2>4. FileInv'
      BY DEF IdentityTypes, CallInv, FileInv
    <2> QED BY <2>1, <2>2, <2>3, <2>4, SMTT(30)
  <1> QED BY <1>1, <1>2, <1>3, <1>4, SMTT(30)

\* The invariant holds throughout.
LEMMA IdentityStep ==
  ASSUME Single
  PROVE  IdentitySpec => []IdentityInv
  <1>1. IdentityInit => IdentityInv
    BY IdentityAssumption DEF IdentityInit, IdentityInv, IdentityTypes, AgeInv, CallInv, FileInv,
                              Keys, Saving, Deleting
  <1>2. IdentityInv /\ [IdentityNext]_identityVars => IdentityInv'
    <2> SUFFICES ASSUME IdentityInv, [IdentityNext]_identityVars
                 PROVE  IdentityInv'
      BY SMTT(30)
    <2>1. CASE IdentityNext
      BY <2>1, LoadStep, GenerateStep, SavedStep, DeleteStep, SMTT(30) DEF IdentityNext
    <2>2. CASE UNCHANGED identityVars
      BY <2>2 DEF identityVars, hist, IdentityInv, IdentityTypes, AgeInv, CallInv, FileInv
    <2> QED BY <2>1, <2>2
  <1> QED BY <1>1, <1>2, PTL DEF IdentitySpec

--------------------------------------------------------------------------------
\* Once Delete has succeeded, no start of the node comes up as an identity from
\* before, whatever crashes or fails later on (identity.go:323).
THEOREM DeletedStaysDeleted ==
  ASSUME Single
  PROVE  IdentitySpec => []NoResurrection
  <1>1. IdentityInv => NoResurrection
    BY SMTT(30) DEF IdentityInv, AgeInv, NoResurrection
  <1> QED BY <1>1, IdentityStep, PTL

\* Once a call has succeeded, every later start of the node finds that identity
\* with the private key it is bound to, or none, until it is deleted or replaced
\* (identity.go:201, 207, 289); LoadOrCreateIdentity replaces it only when it
\* fails to read its files.
THEOREM NodeKeepsIdentity ==
  ASSUME Single
  PROVE  IdentitySpec => []IdentityKept
  <1>1. IdentityInv => IdentityKept
    <2> SUFFICES ASSUME IdentityInv, ~broken
                 PROVE  /\ \A m \in Managers : step[m] = "up" => identity[m] = privateKey[m]
                        /\ Cardinality(granted) <= 1
      BY SMTT(30) DEF IdentityKept
    <2>1. \A m \in Managers : step[m] = "up" => identity[m] = privateKey[m]
      BY DEF IdentityInv, CallInv
    <2>2. granted = {} \/ \E k : granted = {k}
      BY DEF IdentityInv, FileInv
    <2>3. Cardinality(granted) = 0 \/ Cardinality(granted) = 1
      BY <2>2, FS_EmptySet, FS_Singleton, ZenonT(30)
    <2>4. Cardinality(granted) <= 1
      BY <2>3
    <2> QED BY <2>1, <2>4, SMTT(30)
  <1> QED BY <1>1, IdentityStep, PTL

================================================================================
