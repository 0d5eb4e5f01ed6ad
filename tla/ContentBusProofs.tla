---------------------------- MODULE ContentBusProofs ---------------------------
(***************************************************************************)
(* The safety of the content bus for every number of subscribers, events   *)
(* and callers of Close, and every size of the buffers.                    *)
(***************************************************************************)
EXTENDS ContentBus, TLAPS

Running == {"waiting", "stopping", "releasing"}
Returned == \E k \in Closers : closer[k] = "returned"

\* closeOnce: one call of Close runs, before any returns; and from the moment it
\* has set c.closed nobody holds c.mu for reading any more.
LockInv ==
    /\ \A j, k \in Closers : closer[j] \in Running /\ closer[k] \in Running => j = k
    /\ Returned => \A k \in Closers : closer[k] \notin Running
    /\ closed <=> \E k \in Closers : closer[k] \in {"stopping", "releasing", "returned"}
    /\ closed => Readers = {}

\* The channels in the map are those that Subscribe has returned, until all of
\* them are closed at once.
SubInv ==
    /\ closed => subscribers = {} /\ \A s \in Subs : sub[s] = "returned" => s \in shut
    /\ ~closed => shut = {} /\ subscribers = {s \in Subs : sub[s] = "returned"}
    /\ ~panicked

\* What Close has released.
ReleaseInv ==
    /\ \A k \in Closers : closer[k] = "releasing" => stopped = stops
    /\ Returned /\ ~closeErr => (stops => stopped) /\ (ownsRegistry => released)
    /\ stopped => \A e \in Remote : event[e] \in {"idle", "done", "refused"}

\* Where the events are: what an event has seen when it came, whom it has still
\* to visit, and in whose history it is.
KnownInv == \A e \in Events : known[e] \subseteq {s \in Subs : sub[s] = "returned"}

PastInv == \A e \in Events : \A d \in past[e] : event[d] = "done"

RoundInv ==
    \A e \in Events : event[e] = "delivering" =>
      /\ \A s \in todo[e] : topic[s] = topic[e] /\ sub[s] = "returned"
      /\ \A s \in known[e] : topic[s] = topic[e]
           => s \in todo[e] \/ e \in Sent(s) \cup dropped[s]

HistInv ==
    \A s \in Subs : \A i \in DOMAIN History(s) :
      /\ sub[s] = "returned"
      /\ event[History(s)[i]] \in {"delivering", "sending", "done"}
      /\ event[History(s)[i]] = "delivering" => s \notin todo[History(s)[i]]

EventInv == KnownInv /\ PastInv /\ RoundInv /\ HistInv

Inv == /\ TypeOK /\ LockInv /\ SubInv /\ ReleaseInv
       /\ EventInv /\ InOrder /\ NoSilentLoss

--------------------------------------------------------------------------------
\* Every step keeps the state well-typed; a buffer never holds more than its
\* capacity (controller.go:255, 390).
LEMMA TypeStep ==
  ASSUME TypeOK, [Next]_vars
  PROVE  TypeOK'
  <1> USE ContentBusAssumption
  <1>1. ASSUME NEW s \in Subs, NEW t \in Topics, StartSubscribe(s, t)
        PROVE  TypeOK'
    BY <1>1 DEF StartSubscribe, TypeOK, histVars
  <1>2. ASSUME NEW s \in Subs, EndSubscribe(s)
        PROVE  TypeOK'
    BY <1>2 DEF EndSubscribe, TypeOK, histVars
  <1>3. ASSUME NEW s \in Subs, Receive(s)
        PROVE  TypeOK'
    <2>1. /\ chan[s] \in Seq(Events) /\ chan[s] # <<>> /\ Len(chan[s]) <= channelBuffer
          /\ got[s] \in Seq(Events) /\ channelBuffer \in Nat
      BY <1>3 DEF Receive, TypeOK
    <2>2. /\ Append(got[s], Head(chan[s])) \in Seq(Events)
          /\ Tail(chan[s]) \in Seq(Events) /\ Len(Tail(chan[s])) <= channelBuffer
      BY <2>1
    <2>3. /\ got' \in [Subs -> Seq(Events)] /\ chan' \in [Subs -> Seq(Events)]
          /\ \A x \in Subs : Len(chan'[x]) <= channelBuffer
      BY <1>3, <2>2 DEF Receive, TypeOK
    <2> QED BY <1>3, <2>3 DEF Receive, TypeOK
  <1>4. ASSUME NEW e \in Events, NEW t \in Topics, Arrive(e, t)
        PROVE  TypeOK'
    BY <1>4 DEF Arrive, TypeOK
  <1>5. ASSUME NEW e \in Events, Enter(e) \/ EndDeliver(e) \/ EndPublish(e)
        PROVE  TypeOK'
    <2>1. \E x \in {"locked", "refused", "sending", "done"} : event' = [event EXCEPT ![e] = x]
      BY <1>5 DEF Enter, EndDeliver, EndPublish
    <2>2. event' \in [Events -> {"idle", "arrived", "locked", "delivering", "sending",
                                 "done", "refused"}]
      BY <2>1 DEF TypeOK
    <2>3. UNCHANGED <<stops, ownsRegistry, channelBuffer, sub, topic, subscribers, chan, shut, todo,
                      closed, closer, closeErr, stopped, released, panicked, histVars>>
      BY <1>5 DEF Enter, EndDeliver, EndPublish
    <2> QED BY <2>2, <2>3 DEF TypeOK, histVars
  <1>6. ASSUME NEW e \in Events, BeginDeliver(e)
        PROVE  TypeOK'
    BY <1>6 DEF BeginDeliver, Addressees, TypeOK, histVars
  <1>7. ASSUME NEW e \in Events, NEW s \in Subs, DeliverTo(e, s)
        PROVE  TypeOK'
    <2>1. /\ chan' \in [Subs -> Seq(Events)] /\ dropped' \in [Subs -> SUBSET Events]
          /\ \A x \in Subs : Len(chan'[x]) <= channelBuffer
      <3>1. CASE HasRoom(s)
        <4>1. chan' = [chan EXCEPT ![s] = Append(@, e)] /\ dropped' = dropped
          BY <1>7, <3>1, Zenon DEF DeliverTo
        <4>2. /\ chan[s] \in Seq(Events) /\ Len(chan[s]) < channelBuffer
              /\ channelBuffer \in Nat
          BY <3>1 DEF HasRoom, TypeOK
        <4>3. /\ Append(chan[s], e) \in Seq(Events)
              /\ Len(Append(chan[s], e)) <= channelBuffer
          BY <4>2
        <4> QED BY <4>1, <4>3 DEF TypeOK
      <3>2. CASE ~HasRoom(s)
        <4>1. chan' = chan /\ dropped' = [dropped EXCEPT ![s] = @ \cup {e}]
          BY <1>7, <3>2, Zenon DEF DeliverTo
        <4> QED BY <4>1 DEF TypeOK
      <3> QED BY <3>1, <3>2
    <2>2. todo' \in [Events -> SUBSET Subs] /\ panicked' \in BOOLEAN
      <3>1. todo' = [todo EXCEPT ![e] = @ \ {s}] /\ panicked' = (panicked \/ s \in shut)
        BY <1>7, Zenon DEF DeliverTo
      <3> QED BY <3>1 DEF TypeOK
    <2>3. UNCHANGED <<stops, ownsRegistry, channelBuffer, sub, topic, subscribers, shut, event, closed,
                      closer, closeErr, stopped, released, got, known, past>>
      BY <1>7, Zenon DEF DeliverTo
    <2> QED BY <2>1, <2>2, <2>3 DEF TypeOK
  <1>8. ASSUME NEW k \in Closers, StartClose(k) \/ RunClose(k) \/ StopFails(k)
        PROVE  TypeOK'
    <2>1. CASE StartClose(k) \/ OnceDone(k)
      <3>1. \E x \in {"waiting", "once", "returned"} : closer' = [closer EXCEPT ![k] = x]
        <4>1. CASE StartClose(k)
          BY <4>1 DEF StartClose
        <4>2. CASE OnceDone(k)
          BY <4>2 DEF OnceDone
        <4> QED BY <2>1, <4>1, <4>2
      <3>2. closer' \in [Closers -> {"idle", "waiting", "once", "stopping", "releasing",
                                    "returned"}]
        BY <3>1 DEF TypeOK
      <3>3. UNCHANGED <<stops, ownsRegistry, channelBuffer, sub, topic, subscribers, chan,
                        shut, event, todo, closed, closeErr, stopped, released, panicked,
                        histVars>>
        BY <2>1, Zenon DEF StartClose, OnceDone
      <3> QED BY <3>2, <3>3 DEF TypeOK, histVars
    <2>2. CASE CloseChannels(k)
      BY <2>2 DEF CloseChannels, TypeOK, histVars
    <2>3. CASE StopTransport(k)
      BY <2>3 DEF StopTransport, TypeOK, histVars
    <2>4. CASE StopFails(k)
      BY <2>4 DEF StopFails, TypeOK, histVars
    <2>5. CASE ReleaseRegistry(k)
      <3>1. closeErr' \in BOOLEAN
        BY <2>5, Zenon DEF ReleaseRegistry, TypeOK
      <3> QED BY <2>5, <3>1 DEF ReleaseRegistry, TypeOK, histVars
    <2> QED BY <1>8, <2>1, <2>2, <2>3, <2>4, <2>5 DEF RunClose
  <1>9. CASE UNCHANGED vars
    BY <1>9 DEF vars, histVars, TypeOK
  <1> QED
    BY <1>1, <1>2, <1>3, <1>4, <1>5, <1>6, <1>7, <1>8, <1>9 DEF Next, RunEvent, Quiet

--------------------------------------------------------------------------------
\* The steps of everyone but the callers of Close.
OtherStep ==
    \/ \E s \in Subs, t \in Topics : StartSubscribe(s, t)
    \/ \E s \in Subs : EndSubscribe(s) \/ Receive(s)
    \/ \E e \in Events, t \in Topics : Arrive(e, t)
    \/ \E e \in Events : RunEvent(e)
    \/ UNCHANGED vars

CloseStep == \E k \in Closers : StartClose(k) \/ RunClose(k) \/ StopFails(k)

\* A step is one of the two kinds (controller.go:240-348).
LEMMA TwoKinds ==
  ASSUME [Next]_vars
  PROVE  OtherStep \/ CloseStep
  BY DEF Next, Quiet, OtherStep, CloseStep

\* Only Close changes what Close decides (controller.go:320).
LEMMA OtherLeaves ==
  ASSUME OtherStep
  PROVE  UNCHANGED <<stops, ownsRegistry, channelBuffer, shut, closed, closer, closeErr, stopped, released>>
  BY DEF OtherStep, StartSubscribe, EndSubscribe, Receive, Arrive, RunEvent, Enter,
     BeginDeliver, DeliverTo, EndDeliver, EndPublish, vars

\* A caller of Close changes nothing of the events (controller.go:320).
LEMMA CloseLeaves ==
  ASSUME CloseStep
  PROVE  UNCHANGED <<stops, ownsRegistry, channelBuffer, sub, topic, chan, event, todo, panicked, histVars>>
  BY DEF CloseStep, StartClose, RunClose, CloseChannels, StopTransport, ReleaseRegistry,
     OnceDone, StopFails

\* How a caller of Close moves on (controller.go:320-347).
LEMMA CloserMoves ==
  ASSUME TypeOK, NEW k \in Closers, StartClose(k) \/ RunClose(k) \/ StopFails(k)
  PROVE  /\ \A j \in Closers \ {k} : closer'[j] = closer[j]
         /\ \/ /\ closer[k] = "idle" /\ closer'[k] = "waiting" /\ UNCHANGED closed
               /\ \A j \in Closers : closer[j] = "idle"
            \/ /\ closer[k] = "idle" /\ closer'[k] = "once" /\ UNCHANGED closed
            \/ closer[k] = "waiting" /\ closer'[k] = "stopping" /\ closed' /\ Readers = {}
            \/ /\ closer[k] = "stopping" /\ closer'[k] \in {"releasing", "returned"}
               /\ UNCHANGED closed
            \/ closer[k] = "releasing" /\ closer'[k] = "returned" /\ UNCHANGED closed
            \/ /\ closer[k] = "once" /\ closer'[k] = "returned" /\ UNCHANGED closed
               /\ Returned
  <1>1. CASE StartClose(k)
    BY <1>1 DEF StartClose, TypeOK
  <1>2. CASE CloseChannels(k)
    BY <1>2 DEF CloseChannels, TypeOK
  <1>3. CASE StopTransport(k) \/ StopFails(k)
    BY <1>3 DEF StopTransport, StopFails, TypeOK
  <1>4. CASE ReleaseRegistry(k)
    BY <1>4 DEF ReleaseRegistry, TypeOK
  <1>5. CASE OnceDone(k)
    BY <1>5 DEF OnceDone, Returned, TypeOK
  <1> QED BY <1>1, <1>2, <1>3, <1>4, <1>5 DEF RunClose

\* Once c.closed is set nobody comes to hold c.mu for reading
\* (controller.go:247, 270, 359).
LEMMA ReadersStep ==
  ASSUME TypeOK, closed => Readers = {}, OtherStep
  PROVE  closed => Readers' = {}
  <1> SUFFICES ASSUME closed PROVE Readers' = {}
    OBVIOUS
  <1>1. /\ \A s \in Subs : sub[s] # "locked"
        /\ \A e \in Events : event[e] \notin {"locked", "delivering", "sending"}
    BY DEF Readers
  <1>2. SUFFICES /\ \A s \in Subs : sub'[s] # "locked"
                 /\ \A e \in Events : event'[e] \notin {"locked", "delivering", "sending"}
    BY DEF Readers
  <1>3. ASSUME NEW s \in Subs, NEW t \in Topics, StartSubscribe(s, t)
        PROVE  sub' = [sub EXCEPT ![s] = "refused"] /\ event' = event
    BY <1>3 DEF StartSubscribe
  <1>4. ASSUME NEW e \in Events, RunEvent(e)
        PROVE  event' = [event EXCEPT ![e] = "refused"] /\ sub' = sub
    BY <1>1, <1>4 DEF RunEvent, Enter, BeginDeliver, DeliverTo, EndDeliver, EndPublish
  <1>5. ASSUME NEW s \in Subs, EndSubscribe(s) \/ Receive(s)
        PROVE  sub' = sub /\ event' = event
    BY <1>1, <1>5 DEF EndSubscribe, Receive
  <1>6. ASSUME NEW e \in Events, NEW t \in Topics, Arrive(e, t)
        PROVE  event' = [event EXCEPT ![e] = "arrived"] /\ sub' = sub
    BY <1>6 DEF Arrive
  <1>7. CASE UNCHANGED vars
    BY <1>1, <1>7 DEF vars
  <1> QED BY <1>1, <1>3, <1>4, <1>5, <1>6, <1>7 DEF OtherStep, TypeOK

\* The locks and closeOnce (controller.go:320-334).
LEMMA LockStep ==
  ASSUME TypeOK, LockInv, [Next]_vars
  PROVE  LockInv'
  <1>1. CASE OtherStep
    <2>1. UNCHANGED <<closer, closed>>
      BY <1>1, OtherLeaves
    <2>2. closed => Readers' = {}
      BY <1>1, ReadersStep DEF LockInv
    <2> QED BY <2>1, <2>2 DEF LockInv, Returned
  <1>2. CASE CloseStep
    <2>1. PICK k \in Closers : StartClose(k) \/ RunClose(k) \/ StopFails(k)
      BY <1>2 DEF CloseStep
    <2>2. Readers' = Readers
      BY <1>2, CloseLeaves DEF Readers
    <2>3. closed' => Readers' = {}
      BY <2>1, <2>2, CloserMoves DEF LockInv
    <2>4. closed' <=> \E j \in Closers : closer'[j] \in {"stopping", "releasing", "returned"}
      BY <2>1, CloserMoves DEF LockInv, Returned
    <2>5. /\ \A i, j \in Closers : closer'[i] \in Running /\ closer'[j] \in Running => i = j
          /\ Returned' => \A j \in Closers : closer'[j] \notin Running
      BY <2>1, CloserMoves DEF LockInv, Returned, Running
    <2> QED BY <2>3, <2>4, <2>5, Zenon DEF LockInv
  <1> QED BY <1>1, <1>2, TwoKinds

\* The map of channels, and that none of them is sent to when closed
\* (controller.go:259, 325, 392).
LEMMA SubStep ==
  ASSUME TypeOK, LockInv, SubInv, [Next]_vars
  PROVE  SubInv'
  <1>1. CASE OtherStep
    <2>1. UNCHANGED <<closed, shut>>
      BY <1>1, OtherLeaves
    <2>2. ASSUME NEW s \in Subs, NEW t \in Topics, StartSubscribe(s, t)
          PROVE  SubInv'
      <3>1. /\ sub[s] = "idle" /\ \E x \in {"locked", "refused"} : sub' = [sub EXCEPT ![s] = x]
            /\ UNCHANGED <<subscribers, panicked>>
        BY <2>2 DEF StartSubscribe
      <3>2. {x \in Subs : sub'[x] = "returned"} = {x \in Subs : sub[x] = "returned"}
        BY <3>1 DEF TypeOK
      <3> QED BY <2>1, <3>1, <3>2 DEF SubInv
    <2>3. ASSUME NEW s \in Subs, EndSubscribe(s)
          PROVE  SubInv'
      <3>1. /\ sub[s] = "locked" /\ sub' = [sub EXCEPT ![s] = "returned"]
            /\ subscribers' = subscribers \cup {s} /\ UNCHANGED panicked
        BY <2>3 DEF EndSubscribe
      <3>2. ~closed
        BY <3>1 DEF LockInv, Readers
      <3>3. {x \in Subs : sub'[x] = "returned"} = {x \in Subs : sub[x] = "returned"} \cup {s}
        BY <3>1 DEF TypeOK
      <3> QED BY <2>1, <3>1, <3>2, <3>3 DEF SubInv
    <2>4. ASSUME NEW e \in Events, NEW s \in Subs, DeliverTo(e, s)
          PROVE  SubInv'
      <3>1. /\ event[e] = "delivering" /\ panicked' = (panicked \/ s \in shut)
            /\ UNCHANGED <<sub, subscribers>>
        BY <2>4, Zenon DEF DeliverTo
      <3>2. ~closed
        BY <3>1 DEF LockInv, Readers
      <3> QED BY <2>1, <3>1, <3>2 DEF SubInv
    <2>5. CASE UNCHANGED <<sub, subscribers, panicked>>
      BY <2>1, <2>5 DEF SubInv
    <2>6. \/ \E s \in Subs, t \in Topics : StartSubscribe(s, t)
          \/ \E s \in Subs : EndSubscribe(s)
          \/ \E e \in Events, s \in Subs : DeliverTo(e, s)
          \/ UNCHANGED <<sub, subscribers, panicked>>
      BY <1>1 DEF OtherStep, Receive, Arrive, RunEvent, Enter, BeginDeliver, EndDeliver,
         EndPublish, vars
    <2> QED BY <2>2, <2>3, <2>4, <2>5, <2>6
  <1>2. CASE CloseStep
    <2>1. UNCHANGED <<sub, panicked>>
      BY <1>2, CloseLeaves
    <2>2. PICK k \in Closers : StartClose(k) \/ RunClose(k) \/ StopFails(k)
      BY <1>2 DEF CloseStep
    <2>3. CASE CloseChannels(k)
      <3>1. /\ Readers = {} /\ closer[k] = "waiting" /\ closed'
            /\ shut' = shut \cup subscribers /\ subscribers' = {}
        BY <2>3 DEF CloseChannels
      <3> QED BY <2>1, <3>1 DEF SubInv
    <2>4. CASE ~CloseChannels(k)
      <3>1. UNCHANGED <<closed, shut, subscribers>>
        BY <2>2, <2>4 DEF StartClose, RunClose, StopTransport, ReleaseRegistry, OnceDone,
           StopFails
      <3> QED BY <2>1, <3>1 DEF SubInv
    <2> QED BY <2>3, <2>4
  <1> QED BY <1>1, <1>2, TwoKinds

\* No message of a peer enters the handler after Stop, and Close reports what it
\* released (controller.go:336, 341).
LEMMA ReleaseStep ==
  ASSUME TypeOK, LockInv, ReleaseInv, [Next]_vars
  PROVE  ReleaseInv'
  <1>1. CASE OtherStep
    <2>1. UNCHANGED <<stops, ownsRegistry, channelBuffer, closer, closeErr, stopped, released>>
      BY <1>1, OtherLeaves
    <2>2. ASSUME stopped, NEW e \in Remote
          PROVE  event'[e] \in {"idle", "done", "refused"}
      <3>1. event[e] \in {"idle", "done", "refused"} /\ e \in Events
        BY <2>2 DEF ReleaseInv, Events
      <3>2. ASSUME NEW d \in Events, NEW t \in Topics, Arrive(d, t)
            PROVE  event'[e] = event[e]
        BY <2>2, <3>2 DEF Arrive, TypeOK
      <3>3. ASSUME NEW d \in Events, RunEvent(d)
            PROVE  event'[e] = event[e]
        BY <3>1, <3>3 DEF RunEvent, Enter, BeginDeliver, DeliverTo, EndDeliver, EndPublish,
           TypeOK
      <3> QED
        BY <1>1, <3>1, <3>2, <3>3 DEF OtherStep, StartSubscribe, EndSubscribe, Receive, vars
    <2> QED BY <2>1, <2>2 DEF ReleaseInv, Returned
  <1>2. CASE CloseStep
    <2>1. UNCHANGED <<stops, ownsRegistry, channelBuffer, event>>
      BY <1>2, CloseLeaves
    <2>2. PICK k \in Closers : StartClose(k) \/ RunClose(k) \/ StopFails(k)
      BY <1>2 DEF CloseStep
    <2>3. \A j \in Closers \ {k} : closer'[j] = closer[j]
      BY <2>2, CloserMoves
    <2>4. CASE StartClose(k) \/ CloseChannels(k)
      <3>1. UNCHANGED <<closeErr, stopped, released>>
        BY <2>4 DEF StartClose, CloseChannels
      <3>2. closer'[k] \in {"waiting", "once", "stopping"} /\ closer[k] # "returned"
        BY <2>4 DEF StartClose, CloseChannels, TypeOK
      <3> QED BY <2>1, <2>3, <3>1, <3>2 DEF ReleaseInv, Returned
    <2>5. CASE OnceDone(k)
      <3>1. UNCHANGED <<closeErr, stopped, released>> /\ Returned /\ closer'[k] = "returned"
        BY <2>5 DEF OnceDone, Returned, TypeOK
      <3> QED BY <2>1, <2>3, <3>1 DEF ReleaseInv, Returned
    <2>6. CASE StopTransport(k)
      <3>1. /\ stopped' = stops /\ closer[k] = "stopping" /\ closer'[k] = "releasing"
            /\ stops => \A e \in Remote : event[e] \in {"idle", "done", "refused"}
        BY <2>6 DEF StopTransport, TypeOK
      <3>2. ~Returned
        BY <3>1 DEF LockInv, Running
      <3>3. ~Returned'
        BY <2>3, <3>1, <3>2 DEF Returned
      <3>4. \A j \in Closers : closer'[j] = "releasing" => stopped' = stops'
        BY <2>1, <3>1
      <3>5. stopped' => \A e \in Remote : event'[e] \in {"idle", "done", "refused"}
        BY <2>1, <3>1
      <3> QED BY <3>3, <3>4, <3>5 DEF ReleaseInv
    <2>7. CASE StopFails(k)
      <3>1. closeErr' /\ UNCHANGED stopped /\ closer'[k] = "returned"
        BY <2>7 DEF StopFails, TypeOK
      <3> QED BY <2>1, <2>3, <3>1 DEF ReleaseInv
    <2>8. CASE ReleaseRegistry(k)
      <3>1. /\ closer[k] = "releasing" /\ closer'[k] = "returned"
            /\ released' = ownsRegistry /\ UNCHANGED stopped
        BY <2>8 DEF ReleaseRegistry, TypeOK
      <3> QED BY <2>1, <2>3, <3>1 DEF ReleaseInv
    <2> QED BY <2>2, <2>4, <2>5, <2>6, <2>7, <2>8 DEF RunClose
  <1> QED BY <1>1, <1>2, TwoKinds

--------------------------------------------------------------------------------
\* A subscriber that reads its channel moves an event within its history
\* (controller.go:241).
LEMMA ReceiveKeeps ==
  ASSUME NEW g \in Seq(Events), NEW c \in Seq(Events), c # <<>>
  PROVE  Append(g, Head(c)) \o Tail(c) = g \o c
  OBVIOUS

\* An event put into the channel is put at the end of the history
\* (controller.go:392).
LEMMA DeliverAppends ==
  ASSUME NEW g \in Seq(Events), NEW c \in Seq(Events), NEW e \in Events
  PROVE  g \o Append(c, e) = Append(g \o c, e)
  OBVIOUS

\* What Append does to a sequence and to its elements.
LEMMA AppendFacts ==
  ASSUME NEW h \in Seq(Events), NEW e \in Events
  PROVE  /\ DOMAIN Append(h, e) = DOMAIN h \cup {Len(h) + 1}
         /\ \A i \in DOMAIN h : Append(h, e)[i] = h[i] /\ i < Len(h) + 1
         /\ Append(h, e)[Len(h) + 1] = e
         /\ Len(h) + 1 \notin DOMAIN h
  OBVIOUS

\* The same of a sequence that is known to be another one extended.
LEMMA ExtendedFacts ==
  ASSUME NEW h \in Seq(Events), NEW e \in Events, NEW g, g = Append(h, e)
  PROVE  /\ DOMAIN g = DOMAIN h \cup {Len(h) + 1}
         /\ \A i \in DOMAIN h : g[i] = h[i]
         /\ g[Len(h) + 1] = e
  BY AppendFacts

\* Two sequences of events make one.
LEMMA EventsJoin ==
  ASSUME NEW g \in Seq(Events), NEW h \in Seq(Events)
  PROVE  g \o h \in Seq(Events)
  OBVIOUS

\* What a subscriber was sent is what its history holds.
LEMMA SentFollows ==
  ASSUME NEW s \in Subs, History(s) \in Seq(Events), NEW e \in Events
  PROVE  /\ History(s)' = History(s) => Sent(s)' = Sent(s)
         /\ History(s)' = Append(History(s), e) => Sent(s)' = Sent(s) \cup {e}
  <1>1. History(s)' = History(s) => Sent(s)' = Sent(s)
    BY DEF Sent
  <1>2. ASSUME History(s)' = Append(History(s), e)
        PROVE  Sent(s)' = Sent(s) \cup {e}
    <2>1. /\ DOMAIN History(s)' = DOMAIN History(s) \cup {Len(History(s)) + 1}
          /\ \A i \in DOMAIN History(s) : History(s)'[i] = History(s)[i]
          /\ History(s)'[Len(History(s)) + 1] = e
      BY <1>2, AppendFacts
    <2> QED BY <2>1 DEF Sent
  <1> QED BY <1>1, <1>2

\* A round of deliver makes the history of the subscriber it visits longer, if
\* there is room, and changes no other (controller.go:390-396).
LEMMA DeliverHistory ==
  ASSUME TypeOK, NEW e \in Events, NEW x \in Subs, DeliverTo(e, x), NEW s \in Subs
  PROVE  /\ HasRoom(s) /\ x = s => History(s)' = Append(History(s), e)
         /\ ~HasRoom(x) \/ x # s => History(s)' = History(s)
  <1>1. got[s] \in Seq(Events) /\ chan[s] \in Seq(Events)
    BY DEF TypeOK
  <1>2. got' = got
    BY Zenon DEF DeliverTo
  <1>3. ASSUME HasRoom(s), x = s
        PROVE  History(s)' = Append(History(s), e)
    <2>1. chan' = [chan EXCEPT ![s] = Append(@, e)]
      BY <1>3, Zenon DEF DeliverTo
    <2>2. chan'[s] = Append(chan[s], e)
      BY <2>1 DEF TypeOK
    <2>3. got[s] \o Append(chan[s], e) = Append(got[s] \o chan[s], e)
      BY <1>1, DeliverAppends, Zenon
    <2> QED BY <1>2, <2>2, <2>3, Zenon DEF History
  <1>4. ASSUME HasRoom(x), x # s
        PROVE  History(s)' = History(s)
    <2>1. chan' = [chan EXCEPT ![x] = Append(@, e)]
      BY <1>4, Zenon DEF DeliverTo
    <2>2. chan'[s] = chan[s]
      BY <1>4, <2>1 DEF TypeOK
    <2> QED BY <1>2, <2>2 DEF History
  <1>5. ASSUME ~HasRoom(x)
        PROVE  History(s)' = History(s)
    <2>1. chan' = chan
      BY <1>5, Zenon DEF DeliverTo
    <2> QED BY <1>2, <2>1 DEF History
  <1> QED BY <1>3, <1>4, <1>5

\* The history of a subscriber changes only when an event is delivered to it
\* (controller.go:378-396).
LEMMA HistoryStep ==
  ASSUME TypeOK, [Next]_vars, NEW s \in Subs
  PROVE  /\ History(s) \in Seq(Events)
         /\ \/ History(s)' = History(s)
            \/ \E e \in Events : /\ DeliverTo(e, s) /\ HasRoom(s)
                                 /\ History(s)' = Append(History(s), e)
  <1>1. got[s] \in Seq(Events) /\ chan[s] \in Seq(Events)
    BY DEF TypeOK
  <1>2. History(s) \in Seq(Events)
    BY <1>1, EventsJoin, Zenon DEF History
  <1>3. ASSUME NEW x \in Subs, Receive(x)
        PROVE  History(s)' = History(s)
    <2>1. CASE x = s
      <3>1. /\ chan[s] # <<>>
            /\ got'[s] = Append(got[s], Head(chan[s])) /\ chan'[s] = Tail(chan[s])
        BY <1>3, <2>1 DEF Receive, TypeOK
      <3>2. Append(got[s], Head(chan[s])) \o Tail(chan[s]) = got[s] \o chan[s]
        BY <1>1, <3>1, ReceiveKeeps, Zenon
      <3> QED BY <3>1, <3>2, Zenon DEF History
    <2>2. CASE x # s
      <3>1. got'[s] = got[s] /\ chan'[s] = chan[s]
        BY <1>3, <2>2 DEF Receive, TypeOK
      <3> QED BY <3>1 DEF History
    <2> QED BY <2>1, <2>2
  <1>4. ASSUME NEW e \in Events, NEW x \in Subs, DeliverTo(e, x)
        PROVE  \/ History(s)' = History(s)
               \/ DeliverTo(e, s) /\ HasRoom(s) /\ History(s)' = Append(History(s), e)
    BY <1>4, DeliverHistory
  <1>5. ASSUME UNCHANGED <<got, chan>>
        PROVE  History(s)' = History(s)
    BY <1>5 DEF History
  <1>6. \/ \E x \in Subs : Receive(x)
        \/ \E e \in Events, x \in Subs : DeliverTo(e, x)
        \/ UNCHANGED <<got, chan>>
    <2>1. CASE CloseStep
      BY <2>1, CloseLeaves DEF histVars
    <2>2. CASE OtherStep
      BY <2>2 DEF OtherStep, StartSubscribe, EndSubscribe, Arrive, RunEvent, Enter,
         BeginDeliver, EndDeliver, EndPublish, vars, histVars
    <2> QED BY <2>1, <2>2, TwoKinds
  <1> QED BY <1>2, <1>3, <1>4, <1>5, <1>6

\* What the argument about events uses of TypeOK: no sequence is in it.
EventTypes ==
    /\ sub \in [Subs -> {"idle", "locked", "returned", "refused"}]
    /\ topic \in [Subs \cup Events -> Topics \cup {None}]
    /\ event \in [Events -> {"idle", "arrived", "locked", "delivering", "sending",
                             "done", "refused"}]
    /\ todo \in [Events -> SUBSET Subs]
    /\ dropped \in [Subs -> SUBSET Events]
    /\ known \in [Events -> SUBSET Subs]
    /\ past \in [Events -> SUBSET Events]
    /\ \A s \in Subs : \A i \in DOMAIN History(s) : History(s)[i] \in Events

\* They follow from the type invariant (controller.go:78-96).
LEMMA TypesOfEvents ==
  ASSUME TypeOK
  PROVE  EventTypes
  <1>1. ASSUME NEW s \in Subs, NEW i \in DOMAIN History(s)
        PROVE  History(s)[i] \in Events
    <2>1. History(s) \in Seq(Events)
      BY DEF History, TypeOK
    <2> QED BY <1>1, <2>1
  <1> QED BY <1>1 DEF TypeOK, EventTypes

DeliveryInv == EventInv /\ InOrder /\ NoSilentLoss

\* The events that are in the history of a subscriber were delivered to it.
LEMMA HistoryFacts ==
  ASSUME EventInv, NEW s \in Subs, NEW i \in DOMAIN History(s)
  PROVE  /\ sub[s] = "returned"
         /\ event[History(s)[i]] \in {"delivering", "sending", "done"}
         /\ event[History(s)[i]] = "delivering" => s \notin todo[History(s)[i]]
  BY DEF EventInv, HistInv

\* A step that leaves the histories alone, and moves calls of Subscribe and events
\* on without touching those that are already in a history.
Calm ==
    /\ \A s \in Subs : History(s)' = History(s) /\ Sent(s)' = Sent(s)
    /\ UNCHANGED dropped
    /\ \A s \in Subs : sub[s] = "returned" => sub'[s] = "returned" /\ topic'[s] = topic[s]
    /\ \A e \in Events : event[e] # "idle"
         => topic'[e] = topic[e] /\ known'[e] = known[e] /\ past'[e] = past[e]
    /\ \A e \in Events : event[e] = "done" => event'[e] = "done"

\* No event begins or ends its delivery.
CalmEvents ==
    \A e \in Events :
      /\ todo'[e] = todo[e]
      /\ \/ event'[e] = event[e] /\ known'[e] = known[e] /\ past'[e] = past[e]
         \/ /\ event[e] \in {"idle", "arrived"} /\ event'[e] \in {"arrived", "locked", "refused"}
            /\ known'[e] \subseteq {s \in Subs : sub'[s] = "returned"}
            /\ past'[e] \subseteq {d \in Events : event'[d] = "done"}
         \/ event[e] = "sending" /\ event'[e] = "done"

\* A calm step in which no event begins or ends its delivery keeps what is known
\* of all of them (controller.go:240-316).
LEMMA CalmStep ==
  ASSUME EventTypes, DeliveryInv, Calm, CalmEvents
  PROVE  DeliveryInv'
  <1>1. ASSUME NEW s \in Subs, NEW i \in DOMAIN History(s)
        PROVE  /\ History(s)' = History(s) /\ History(s)[i] \in Events
               /\ sub'[s] = "returned" /\ topic'[s] = topic[s]
               /\ topic'[History(s)[i]] = topic[History(s)[i]]
               /\ past'[History(s)[i]] = past[History(s)[i]]
               /\ event[History(s)[i]] = "delivering" => event'[History(s)[i]] = "delivering"
               /\ event'[History(s)[i]] \in {"delivering", "sending", "done"}
               /\ event'[History(s)[i]] = "delivering" => event[History(s)[i]] = "delivering"
    <2> DEFINE e == History(s)[i]
    <2>1. e \in Events
      BY <1>1 DEF EventTypes
    <2>2. sub[s] = "returned" /\ event[e] \in {"delivering", "sending", "done"}
      BY <1>1, HistoryFacts DEF DeliveryInv
    <2> HIDE DEF e
    <2>3. /\ History(s)' = History(s) /\ sub'[s] = "returned" /\ topic'[s] = topic[s]
          /\ topic'[e] = topic[e] /\ past'[e] = past[e]
      BY <2>1, <2>2 DEF Calm
    <2>4. event'[e] = event[e] \/ (event[e] = "sending" /\ event'[e] = "done")
      BY <2>1, <2>2 DEF CalmEvents
    <2>5. /\ event[e] = "delivering" => event'[e] = "delivering"
          /\ event'[e] \in {"delivering", "sending", "done"}
          /\ event'[e] = "delivering" => event[e] = "delivering"
      BY <2>2, <2>4
    <2> QED BY <2>1, <2>3, <2>5 DEF e
  <1>2. InOrder'
    <2>1. ASSUME NEW s \in Subs
          PROVE  LET h == History(s)' IN
                   /\ \A i, j \in DOMAIN h : i # j => h[i] # h[j]
                   /\ \A i \in DOMAIN h : topic'[h[i]] = topic'[s]
                   /\ \A i, j \in DOMAIN h : h[i] \in past'[h[j]] => i < j
      <3> DEFINE h == History(s)
      <3>1. /\ \A i, j \in DOMAIN h : i # j => h[i] # h[j]
            /\ \A i \in DOMAIN h : topic[h[i]] = topic[s]
            /\ \A i, j \in DOMAIN h : h[i] \in past[h[j]] => i < j
        BY DEF DeliveryInv, InOrder
      <3>2. h' = h
        BY DEF Calm
      <3>3. \A i \in DOMAIN h : /\ topic'[s] = topic[s] /\ topic'[h[i]] = topic[h[i]]
                                /\ past'[h[i]] = past[h[i]]
        BY <1>1
      <3> HIDE DEF h
      <3>4. /\ \A i \in DOMAIN h : topic'[h[i]] = topic'[s]
            /\ \A i, j \in DOMAIN h : h[i] \in past'[h[j]] => i < j
        BY <3>1, <3>3
      <3> QED BY <3>1, <3>2, <3>4 DEF h
    <2> QED BY <2>1 DEF InOrder
  <1>3. EventInv'
    <2>1. ASSUME NEW e \in Events, NEW s \in known'[e]
          PROVE  s \in Subs /\ sub'[s] = "returned"
      <3>1. CASE known'[e] = known[e]
        <4>1. s \in Subs /\ sub[s] = "returned"
          BY <2>1, <3>1 DEF DeliveryInv, EventInv, KnownInv
        <4> QED BY <4>1 DEF Calm
      <3>2. CASE known'[e] \subseteq {x \in Subs : sub'[x] = "returned"}
        BY <2>1, <3>2
      <3>3. event[e] = "sending" => known'[e] = known[e]
        BY DEF Calm
      <3> QED BY <2>1, <3>1, <3>2, <3>3 DEF CalmEvents
    <2>2. ASSUME NEW e \in Events, NEW d \in past'[e]
          PROVE  event'[d] = "done"
      <3>1. CASE past'[e] = past[e]
        <4>1. d \in Events /\ event[d] = "done"
          BY <2>2, <3>1 DEF DeliveryInv, EventInv, PastInv, EventTypes
        <4> QED BY <4>1 DEF Calm
      <3>2. CASE past'[e] \subseteq {x \in Events : event'[x] = "done"}
        BY <2>2, <3>2
      <3>3. event[e] = "sending" => past'[e] = past[e]
        BY DEF Calm
      <3> QED BY <2>2, <3>1, <3>2, <3>3 DEF CalmEvents
    <2>3. ASSUME NEW e \in Events, event'[e] = "delivering"
          PROVE  /\ \A s \in todo'[e] : topic'[s] = topic'[e] /\ sub'[s] = "returned"
                 /\ \A s \in known'[e] : topic'[s] = topic'[e]
                      => s \in todo'[e] \/ e \in Sent(s)' \cup dropped'[s]
      <3>1. /\ event[e] = "delivering" /\ todo'[e] = todo[e] /\ topic'[e] = topic[e]
            /\ known'[e] = known[e] /\ dropped' = dropped
        BY <2>3 DEF Calm, CalmEvents
      <3>2. \A s \in todo[e] : s \in Subs /\ sub[s] = "returned"
        BY <3>1 DEF DeliveryInv, EventInv, RoundInv, EventTypes
      <3>3. \A s \in known[e] : s \in Subs /\ sub[s] = "returned"
        BY DEF DeliveryInv, EventInv, KnownInv
      <3>4. /\ \A s \in todo[e] : topic[s] = topic[e]
            /\ \A s \in known[e] : topic[s] = topic[e]
                 => s \in todo[e] \/ e \in Sent(s) \cup dropped[s]
        BY <3>1 DEF DeliveryInv, EventInv, RoundInv
      <3>5. \A s \in Subs : sub[s] = "returned" =>
              sub'[s] = "returned" /\ topic'[s] = topic[s] /\ Sent(s)' = Sent(s)
        BY DEF Calm
      <3> QED BY <3>1, <3>2, <3>3, <3>4, <3>5
    <2>4. ASSUME NEW s \in Subs, NEW i \in DOMAIN History(s)'
          PROVE  /\ sub'[s] = "returned"
                 /\ event'[History(s)'[i]] \in {"delivering", "sending", "done"}
                 /\ event'[History(s)'[i]] = "delivering" => s \notin todo'[History(s)'[i]]
      <3>1. History(s)' = History(s)
        BY DEF Calm
      <3>2. /\ History(s)[i] \in Events /\ sub'[s] = "returned"
            /\ event'[History(s)[i]] \in {"delivering", "sending", "done"}
            /\ event'[History(s)[i]] = "delivering" => event[History(s)[i]] = "delivering"
        <4>1. i \in DOMAIN History(s)
          BY <2>4, <3>1
        <4> QED BY <1>1, <4>1, Zenon
      <3>3. event[History(s)[i]] = "delivering" => s \notin todo[History(s)[i]]
        BY <2>4, <3>1, HistoryFacts DEF DeliveryInv
      <3>4. todo'[History(s)[i]] = todo[History(s)[i]]
        BY <3>2 DEF CalmEvents
      <3> QED BY <3>1, <3>2, <3>3, <3>4
    <2>5. KnownInv'
      BY <2>1 DEF KnownInv
    <2>6. PastInv'
      BY <2>2, Zenon DEF PastInv
    <2>7. RoundInv'
      BY <2>3, Zenon DEF RoundInv
    <2>8. HistInv'
      BY <2>4, Zenon DEF HistInv
    <2> QED BY <2>5, <2>6, <2>7, <2>8, Zenon DEF EventInv
  <1>4. NoSilentLoss'
    <2>1. ASSUME NEW e \in Events, event'[e] \in {"sending", "done"}, NEW s \in known'[e],
                 topic'[s] = topic'[e]
          PROVE  e \in Sent(s)' \cup dropped'[s]
      <3>1. /\ event[e] \in {"sending", "done"} /\ topic'[e] = topic[e]
            /\ known'[e] = known[e] /\ dropped' = dropped
        BY <2>1 DEF Calm, CalmEvents
      <3>2. s \in Subs /\ sub[s] = "returned"
        BY <2>1, <3>1 DEF DeliveryInv, EventInv, KnownInv
      <3>3. topic[s] = topic[e] /\ Sent(s)' = Sent(s)
        BY <2>1, <3>1, <3>2 DEF Calm
      <3> QED BY <2>1, <3>1, <3>3 DEF DeliveryInv, NoSilentLoss
    <2> QED BY <2>1 DEF NoSilentLoss
  <1> QED BY <1>2, <1>3, <1>4 DEF DeliveryInv

\* Publish, handleMessage and Subscribe up to and after the delivery
\* (controller.go:240-316, 350-376).
LEMMA AroundDelivery ==
  ASSUME EventTypes, DeliveryInv,
         \/ \E s \in Subs, t \in Topics : StartSubscribe(s, t)
         \/ \E s \in Subs : EndSubscribe(s) \/ Receive(s)
         \/ \E e \in Events, t \in Topics : Arrive(e, t)
         \/ \E e \in Events : Enter(e) \/ EndPublish(e)
         \/ UNCHANGED <<sub, topic, chan, event, todo, histVars>>,
         \A s \in Subs : History(s)' = History(s) /\ Sent(s)' = Sent(s)
  PROVE  DeliveryInv'
  <1> USE ContentBusAssumption
  <1>1. ASSUME NEW s \in Subs, NEW t \in Topics, StartSubscribe(s, t)
        PROVE  DeliveryInv'
    <2>1. /\ sub[s] = "idle" /\ (\E x : sub' = [sub EXCEPT ![s] = x])
          /\ topic' = [topic EXCEPT ![s] = t]
          /\ UNCHANGED <<event, todo, dropped, known, past>>
      BY <1>1 DEF StartSubscribe, histVars
    <2>2. \A x \in Subs \ {s} : sub'[x] = sub[x] /\ topic'[x] = topic[x]
      BY <2>1 DEF EventTypes
    <2>3. \A e \in Events : topic'[e] = topic[e]
      <3>1. \A e \in Events : e # s /\ e \in DOMAIN topic
        BY DEF EventTypes
      <3> QED BY <2>1, <3>1
    <2>4. Calm
      BY <2>1, <2>2, <2>3 DEF Calm
    <2>5. CalmEvents
      BY <2>1 DEF CalmEvents
    <2> QED BY <2>4, <2>5, CalmStep
  <1>2. ASSUME NEW s \in Subs, EndSubscribe(s) \/ Receive(s)
        PROVE  DeliveryInv'
    <2>1. /\ sub' = sub \/ sub' = [sub EXCEPT ![s] = "returned"]
          /\ UNCHANGED <<topic, event, todo, dropped, known, past>>
      BY <1>2 DEF EndSubscribe, Receive, histVars
    <2>2. Calm
      BY <2>1 DEF Calm, EventTypes
    <2>3. CalmEvents
      BY <2>1 DEF CalmEvents
    <2> QED BY <2>2, <2>3, CalmStep
  <1>3. ASSUME NEW e \in Events, NEW t \in Topics, Arrive(e, t)
        PROVE  DeliveryInv'
    <2>1. /\ event[e] = "idle" /\ event' = [event EXCEPT ![e] = "arrived"]
          /\ topic' = [topic EXCEPT ![e] = t]
          /\ known' = [known EXCEPT ![e] = {s \in Subs : sub[s] = "returned"}]
          /\ past' = [past EXCEPT ![e] = {d \in Events : event[d] = "done"}]
          /\ UNCHANGED <<sub, todo, dropped>>
      BY <1>3 DEF Arrive
    <2>2. \A d \in Events \ {e} : event'[d] = event[d] /\ topic'[d] = topic[d]
                                  /\ known'[d] = known[d] /\ past'[d] = past[d]
      BY <2>1 DEF EventTypes
    <2>3. \A s \in Subs : topic'[s] = topic[s]
      BY <2>1 DEF EventTypes
    <2>4. /\ event'[e] = "arrived" /\ known'[e] = {s \in Subs : sub[s] = "returned"}
          /\ past'[e] = {d \in Events : event[d] = "done"}
      BY <2>1 DEF EventTypes
    <2>5. past'[e] \subseteq {d \in Events : event'[d] = "done"}
      BY <2>1, <2>2, <2>4
    <2>6. Calm
      BY <2>1, <2>2, <2>3 DEF Calm
    <2>7. CalmEvents
      BY <2>1, <2>2, <2>4, <2>5 DEF CalmEvents
    <2> QED BY <2>6, <2>7, CalmStep
  <1>4. ASSUME NEW e \in Events, Enter(e) \/ EndPublish(e)
        PROVE  DeliveryInv'
    <2>1. /\ \/ /\ event[e] = "arrived"
                /\ \E x \in {"locked", "refused"} : event' = [event EXCEPT ![e] = x]
             \/ event[e] = "sending" /\ event' = [event EXCEPT ![e] = "done"]
          /\ UNCHANGED <<sub, topic, todo, dropped, known, past>>
      BY <1>4 DEF Enter, EndPublish, histVars
    <2>2. \A d \in Events \ {e} : event'[d] = event[d]
      BY <2>1 DEF EventTypes
    <2>3. \/ event[e] = "arrived" /\ event'[e] \in {"locked", "refused"}
          \/ event[e] = "sending" /\ event'[e] = "done"
      BY <2>1 DEF EventTypes
    <2>4. Calm
      BY <2>1, <2>2, <2>3 DEF Calm
    <2>5. known[e] \subseteq {s \in Subs : sub'[s] = "returned"}
      BY <2>1 DEF DeliveryInv, EventInv, KnownInv
    <2>6. past[e] \subseteq {d \in Events : event'[d] = "done"}
      BY <2>2, <2>3 DEF DeliveryInv, EventInv, PastInv, EventTypes
    <2>7. CalmEvents
      BY <2>1, <2>2, <2>3, <2>5, <2>6 DEF CalmEvents
    <2> QED BY <2>4, <2>7, CalmStep
  <1>5. CASE UNCHANGED <<sub, topic, chan, event, todo, histVars>>
    <2>1. Calm
      BY <1>5 DEF Calm, histVars
    <2>2. CalmEvents
      BY <1>5 DEF CalmEvents, histVars
    <2> QED BY <2>1, <2>2, CalmStep
  <1> QED BY <1>1, <1>2, <1>3, <1>4, <1>5

\* deliver finds every subscription that existed when the event was published
\* (controller.go:378-389).
LEMMA BeginStep ==
  ASSUME EventTypes, LockInv, SubInv, DeliveryInv, NEW e \in Events, BeginDeliver(e),
         \A s \in Subs : History(s)' = History(s) /\ Sent(s)' = Sent(s)
  PROVE  DeliveryInv'
  <1>1. /\ event[e] = "locked" /\ event' = [event EXCEPT ![e] = "delivering"]
        /\ todo' = [todo EXCEPT ![e] = Addressees(e)]
        /\ UNCHANGED <<sub, topic, dropped, known, past>>
    BY DEF BeginDeliver, histVars
  <1>2. \A d \in Events \ {e} : event'[d] = event[d] /\ todo'[d] = todo[d]
    BY <1>1 DEF EventTypes
  <1>3. event'[e] = "delivering" /\ todo'[e] = Addressees(e)
    BY <1>1 DEF EventTypes
  <1>4. Addressees(e) = {s \in Subs : sub[s] = "returned" /\ topic[s] = topic[e]}
    <2>1. ~closed
      BY <1>1 DEF LockInv, Readers
    <2> QED BY <2>1 DEF SubInv, Addressees
  <1>5. ASSUME NEW s \in Subs, NEW i \in DOMAIN History(s)
        PROVE  History(s)[i] \in Events /\ History(s)[i] # e
    <2>1. History(s)[i] \in Events
      BY <1>5, Zenon DEF EventTypes
    <2>2. event[History(s)[i]] \in {"delivering", "sending", "done"}
      BY <1>5, HistoryFacts, Zenon DEF DeliveryInv
    <2> QED BY <1>1, <2>1, <2>2
  <1>6. EventInv'
    <2>1. \A d \in Events : known'[d] \subseteq {s \in Subs : sub'[s] = "returned"}
      BY <1>1 DEF DeliveryInv, EventInv, KnownInv
    <2>2. ASSUME NEW c \in Events, NEW d \in past'[c]
          PROVE  event'[d] = "done"
      <3>1. d \in Events /\ event[d] = "done"
        BY <1>1, <2>2 DEF DeliveryInv, EventInv, PastInv, EventTypes
      <3> QED BY <1>1, <1>2, <3>1
    <2>3. ASSUME NEW d \in Events, event'[d] = "delivering"
          PROVE  /\ \A s \in todo'[d] : topic'[s] = topic'[d] /\ sub'[s] = "returned"
                 /\ \A s \in known'[d] : topic'[s] = topic'[d]
                      => s \in todo'[d] \/ d \in Sent(s)' \cup dropped'[s]
      <3>1. known[d] \subseteq {s \in Subs : sub[s] = "returned"}
        BY DEF DeliveryInv, EventInv, KnownInv
      <3>2. CASE d = e
        <4>1. todo'[d] = {s \in Subs : sub[s] = "returned" /\ topic[s] = topic[d]}
          BY <1>3, <1>4, <3>2
        <4> QED BY <1>1, <3>1, <4>1
      <3>3. CASE d # e
        <4>1. event[d] = "delivering" /\ todo'[d] = todo[d]
          BY <1>2, <2>3, <3>3
        <4>2. /\ \A s \in todo[d] : topic[s] = topic[d] /\ sub[s] = "returned"
              /\ \A s \in known[d] : topic[s] = topic[d]
                   => s \in todo[d] \/ d \in Sent(s) \cup dropped[s]
          BY <4>1 DEF DeliveryInv, EventInv, RoundInv
        <4> QED BY <1>1, <3>1, <4>1, <4>2
      <3> QED BY <3>2, <3>3
    <2>4. ASSUME NEW s \in Subs, NEW i \in DOMAIN History(s)'
          PROVE  /\ sub'[s] = "returned"
                 /\ event'[History(s)'[i]] \in {"delivering", "sending", "done"}
                 /\ event'[History(s)'[i]] = "delivering" => s \notin todo'[History(s)'[i]]
      <3>1. History(s)' = History(s) /\ sub' = sub
        BY <1>1
      <3>2. i \in DOMAIN History(s)
        BY <2>4, <3>1, Zenon
      <3>3. History(s)[i] \in Events /\ History(s)[i] # e
        BY <1>5, <3>2, Zenon
      <3>4. /\ sub[s] = "returned"
            /\ event[History(s)[i]] \in {"delivering", "sending", "done"}
            /\ event[History(s)[i]] = "delivering" => s \notin todo[History(s)[i]]
        BY <3>2, HistoryFacts, Zenon DEF DeliveryInv
      <3>5. /\ event'[History(s)[i]] = event[History(s)[i]]
            /\ todo'[History(s)[i]] = todo[History(s)[i]]
        BY <1>2, <3>3
      <3> QED BY <3>1, <3>4, <3>5, Zenon
    <2>5. KnownInv'
      BY <2>1 DEF KnownInv
    <2>6. PastInv'
      BY <2>2, Zenon DEF PastInv
    <2>7. RoundInv'
      BY <2>3, Zenon DEF RoundInv
    <2>8. HistInv'
      BY <2>4, Zenon DEF HistInv
    <2> QED BY <2>5, <2>6, <2>7, <2>8, Zenon DEF EventInv
  <1>7. InOrder'
    <2>1. ASSUME NEW s \in Subs
          PROVE  LET h == History(s)' IN
                   /\ \A i, j \in DOMAIN h : i # j => h[i] # h[j]
                   /\ \A i \in DOMAIN h : topic[h[i]] = topic[s]
                   /\ \A i, j \in DOMAIN h : h[i] \in past[h[j]] => i < j
      <3> DEFINE h == History(s)
      <3>1. /\ \A i, j \in DOMAIN h : i # j => h[i] # h[j]
            /\ \A i \in DOMAIN h : topic[h[i]] = topic[s]
            /\ \A i, j \in DOMAIN h : h[i] \in past[h[j]] => i < j
        BY DEF DeliveryInv, InOrder
      <3>2. h' = h
        OBVIOUS
      <3> QED BY <3>1, <3>2
    <2> QED BY <1>1, <2>1 DEF InOrder
  <1>8. NoSilentLoss'
    <2>1. ASSUME NEW d \in Events, event'[d] \in {"sending", "done"}, NEW s \in known[d],
                 topic[s] = topic[d]
          PROVE  d \in Sent(s)' \cup dropped[s]
      <3>1. event[d] = event'[d] /\ s \in Subs
        BY <1>2, <1>3, <2>1 DEF DeliveryInv, EventInv, KnownInv
      <3> QED BY <2>1, <3>1 DEF DeliveryInv, NoSilentLoss
    <2> QED BY <1>1, <2>1 DEF NoSilentLoss
  <1> QED BY <1>6, <1>7, <1>8 DEF DeliveryInv

\* deliver returns only when it has visited all of them (controller.go:390).
LEMMA EndStep ==
  ASSUME EventTypes, DeliveryInv, NEW e \in Events, EndDeliver(e),
         \A s \in Subs : History(s)' = History(s) /\ Sent(s)' = Sent(s)
  PROVE  DeliveryInv'
  <1>1. /\ event[e] = "delivering" /\ todo[e] = {}
        /\ \E x \in {"sending", "done"} : event' = [event EXCEPT ![e] = x]
        /\ UNCHANGED <<sub, topic, todo, dropped, known, past>>
    BY DEF EndDeliver, histVars
  <1>2. \A d \in Events \ {e} : event'[d] = event[d]
    BY <1>1 DEF EventTypes
  <1>3. event'[e] \in {"sending", "done"}
    BY <1>1 DEF EventTypes
  <1>4. ASSUME NEW s \in Subs, NEW i \in DOMAIN History(s)
        PROVE  History(s)[i] \in Events
    BY <1>4 DEF EventTypes
  <1>5. EventInv'
    <2>1. \A d \in Events : known'[d] \subseteq {s \in Subs : sub'[s] = "returned"}
      BY <1>1 DEF DeliveryInv, EventInv, KnownInv
    <2>2. ASSUME NEW c \in Events, NEW d \in past'[c]
          PROVE  event'[d] = "done"
      <3>1. d \in Events /\ event[d] = "done"
        BY <1>1, <2>2 DEF DeliveryInv, EventInv, PastInv, EventTypes
      <3> QED BY <1>1, <1>2, <3>1
    <2>3. ASSUME NEW d \in Events, event'[d] = "delivering"
          PROVE  /\ \A s \in todo'[d] : topic'[s] = topic'[d] /\ sub'[s] = "returned"
                 /\ \A s \in known'[d] : topic'[s] = topic'[d]
                      => s \in todo'[d] \/ d \in Sent(s)' \cup dropped'[s]
      <3>1. d # e /\ event[d] = "delivering"
        BY <1>2, <1>3, <2>3
      <3>2. known[d] \subseteq {s \in Subs : sub[s] = "returned"}
        BY DEF DeliveryInv, EventInv, KnownInv
      <3>3. /\ \A s \in todo[d] : topic[s] = topic[d] /\ sub[s] = "returned"
            /\ \A s \in known[d] : topic[s] = topic[d]
                 => s \in todo[d] \/ d \in Sent(s) \cup dropped[s]
        BY <3>1 DEF DeliveryInv, EventInv, RoundInv
      <3> QED BY <1>1, <3>1, <3>2, <3>3
    <2>4. ASSUME NEW s \in Subs, NEW i \in DOMAIN History(s)'
          PROVE  /\ sub'[s] = "returned"
                 /\ event'[History(s)'[i]] \in {"delivering", "sending", "done"}
                 /\ event'[History(s)'[i]] = "delivering" => s \notin todo'[History(s)'[i]]
      <3>1. History(s)' = History(s) /\ i \in DOMAIN History(s)
        BY <2>4
      <3>2. /\ sub[s] = "returned" /\ History(s)[i] \in Events
            /\ event[History(s)[i]] \in {"delivering", "sending", "done"}
            /\ event[History(s)[i]] = "delivering" => s \notin todo[History(s)[i]]
        BY <1>4, <3>1, HistoryFacts DEF DeliveryInv
      <3> QED BY <1>1, <1>2, <1>3, <3>1, <3>2
    <2>5. KnownInv'
      BY <2>1 DEF KnownInv
    <2>6. PastInv'
      BY <2>2, Zenon DEF PastInv
    <2>7. RoundInv'
      BY <2>3, Zenon DEF RoundInv
    <2>8. HistInv'
      BY <2>4, Zenon DEF HistInv
    <2> QED BY <2>5, <2>6, <2>7, <2>8, Zenon DEF EventInv
  <1>6. InOrder'
    <2>1. ASSUME NEW s \in Subs
          PROVE  LET h == History(s)' IN
                   /\ \A i, j \in DOMAIN h : i # j => h[i] # h[j]
                   /\ \A i \in DOMAIN h : topic[h[i]] = topic[s]
                   /\ \A i, j \in DOMAIN h : h[i] \in past[h[j]] => i < j
      <3> DEFINE h == History(s)
      <3>1. /\ \A i, j \in DOMAIN h : i # j => h[i] # h[j]
            /\ \A i \in DOMAIN h : topic[h[i]] = topic[s]
            /\ \A i, j \in DOMAIN h : h[i] \in past[h[j]] => i < j
        BY DEF DeliveryInv, InOrder
      <3>2. h' = h
        OBVIOUS
      <3> QED BY <3>1, <3>2
    <2> QED BY <1>1, <2>1 DEF InOrder
  <1>7. NoSilentLoss'
    <2>1. ASSUME NEW d \in Events, event'[d] \in {"sending", "done"}, NEW s \in known[d],
                 topic[s] = topic[d]
          PROVE  d \in Sent(s)' \cup dropped[s]
      <3>1. s \in Subs
        BY <2>1 DEF DeliveryInv, EventInv, KnownInv
      <3>2. CASE d = e
        BY <1>1, <2>1, <3>1, <3>2 DEF DeliveryInv, EventInv, RoundInv
      <3>3. CASE d # e
        BY <1>2, <2>1, <3>1, <3>3 DEF DeliveryInv, NoSilentLoss
      <3> QED BY <3>2, <3>3
    <2> QED BY <1>1, <2>1 DEF NoSilentLoss
  <1> QED BY <1>5, <1>6, <1>7 DEF DeliveryInv

\* One round of deliver: the event is new at the end of one history, or is
\* counted as dropped (controller.go:390-396).
LEMMA DeliverStep ==
  ASSUME TypeOK, [Next]_vars, DeliveryInv, NEW e \in Events, NEW r \in Subs, DeliverTo(e, r)
  PROVE  DeliveryInv'
  <1>0. EventTypes
    BY TypesOfEvents
  <1>1. /\ event[e] = "delivering" /\ r \in todo[e] /\ todo' = [todo EXCEPT ![e] = @ \ {r}]
        /\ UNCHANGED <<sub, topic, event, known, past>>
    BY Zenon DEF DeliverTo
  <1>2. \A d \in Events : todo'[d] \subseteq todo[d] /\ todo[d] \subseteq todo'[d] \cup {r}
    BY <1>0, <1>1 DEF EventTypes
  <1>3. todo'[e] = todo[e] \ {r} /\ \A d \in Events \ {e} : todo'[d] = todo[d]
    BY <1>0, <1>1 DEF EventTypes
  <1>4. topic[r] = topic[e] /\ sub[r] = "returned"
    BY <1>1 DEF DeliveryInv, EventInv, RoundInv
  <1>5. \A i \in DOMAIN History(r) : History(r)[i] # e
    BY <1>1, HistoryFacts DEF DeliveryInv
  <1>6. \A s \in Subs : History(s) \in Seq(Events)
    BY HistoryStep
  <1>7. ASSUME NEW s \in Subs
        PROVE  \/ History(s)' = History(s)
               \/ s = r /\ History(s)' = Append(History(s), e)
    BY DeliverHistory
  <1>8. ASSUME NEW s \in Subs
        PROVE  Sent(s) \subseteq Sent(s)'
    BY <1>6, <1>7, SentFollows
  <1>9. /\ e \in Sent(r)' \cup dropped'[r]
        /\ \A s \in Subs : dropped[s] \subseteq dropped'[s]
    <2>1. CASE HasRoom(r)
      <3>1. dropped' = dropped
        BY <2>1, Zenon DEF DeliverTo
      <3>2. History(r)' = Append(History(r), e)
        BY <2>1, DeliverHistory
      <3>3. e \in Sent(r)'
        BY <1>6, <3>2, SentFollows
      <3> QED BY <3>1, <3>3, Zenon
    <2>2. CASE ~HasRoom(r)
      <3>1. dropped' = [dropped EXCEPT ![r] = @ \cup {e}]
        BY <2>2, Zenon DEF DeliverTo
      <3> QED BY <1>0, <3>1 DEF EventTypes
    <2> QED BY <2>1, <2>2
  <1>10. EventInv'
    <2>1. \A d \in Events : known'[d] \subseteq {s \in Subs : sub'[s] = "returned"}
      BY <1>1 DEF DeliveryInv, EventInv, KnownInv
    <2>2. \A c \in Events : \A d \in past'[c] : event'[d] = "done"
      BY <1>1 DEF DeliveryInv, EventInv, PastInv
    <2>3. ASSUME NEW d \in Events, event'[d] = "delivering"
          PROVE  /\ \A s \in todo'[d] : topic'[s] = topic'[d] /\ sub'[s] = "returned"
                 /\ \A s \in known'[d] : topic'[s] = topic'[d]
                      => s \in todo'[d] \/ d \in Sent(s)' \cup dropped'[s]
      <3>1. event[d] = "delivering" /\ known'[d] \subseteq Subs
        BY <1>1, <2>1, <2>3
      <3>2. \A s \in todo'[d] : topic'[s] = topic'[d] /\ sub'[s] = "returned"
        BY <1>1, <1>2, <3>1 DEF DeliveryInv, EventInv, RoundInv
      <3>3. ASSUME NEW s \in known'[d], topic'[s] = topic'[d], s \notin todo'[d]
            PROVE  d \in Sent(s)' \cup dropped'[s]
        <4>1. CASE s = r /\ d = e
          BY <1>9, <4>1
        <4>2. CASE s # r \/ d # e
          <5>1. s \notin todo[d] /\ s \in known[d] /\ topic[s] = topic[d] /\ s \in Subs
            BY <1>1, <1>3, <3>1, <3>3, <4>2
          <5>2. d \in Sent(s) \cup dropped[s]
            BY <3>1, <5>1 DEF DeliveryInv, EventInv, RoundInv
          <5> QED BY <1>8, <1>9, <5>1, <5>2
        <4> QED BY <4>1, <4>2
      <3> QED BY <3>2, <3>3
    <2>4. ASSUME NEW s \in Subs, NEW i \in DOMAIN History(s)'
          PROVE  /\ sub'[s] = "returned"
                 /\ event'[History(s)'[i]] \in {"delivering", "sending", "done"}
                 /\ event'[History(s)'[i]] = "delivering" => s \notin todo'[History(s)'[i]]
      <3>1. CASE i \in DOMAIN History(s) /\ History(s)'[i] = History(s)[i]
        <4>1. History(s)[i] \in Events
          BY <1>0, <3>1 DEF EventTypes
        <4> QED BY <1>1, <1>2, <3>1, <4>1, HistoryFacts DEF DeliveryInv
      <3>2. CASE s = r /\ History(s)'[i] = e
        BY <1>1, <1>3, <1>4, <3>2
      <3>3. CASE s = r /\ History(s)' = Append(History(s), e)
        <4>0. History(s) \in Seq(Events) /\ History(s)' = Append(History(s), e)
          BY <1>6, <3>3, Zenon
        <4>1. /\ DOMAIN History(s)' = DOMAIN History(s) \cup {Len(History(s)) + 1}
              /\ \A j \in DOMAIN History(s) : History(s)'[j] = History(s)[j]
              /\ History(s)'[Len(History(s)) + 1] = e
          BY <4>0, ExtendedFacts, Zenon
        <4> QED BY <2>4, <3>1, <3>2, <3>3, <4>1
      <3> QED BY <1>7, <2>4, <3>1, <3>3
    <2>5. KnownInv'
      BY <2>1 DEF KnownInv
    <2>6. PastInv'
      BY <2>2, Zenon DEF PastInv
    <2>7. RoundInv'
      BY <2>3, Zenon DEF RoundInv
    <2>8. HistInv'
      BY <2>4, Zenon DEF HistInv
    <2> QED BY <2>5, <2>6, <2>7, <2>8, Zenon DEF EventInv
  <1>11. InOrder'
    <2>1. ASSUME NEW s \in Subs
          PROVE  LET h == History(s)' IN
                   /\ \A i, j \in DOMAIN h : i # j => h[i] # h[j]
                   /\ \A i \in DOMAIN h : topic[h[i]] = topic[s]
                   /\ \A i, j \in DOMAIN h : h[i] \in past[h[j]] => i < j
      <3> DEFINE h == History(s)
      <3>1. /\ \A i, j \in DOMAIN h : i # j => h[i] # h[j]
            /\ \A i \in DOMAIN h : topic[h[i]] = topic[s]
            /\ \A i, j \in DOMAIN h : h[i] \in past[h[j]] => i < j
        BY DEF DeliveryInv, InOrder
      <3>2. CASE s = r /\ History(s)' = Append(h, e)
        <4>1. h \in Seq(Events) /\ \A i \in DOMAIN h : h[i] # e /\ h[i] \in Events
          BY <1>0, <1>5, <1>6, <3>2 DEF EventTypes
        <4>2. \A i \in DOMAIN h : e \notin past[h[i]]
          BY <1>1, <4>1 DEF DeliveryInv, EventInv, PastInv
        <4>3. e \notin past[e]
          BY <1>1 DEF DeliveryInv, EventInv, PastInv
        <4>4. topic[e] = topic[s]
          BY <1>4, <3>2
        <4> DEFINE n == Len(h) + 1
                   g == History(s)'
        <4> HIDE DEF h, g
        <4>5. /\ DOMAIN g = DOMAIN h \cup {n} /\ n \notin DOMAIN h /\ g[n] = e
              /\ \A i \in DOMAIN h : g[i] = h[i] /\ i < n
          <5>1. h \in Seq(Events) /\ g = Append(h, e)
            BY <3>2, <4>1, Zenon DEF g
          <5>2. /\ DOMAIN g = DOMAIN h \cup {n} /\ g[n] = e
                /\ \A i \in DOMAIN h : g[i] = h[i]
            BY <5>1, ExtendedFacts
          <5>3. n \notin DOMAIN h /\ \A i \in DOMAIN h : i < n
            BY <5>1
          <5> QED BY <5>2, <5>3, Zenon
        <4> HIDE DEF n
        <4>6. ASSUME NEW i \in DOMAIN g, NEW j \in DOMAIN g, i # j
              PROVE  g[i] # g[j]
          <5>1. CASE i = n
            BY <4>1, <4>5, <4>6, <5>1
          <5>2. CASE j = n
            BY <4>1, <4>5, <4>6, <5>2
          <5>3. CASE i # n /\ j # n
            BY <3>1, <4>5, <4>6, <5>3
          <5> QED BY <5>1, <5>2, <5>3
        <4>7. \A i \in DOMAIN g : topic[g[i]] = topic[s]
          BY <3>1, <4>4, <4>5
        <4>8. \A i, j \in DOMAIN g : g[i] \in past[g[j]] => i < j
          BY <3>1, <4>2, <4>3, <4>5
        <4> QED BY <4>6, <4>7, <4>8 DEF g
      <3> QED BY <1>7, <3>1, <3>2
    <2> QED BY <1>1, <2>1 DEF InOrder
  <1>12. NoSilentLoss'
    <2>1. ASSUME NEW d \in Events, event[d] \in {"sending", "done"}, NEW s \in known[d],
                 topic[s] = topic[d]
          PROVE  d \in Sent(s)' \cup dropped'[s]
      <3>1. s \in Subs
        BY <2>1 DEF DeliveryInv, EventInv, KnownInv
      <3>2. d \in Sent(s) \cup dropped[s]
        BY <2>1 DEF DeliveryInv, NoSilentLoss
      <3> QED BY <1>8, <1>9, <3>1, <3>2
    <2> QED BY <1>1, <2>1 DEF NoSilentLoss
  <1> QED BY <1>10, <1>11, <1>12 DEF DeliveryInv

\* Every step keeps what is known of the events (controller.go:240-396).
LEMMA DeliveryStep ==
  ASSUME TypeOK, LockInv, SubInv, DeliveryInv, [Next]_vars
  PROVE  DeliveryInv'
  <1>0. EventTypes
    BY TypesOfEvents
  <1>1. ASSUME NEW e \in Events, NEW s \in Subs, DeliverTo(e, s)
        PROVE  DeliveryInv'
    BY <1>1, DeliverStep
  <1>2. ASSUME ~ \E e \in Events, s \in Subs : DeliverTo(e, s)
        PROVE  DeliveryInv'
    <2>1. ASSUME NEW s \in Subs
          PROVE  History(s)' = History(s) /\ Sent(s)' = Sent(s)
      <3>1. History(s)' = History(s)
        BY <1>2, HistoryStep
      <3> QED BY <3>1 DEF Sent
    <2>2. ASSUME NEW e \in Events, BeginDeliver(e)
          PROVE  DeliveryInv'
      BY <1>0, <2>1, <2>2, BeginStep
    <2>3. ASSUME NEW e \in Events, EndDeliver(e)
          PROVE  DeliveryInv'
      BY <1>0, <2>1, <2>3, EndStep
    <2>4. CASE CloseStep
      BY <1>0, <2>1, <2>4, CloseLeaves, AroundDelivery
    <2>5. CASE UNCHANGED vars
      BY <1>0, <2>1, <2>5, AroundDelivery DEF vars
    <2>6. ASSUME OtherStep, ~UNCHANGED vars,
                 ~ \E e \in Events : BeginDeliver(e) \/ EndDeliver(e)
          PROVE  DeliveryInv'
      <3>1. \/ \E s \in Subs, t \in Topics : StartSubscribe(s, t)
            \/ \E s \in Subs : EndSubscribe(s) \/ Receive(s)
            \/ \E e \in Events, t \in Topics : Arrive(e, t)
            \/ \E e \in Events : Enter(e) \/ EndPublish(e)
        BY <1>2, <2>6 DEF OtherStep, RunEvent
      <3> QED BY <1>0, <2>1, <3>1, AroundDelivery
    <2> QED BY <2>2, <2>3, <2>4, <2>5, <2>6, TwoKinds
  <1> QED BY <1>1, <1>2

\* The inductive invariant holds in every reachable state.
LEMMA Inductive == Spec => []Inv
  <1> USE ContentBusAssumption
  <1>1. Init => Inv
    <2> SUFFICES ASSUME Init PROVE Inv
      OBVIOUS
    <2>1. TypeOK
      <3>1. <<>> \in Seq(Events) /\ Len(<<>>) = 0 /\ channelBuffer \in Nat
        BY DEF Init
      <3>2. /\ chan \in [Subs -> Seq(Events)] /\ got \in [Subs -> Seq(Events)]
            /\ \A s \in Subs : Len(chan[s]) <= channelBuffer
        <4>1. chan = [s \in Subs |-> <<>>] /\ got = [s \in Subs |-> <<>>]
          BY DEF Init
        <4>2. \A s \in Subs : chan[s] = <<>>
          BY <4>1
        <4> QED BY <3>1, <4>1, <4>2
      <3> HIDE ContentBusAssumption
      <3>3. /\ sub \in [Subs -> {"idle", "locked", "returned", "refused"}]
            /\ topic \in [Subs \cup Events -> Topics \cup {None}]
            /\ event \in [Events -> {"idle", "arrived", "locked", "delivering", "sending",
                                     "done", "refused"}]
            /\ todo \in [Events -> SUBSET Subs]
            /\ closer \in [Closers -> {"idle", "waiting", "once", "stopping", "releasing",
                                       "returned"}]
        BY DEF Init
      <3>4. /\ dropped \in [Subs -> SUBSET Events] /\ known \in [Events -> SUBSET Subs]
            /\ past \in [Events -> SUBSET Events]
        BY DEF Init
      <3> QED BY <3>2, <3>3, <3>4 DEF Init, TypeOK
    <2>2. LockInv /\ SubInv /\ ReleaseInv
      BY DEF Init, LockInv, SubInv, ReleaseInv, Returned, Running, Readers, Events
    <2>3. \A s \in Subs : History(s) = <<>>
      <3>1. \A s \in Subs : got[s] = <<>> /\ chan[s] = <<>>
        BY DEF Init
      <3> QED BY <3>1 DEF History
    <2>4. \A e \in Events : event[e] = "idle" /\ known[e] = {} /\ past[e] = {}
      BY DEF Init
    <2>5. \A s \in Subs : DOMAIN History(s) = {}
      BY <2>3
    <2>6. EventInv
      BY <2>4, <2>5 DEF EventInv, KnownInv, PastInv, RoundInv, HistInv
    <2>7. InOrder
      BY <2>5 DEF InOrder
    <2>8. NoSilentLoss
      BY <2>4 DEF NoSilentLoss
    <2> QED BY <2>1, <2>2, <2>6, <2>7, <2>8 DEF Inv
  <1>2. Inv /\ [Next]_vars => Inv'
    BY TypeStep, LockStep, SubStep, ReleaseStep, DeliveryStep DEF Inv, DeliveryInv
  <1> QED BY <1>1, <1>2, PTL DEF Spec

--------------------------------------------------------------------------------
\* The controller's fields, and the channels with their capacity, are always of
\* their types (controller.go:78-96, 255).
THEOREM BusTypes == Spec => []TypeOK
  <1>1. Inv => TypeOK
    BY DEF Inv
  <1> QED BY <1>1, Inductive, PTL

\* No event is ever sent on a closed channel, however many publishers, peers and
\* callers of Close there are (controller.go:327, 392).
THEOREM BusNoSendOnClosed == Spec => []NoSendOnClosed
  <1>1. Inv => NoSendOnClosed
    BY DEF Inv, SubInv, NoSendOnClosed
  <1> QED BY <1>1, Inductive, PTL

\* Once a Close has returned every channel of a subscriber is closed, and no
\* Subscribe under way adds one (controller.go:241).
THEOREM BusAllClosed == Spec => []AllClosed
  <1>1. Inv => AllClosed
    BY DEF Inv, LockInv, SubInv, Readers, AllClosed
  <1> QED BY <1>1, Inductive, PTL

\* A Close that reports success has released what the controller owns
\* (controller.go:317).
THEOREM BusOkMeansReleased == Spec => []OkMeansReleased
  <1>1. Inv => OkMeansReleased
    BY DEF Inv, ReleaseInv, Returned, OkMeansReleased
  <1> QED BY <1>1, Inductive, PTL

\* Subscribers get events once, on their topic and in order (controller.go:390).
THEOREM BusInOrder == Spec => []InOrder
  <1>1. Inv => InOrder
    BY DEF Inv
  <1> QED BY <1>1, Inductive, PTL

\* A subscription that existed in time misses an event only for a full buffer
\* (controller.go:297, 378).
THEOREM BusNoSilentLoss == Spec => []NoSilentLoss
  <1>1. Inv => NoSilentLoss
    BY DEF Inv
  <1> QED BY <1>1, Inductive, PTL
================================================================================
