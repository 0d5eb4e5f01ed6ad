------------------------------- MODULE ContentBus ------------------------------
(***************************************************************************)
(* The publish/subscribe controller of go/pkg/contentbus/controller.go:    *)
(* Subscribe, Publish, the handler it gives to the transport, the bounded  *)
(* channels of the subscribers, and Close.                                 *)
(*                                                                         *)
(* c.mu is a RWMutex: many readers or one writer, and a waiting writer     *)
(* keeps new readers out.  The transport is seen through Broadcast, which  *)
(* takes time, and Stop, which returns when no read loop runs the handler. *)
(***************************************************************************)
EXTENDS Sequences, Integers, FiniteSets

CONSTANTS
    Subs,     \* bound: calls of Subscribe
    Local,    \* bound: events given to Publish
    Remote,   \* bound: events that arrive from peers
    Closers,  \* bound: calls of Close
    Topics,   \* topics
    Buffers,  \* values of c.channelBuffer
    None      \* no topic yet

Events == Local \cup Remote

ASSUME ContentBusAssumption ==
    /\ Local \cap Remote = {} /\ Subs \cap Events = {}
    /\ IsFiniteSet(Subs) /\ IsFiniteSet(Events) /\ IsFiniteSet(Closers)
    /\ Buffers \subseteq Nat \ {0}
    /\ None \notin Topics

VARIABLES
    stops,        \* c.ownsTransport || c.startedTransport
    ownsRegistry, \* c.ownsRegistry
    channelBuffer,\* c.channelBuffer, the size of every channel
    sub,          \* sub[s]: progress of a Subscribe
    topic,        \* topic[x]: topic of a Subscribe or an event
    subscribers,  \* the channels in c.subscribers
    chan,         \* chan[s]: what is in the buffer of the channel
    shut,         \* channels that are closed
    event,        \* event[e]: progress of a Publish or a handleMessage
    todo,         \* todo[e]: subscribers that deliver has still to visit
    closed,       \* c.closed
    closer,       \* closer[k]: progress of a Close
    closeErr,     \* c.closeErr
    stopped,      \* transport.Stop has returned successfully
    released,     \* registry.Close has been called
    panicked,     \* a send on a closed channel
    got,          \* history: got[s], what the subscriber has received
    dropped,      \* history: dropped[s], events that found the buffer full
    known,        \* history: known[e], Subscribes that had returned before e
    past          \* history: past[e], events that were done before e

histVars == <<got, dropped, known, past>>
vars == <<stops, ownsRegistry, channelBuffer, sub, topic, subscribers, chan, shut, event, todo,
          closed, closer, closeErr, stopped, released, panicked, histVars>>

TypeOK ==
    /\ stops \in BOOLEAN
    /\ ownsRegistry \in BOOLEAN
    /\ channelBuffer \in Buffers
    /\ sub \in [Subs -> {"idle", "locked", "returned", "refused"}]
    /\ topic \in [Subs \cup Events -> Topics \cup {None}]
    /\ subscribers \subseteq Subs
    /\ chan \in [Subs -> Seq(Events)]
    /\ \A s \in Subs : Len(chan[s]) <= channelBuffer
    /\ shut \subseteq Subs
    /\ event \in [Events -> {"idle", "arrived", "locked", "delivering", "sending",
                             "done", "refused"}]
    /\ todo \in [Events -> SUBSET Subs]
    /\ closed \in BOOLEAN
    /\ closer \in [Closers -> {"idle", "waiting", "once", "stopping", "releasing",
                               "returned"}]
    /\ closeErr \in BOOLEAN
    /\ stopped \in BOOLEAN
    /\ released \in BOOLEAN
    /\ panicked \in BOOLEAN
    /\ got \in [Subs -> Seq(Events)]
    /\ dropped \in [Subs -> SUBSET Events]
    /\ known \in [Events -> SUBSET Subs]
    /\ past \in [Events -> SUBSET Events]

\* NewController: a registry of its own comes only with a transport of its own.
Init ==
    /\ stops \in BOOLEAN
    /\ ownsRegistry \in BOOLEAN
    /\ ownsRegistry => stops
    /\ channelBuffer \in Buffers
    /\ sub = [s \in Subs |-> "idle"]
    /\ topic = [x \in Subs \cup Events |-> None]
    /\ subscribers = {}
    /\ chan = [s \in Subs |-> <<>>]
    /\ shut = {}
    /\ event = [e \in Events |-> "idle"]
    /\ todo = [e \in Events |-> {}]
    /\ closed = FALSE
    /\ closer = [k \in Closers |-> "idle"]
    /\ closeErr = FALSE
    /\ stopped = FALSE
    /\ released = FALSE
    /\ panicked = FALSE
    /\ got = [s \in Subs |-> <<>>]
    /\ dropped = [s \in Subs |-> {}]
    /\ known = [e \in Events |-> {}]
    /\ past = [e \in Events |-> {}]

--------------------------------------------------------------------------------
(* c.mu. *)

MutReadersNoSub == {e \in Events : event[e] \in {"locked", "delivering", "sending"}}
MutReadersEarly ==
    {s \in Subs : sub[s] = "locked"} \cup {e \in Events : event[e] \in {"locked", "sending"}}

\* Calls that hold c.mu for reading.
Readers ==
    {s \in Subs : sub[s] = "locked"}
      \cup {e \in Events : event[e] \in {"locked", "delivering", "sending"}}

MutCanRLock == \A k \in Closers : closer[k] \notin {"waiting", "stopping"}

\* c.mu.RLock() gets through: no writer waits.  A writer does all it has to do
\* under the lock in one step.
CanRLock == \A k \in Closers : closer[k] # "waiting"

--------------------------------------------------------------------------------
(* Subscribe. *)

\* Take c.mu and look at c.closed.
StartSubscribe(s, t) ==
    /\ sub[s] = "idle"
    /\ CanRLock
    /\ sub' = [sub EXCEPT ![s] = IF closed THEN "refused" ELSE "locked"]
    /\ topic' = [topic EXCEPT ![s] = t]
    /\ UNCHANGED <<stops, ownsRegistry, channelBuffer, subscribers, chan, shut, event,
                   todo, closed, closer, closeErr, stopped, released, panicked,
                   histVars>>

\* Put a new channel into the map under c.subsMu, and return it.
EndSubscribe(s) ==
    /\ sub[s] = "locked"
    /\ \A e \in Events : event[e] # "delivering"
    /\ sub' = [sub EXCEPT ![s] = "returned"]
    /\ subscribers' = subscribers \cup {s}
    /\ UNCHANGED <<stops, ownsRegistry, channelBuffer, topic, chan, shut, event, todo,
                   closed, closer, closeErr, stopped, released, panicked, histVars>>

\* The subscriber reads its channel.
Receive(s) ==
    /\ chan[s] # <<>>
    /\ got' = [got EXCEPT ![s] = Append(@, Head(chan[s]))]
    /\ chan' = [chan EXCEPT ![s] = Tail(@)]
    /\ UNCHANGED <<stops, ownsRegistry, channelBuffer, sub, topic, subscribers, shut,
                   event, todo, closed, closer, closeErr, stopped, released, panicked,
                   dropped, known, past>>

--------------------------------------------------------------------------------
(* Publish and handleMessage. *)

\* Publish is called, or a read loop hands a content event to handleMessage.
Arrive(e, t) ==
    /\ event[e] = "idle"
    /\ e \in Remote => ~stopped
    /\ event' = [event EXCEPT ![e] = "arrived"]
    /\ topic' = [topic EXCEPT ![e] = t]
    /\ known' = [known EXCEPT ![e] = {s \in Subs : sub[s] = "returned"}]
    /\ past' = [past EXCEPT ![e] = {d \in Events : event[d] = "done"}]
    /\ UNCHANGED <<stops, ownsRegistry, channelBuffer, sub, subscribers, chan, shut,
                   todo, closed, closer, closeErr, stopped, released, panicked, got,
                   dropped>>

MutEnter(e) ==
    /\ event[e] = "arrived"
    /\ CanRLock
    /\ event' = [event EXCEPT ![e] = "locked"]
    /\ UNCHANGED <<stops, ownsRegistry, channelBuffer, sub, topic, subscribers, chan,
                   shut, todo, closed, closer, closeErr, stopped, released, panicked,
                   histVars>>

\* Take c.mu and look at c.closed; Publish may also find no identity.
Enter(e) ==
    /\ event[e] = "arrived"
    /\ CanRLock
    /\ \/ ~closed /\ event' = [event EXCEPT ![e] = "locked"]
       \/ /\ closed \/ e \in Local
          /\ event' = [event EXCEPT ![e] = "refused"]
    /\ UNCHANGED <<stops, ownsRegistry, channelBuffer, sub, topic, subscribers, chan,
                   shut, todo, closed, closer, closeErr, stopped, released, panicked,
                   histVars>>

Addressees(e) == {s \in subscribers : topic[s] = topic[e]}

\* deliver takes c.subsMu for reading and ranges over the topic's channels.
BeginDeliver(e) ==
    /\ event[e] = "locked"
    /\ event' = [event EXCEPT ![e] = "delivering"]
    /\ todo' = [todo EXCEPT ![e] = Addressees(e)]
    /\ UNCHANGED <<stops, ownsRegistry, channelBuffer, sub, topic, subscribers, chan,
                   shut, closed, closer, closeErr, stopped, released, panicked,
                   histVars>>

HasRoom(s) == Len(chan[s]) < channelBuffer

MutDeliverTo(e, s) ==
    /\ event[e] = "delivering"
    /\ s \in todo[e]
    /\ todo' = [todo EXCEPT ![e] = @ \ {s}]
    /\ panicked' = (panicked \/ s \in shut)
    /\ IF HasRoom(s)
         THEN chan' = [chan EXCEPT ![s] = <<e>> \o @] /\ UNCHANGED dropped
         ELSE dropped' = [dropped EXCEPT ![s] = @ \cup {e}] /\ UNCHANGED chan
    /\ UNCHANGED <<stops, ownsRegistry, channelBuffer, sub, topic, subscribers, shut,
                   event, closed, closer, closeErr, stopped, released, got, known,
                   past>>

\* One round of deliver's loop: a full channel takes the default case, a closed
\* one panics.
DeliverTo(e, s) ==
    /\ event[e] = "delivering"
    /\ s \in todo[e]
    /\ todo' = [todo EXCEPT ![e] = @ \ {s}]
    /\ panicked' = (panicked \/ s \in shut)
    /\ IF HasRoom(s)
         THEN chan' = [chan EXCEPT ![s] = Append(@, e)] /\ UNCHANGED dropped
         ELSE dropped' = [dropped EXCEPT ![s] = @ \cup {e}] /\ UNCHANGED chan
    /\ UNCHANGED <<stops, ownsRegistry, channelBuffer, sub, topic, subscribers, shut,
                   event, closed, closer, closeErr, stopped, released, got, known,
                   past>>

\* deliver returns; Publish goes on to Broadcast, handleMessage returns.
EndDeliver(e) ==
    /\ event[e] = "delivering"
    /\ todo[e] = {}
    /\ event' = [event EXCEPT ![e] = IF e \in Local THEN "sending" ELSE "done"]
    /\ UNCHANGED <<stops, ownsRegistry, channelBuffer, sub, topic, subscribers, chan,
                   shut, todo, closed, closer, closeErr, stopped, released, panicked,
                   histVars>>

\* Broadcast has written to every peer, or failed to: Publish returns.
EndPublish(e) ==
    /\ event[e] = "sending"
    /\ event' = [event EXCEPT ![e] = "done"]
    /\ UNCHANGED <<stops, ownsRegistry, channelBuffer, sub, topic, subscribers, chan,
                   shut, todo, closed, closer, closeErr, stopped, released, panicked,
                   histVars>>

--------------------------------------------------------------------------------
(* Close. *)

\* The first caller runs the function under closeOnce, the others wait for it.
StartClose(k) ==
    /\ closer[k] = "idle"
    /\ closer' = [closer EXCEPT ![k] =
                     IF \A j \in Closers : closer[j] = "idle" THEN "waiting" ELSE "once"]
    /\ UNCHANGED <<stops, ownsRegistry, channelBuffer, sub, topic, subscribers, chan,
                   shut, event, todo, closed, closeErr, stopped, released, panicked,
                   histVars>>

\* Under c.mu and c.subsMu: set c.closed, close and forget every channel.
CloseChannels(k) ==
    /\ closer[k] = "waiting"
    /\ Readers = {}
    /\ closer' = [closer EXCEPT ![k] = "stopping"]
    /\ closed' = TRUE
    /\ shut' = shut \cup subscribers
    /\ subscribers' = {}
    /\ UNCHANGED <<stops, ownsRegistry, channelBuffer, sub, topic, chan, event, todo,
                   closeErr, stopped, released, panicked, histVars>>

\* transport.Stop, if it is ours to stop, waits for the read loops and with
\* them for every handleMessage under way.
StopTransport(k) ==
    /\ closer[k] = "stopping"
    /\ stops => \A e \in Remote : event[e] \in {"idle", "done", "refused"}
    /\ stopped' = stops
    /\ closer' = [closer EXCEPT ![k] = "releasing"]
    /\ UNCHANGED <<stops, ownsRegistry, channelBuffer, sub, topic, subscribers, chan,
                   shut, event, todo, closed, closeErr, released, panicked, histVars>>

MutStopFails(k) ==
    /\ closer[k] = "stopping"
    /\ stops
    /\ closer' = [closer EXCEPT ![k] = "returned"]
    /\ UNCHANGED <<stops, ownsRegistry, channelBuffer, sub, topic, subscribers, chan,
                   shut, event, todo, closed, closeErr, stopped, released, panicked,
                   histVars>>

\* Stop fails: Close gives up.
StopFails(k) ==
    /\ closer[k] = "stopping"
    /\ stops
    /\ closeErr' = TRUE
    /\ closer' = [closer EXCEPT ![k] = "returned"]
    /\ UNCHANGED <<stops, ownsRegistry, channelBuffer, sub, topic, subscribers, chan,
                   shut, event, todo, closed, stopped, released, panicked, histVars>>

\* Close the registry if it is ours; that may fail.
ReleaseRegistry(k) ==
    /\ closer[k] = "releasing"
    /\ released' = ownsRegistry
    /\ closeErr' \in {closeErr, closeErr \/ ownsRegistry}
    /\ closer' = [closer EXCEPT ![k] = "returned"]
    /\ UNCHANGED <<stops, ownsRegistry, channelBuffer, sub, topic, subscribers, chan,
                   shut, event, todo, closed, stopped, panicked, histVars>>

\* closeOnce is done.
OnceDone(k) ==
    /\ closer[k] = "once"
    /\ \E j \in Closers : closer[j] = "returned"
    /\ closer' = [closer EXCEPT ![k] = "returned"]
    /\ UNCHANGED <<stops, ownsRegistry, channelBuffer, sub, topic, subscribers, chan,
                   shut, event, todo, closed, closeErr, stopped, released, panicked,
                   histVars>>

--------------------------------------------------------------------------------
RunEvent(e) ==
    \/ Enter(e) \/ BeginDeliver(e) \/ (\E s \in Subs : DeliverTo(e, s))
    \/ EndDeliver(e) \/ EndPublish(e)

RunClose(k) == CloseChannels(k) \/ StopTransport(k) \/ ReleaseRegistry(k) \/ OnceDone(k)

\* Everything that was called has returned.
Quiet ==
    /\ \A s \in Subs : sub[s] \in {"returned", "refused"} /\ chan[s] = <<>>
    /\ \A e \in Events : event[e] \in {"done", "refused"} \/ (e \in Remote /\ stopped)
    /\ \A k \in Closers : closer[k] = "returned"
    /\ UNCHANGED vars

Next ==
    \/ \E s \in Subs, t \in Topics : StartSubscribe(s, t)
    \/ \E s \in Subs : EndSubscribe(s) \/ Receive(s)
    \/ \E e \in Events, t \in Topics : Arrive(e, t)
    \/ \E e \in Events : RunEvent(e)
    \/ \E k \in Closers : StartClose(k) \/ RunClose(k) \/ StopFails(k)
    \/ Quiet

Spec == Init /\ [][Next]_vars

\* Calls under way go on: a write of Broadcast has a deadline, and read loops
\* end once the transport is cancelled.  Nothing forces a call, a read of a
\* channel, or Stop to fail.
Fairness ==
    /\ \A s \in Subs : WF_vars(EndSubscribe(s))
    /\ \A e \in Events : WF_vars(RunEvent(e))
    /\ \A k \in Closers : WF_vars(RunClose(k))

FairSpec == Spec /\ Fairness

--------------------------------------------------------------------------------
\* Everything that subscriber s was ever sent, in order.
History(s) == got[s] \o chan[s]
Sent(s) == {History(s)[i] : i \in DOMAIN History(s)}

\* No event is sent on a closed channel, which would panic, however Publish,
\* remote events and Close interleave (controller.go:327, 392).
NoSendOnClosed == ~panicked

\* "The returned channel is closed when the controller is closed"
\* (controller.go:241): once any Close has returned, also one that only waited
\* for another, every channel that Subscribe has returned or will return is
\* closed.  No consumer waits on a channel that nobody will ever close.
AllClosed ==
    (\E k \in Closers : closer[k] = "returned")
      => \A s \in Subs : sub[s] # "locked" /\ (sub[s] = "returned" => s \in shut)

\* A subscriber gets an event at most once, only on its own topic, and the
\* events of calls that followed one another in that order, whatever it was
\* that its full buffer made it miss (controller.go:390).
InOrder ==
    \A s \in Subs :
      LET h == History(s) IN
        /\ \A i, j \in DOMAIN h : i # j => h[i] # h[j]
        /\ \A i \in DOMAIN h : topic[h[i]] = topic[s]
        /\ \A i, j \in DOMAIN h : h[i] \in past[h[j]] => i < j

\* A subscription that existed when an event was published misses it only
\* because its buffer was full: no Subscribe, Close or other event under way
\* at the same time can take it away (controller.go:297, 378).
NoSilentLoss ==
    \A e \in Events : event[e] \in {"sending", "done"} =>
      \A s \in known[e] : topic[s] = topic[e] => e \in Sent(s) \cup dropped[s]

\* "Close releases controller-owned resources" (controller.go:317): when a Close
\* reports success, also one that only waited for another, the registry and the
\* transport that are the controller's are closed and no read loop is in its
\* handler.  When Stop fails Close gives up, and only reports the failure.
OkMeansReleased ==
    (\E k \in Closers : closer[k] = "returned") /\ ~closeErr
      => /\ ownsRegistry => released
         /\ stops => \A e \in Remote : event[e] \in {"idle", "done", "refused"}

\* Every Close returns, although it waits for publishers to leave and then for
\* read loops that may themselves be waiting for c.mu (controller.go:333, 336).
CloseReturns == []<>(\A k \in Closers : closer[k] \in {"idle", "returned"})
================================================================================
