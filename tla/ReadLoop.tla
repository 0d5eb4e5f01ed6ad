-------------------------------- MODULE ReadLoop -------------------------------
(***************************************************************************)
(* What the readLoop goroutines of go/node/transport.go do with messages:  *)
(* the rate limiter of each connection, decryption, the                    *)
(* MessageDeduplicator that all loops share, and the handler that          *)
(* OnMessage sets.  IsDuplicate and Mark are two critical sections, and    *)
(* the handler is read in a third, so other loops, the cleanup goroutine,  *)
(* OnMessage and the clock may move between them.                          *)
(***************************************************************************)
EXTENDS RateLimiter, Sequences

CONSTANTS
    MessageIds,  \* message identifiers
    TTL,         \* d.ttl, in ticks
    NoEntry      \* no entry, no message, no handler

ASSUME ReadLoopAssumption ==
    /\ TTL \in Nat
    /\ NoEntry \notin Int \cup MessageIds

VARIABLES
    seen,   \* d.seen: [MessageIds -> time or NoEntry]
    pc,     \* pc[l]: where loop l is with its message
    msg,    \* msg[l]: its message
    since,  \* t.handler: when OnMessage first set it, NoEntry while it is nil
    marks,  \* history: marks[l][m], the times at which loop l marked m
    handled \* history: handled[l][m], which of them went to the handler

dedupVars == <<seen, pc, msg, since, marks, handled>>
readVars == <<limiterVars, dedupVars>>

LoopTypeOK ==
    /\ LimiterTypeOK
    /\ seen \in [MessageIds -> (0..now) \cup {NoEntry}]
    /\ pc \in [Loops -> {"reading", "admitted", "fresh", "marked"}]
    /\ msg \in [Loops -> MessageIds \cup {NoEntry}]
    /\ since \in (0..now) \cup {NoEntry}
    /\ marks \in [Loops -> [MessageIds -> Seq(0..now)]]
    /\ \A l \in Loops, m \in MessageIds : handled[l][m] \subseteq DOMAIN marks[l][m]

LoopInit ==
    /\ LimiterInit
    /\ seen = [m \in MessageIds |-> NoEntry]
    /\ pc = [l \in Loops |-> "reading"]
    /\ msg = [l \in Loops |-> NoEntry]
    /\ since = NoEntry
    /\ marks = [l \in Loops |-> [m \in MessageIds |-> <<>>]]
    /\ handled = [l \in Loops |-> [m \in MessageIds |-> {}]]

--------------------------------------------------------------------------------
\* ReadMessage has returned and rateLimiter.Allow() lets the message through.
Admit(l) ==
    /\ pc[l] = "reading"
    /\ AllowTrue(l)
    /\ pc' = [pc EXCEPT ![l] = "admitted"]
    /\ UNCHANGED <<seen, msg, since, marks, handled>>

\* rateLimiter.Allow() refuses: the message is dropped before it is decrypted.
RateLimited(l) ==
    /\ pc[l] = "reading"
    /\ AllowFalse(l)
    /\ UNCHANGED dedupVars

\* decryptMessage fails, or the envelope's signature is invalid.
Undecryptable(l) ==
    /\ pc[l] = "admitted"
    /\ pc' = [pc EXCEPT ![l] = "reading"]
    /\ UNCHANGED <<limiterVars, seen, msg, since, marks, handled>>

MutExpired(m) == seen[m] # NoEntry /\ now - seen[m] >= TTL

\* IsDuplicate's test of an entry that exists.
Expired(m) == seen[m] # NoEntry /\ TTL > 0 /\ now - seen[m] > TTL

\* The message has identifier m; IsDuplicate answers false, and deletes the
\* entry if there is an old one.
IsFresh(l, m) ==
    /\ pc[l] = "admitted"
    /\ seen[m] = NoEntry \/ Expired(m)
    /\ seen' = [seen EXCEPT ![m] = NoEntry]
    /\ pc' = [pc EXCEPT ![l] = "fresh"]
    /\ msg' = [msg EXCEPT ![l] = m]
    /\ UNCHANGED <<limiterVars, since, marks, handled>>

MutIsDuplicate(l, m) ==
    /\ pc[l] = "admitted"
    /\ seen[m] # NoEntry
    /\ ~Expired(m)
    /\ seen' = [seen EXCEPT ![m] = now]
    /\ pc' = [pc EXCEPT ![l] = "reading"]
    /\ UNCHANGED <<limiterVars, msg, since, marks, handled>>

\* IsDuplicate answers true: the loop goes on to the next message.
IsDuplicate(l, m) ==
    /\ pc[l] = "admitted"
    /\ seen[m] # NoEntry
    /\ ~Expired(m)
    /\ pc' = [pc EXCEPT ![l] = "reading"]
    /\ UNCHANGED <<limiterVars, seen, msg, since, marks, handled>>

\* t.dedup.Mark(msg.ID)
Mark(l) ==
    /\ pc[l] = "fresh"
    /\ seen' = [seen EXCEPT ![msg[l]] = now]
    /\ pc' = [pc EXCEPT ![l] = "marked"]
    /\ marks' = [marks EXCEPT ![l][msg[l]] = Append(@, now)]
    /\ UNCHANGED <<limiterVars, msg, since, handled>>

\* The loop is done with its message; the mark of it is the last one.
Done(l) ==
    /\ pc' = [pc EXCEPT ![l] = "reading"]
    /\ msg' = [msg EXCEPT ![l] = NoEntry]
    /\ UNCHANGED <<limiterVars, seen, since, marks>>

\* t.handler is set: handler(pc, msg) runs and returns.
Handle(l) ==
    /\ pc[l] = "marked"
    /\ since # NoEntry
    /\ handled' = [handled EXCEPT ![l][msg[l]] = @ \cup {Len(marks[l][msg[l]])}]
    /\ Done(l)

\* t.handler is still nil: the message is gone, and stays marked.
Unhandled(l) ==
    /\ pc[l] = "marked"
    /\ since = NoEntry
    /\ Done(l)
    /\ UNCHANGED handled

\* OnMessage, under t.mu.  Which handler it sets makes no difference here.
OnMessage ==
    /\ since' = IF since = NoEntry THEN now ELSE since
    /\ UNCHANGED <<limiterVars, seen, pc, msg, marks, handled>>

\* The cleanup goroutine's pass over all entries, under one lock.
Cleanup ==
    /\ \E m \in MessageIds : seen[m] # NoEntry
    /\ seen' = [m \in MessageIds |-> IF seen[m] # NoEntry /\ now - seen[m] > TTL
                                THEN NoEntry ELSE seen[m]]
    /\ UNCHANGED <<limiterVars, pc, msg, since, marks, handled>>

\* The clock, and the observer of the limiter.
Environment == (Tick \/ OpenWindow) /\ UNCHANGED dedupVars

LoopNext ==
    \/ \E l \in Loops, m \in MessageIds : IsFresh(l, m) \/ IsDuplicate(l, m)
    \/ \E l \in Loops : \/ Admit(l) \/ RateLimited(l) \/ Undecryptable(l)
                        \/ Mark(l) \/ Handle(l) \/ Unhandled(l)
    \/ OnMessage
    \/ Cleanup
    \/ Environment

LoopSpec == LoopInit /\ [][LoopNext]_readVars

--------------------------------------------------------------------------------
\* One connection never gets the same message handled twice within the TTL,
\* nor twice at the same moment, whatever the other connections, the cleanup
\* goroutine and the clock do between its IsDuplicate and its Mark
\* (transport.go:837).
OncePerConnection ==
    \A l \in Loops, m \in MessageIds : \A i, j \in DOMAIN marks[l][m] :
        i < j => marks[l][m][j] - marks[l][m][i] > TTL

\* Mark i of message m by loop l came to something: the handler got the
\* message or is about to, unless the mark is from before OnMessage.
Accounted(l, m, i) ==
    \/ i \in handled[l][m]
    \/ pc[l] = "marked" /\ msg[l] = m /\ i = Len(marks[l][m])
    \/ since = NoEntry
    \/ marks[l][m][i] <= since

\* No message is lost as a duplicate of one that nobody handled, or handled
\* too long ago: when IsDuplicate drops a message (transport.go:835), some
\* loop marked that message within the TTL and handed it to the handler or is
\* about to.  What was marked before OnMessage set a handler is excepted:
\* readLoop marks it, finds no handler, and drops its repetitions too.
DropsOnlyHandled ==
    [][\A l \in Loops, m \in MessageIds : IsDuplicate(l, m) =>
          \E k \in Loops : \E i \in DOMAIN marks[k][m] :
              /\ TTL > 0 => now - marks[k][m][i] <= TTL
              /\ Accounted(k, m, i)]_readVars
================================================================================
