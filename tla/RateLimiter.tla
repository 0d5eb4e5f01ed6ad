------------------------------ MODULE RateLimiter ------------------------------
(***************************************************************************)
(* PeerRateLimiter of go/node/transport.go: the token bucket that every    *)
(* PeerConnection carries and that its readLoop consults before it         *)
(* decrypts.  Time is counted in ticks of the monotonic clock, Second      *)
(* ticks to a second, so that the truncation of int(elapsed.Seconds()) is  *)
(* visible.  ReadLoop extends this module with the loops themselves.       *)
(***************************************************************************)
EXTENDS Integers

CONSTANTS
    Loops,       \* read loops, one per connection, each with its limiter
    Watched,     \* the connection that the observer of WindowBound counts
    MaxTokens,   \* bucket size, the burst (100 in Connect and handleWSUpgrade)
    RefillRate,  \* tokens per second (50 in Connect and handleWSUpgrade)
    Second,      \* ticks in one second
    MaxTime      \* bound of the clock in a model

ASSUME LimiterAssumption ==
    /\ Watched \in Loops
    /\ MaxTokens \in Nat
    /\ RefillRate \in Nat
    /\ Second \in Nat \ {0}
    /\ MaxTime \in Nat

VARIABLES
    tokens,      \* tokens[l]: r.tokens
    lastRefill,  \* lastRefill[l]: r.lastRefill
    now,         \* time.Now()
    winStart,    \* history: when the observed window opened
    winAdmitted  \* history: Allow() calls of Watched answered true since then

limiterVars == <<tokens, lastRefill, now, winStart, winAdmitted>>

LimiterTypeOK ==
    /\ tokens \in [Loops -> 0..MaxTokens]
    /\ now \in Nat
    /\ lastRefill \in [Loops -> 0..now]
    /\ winStart \in 0..now
    /\ winAdmitted \in Nat

--------------------------------------------------------------------------------
\* NewPeerRateLimiter: a full bucket, refilled now.
LimiterInit ==
    /\ tokens = [l \in Loops |-> MaxTokens]
    /\ lastRefill = [l \in Loops |-> 0]
    /\ now = 0
    /\ winStart = 0
    /\ winAdmitted = 0

\* int(elapsed.Seconds()) * r.refillRate
TokensToAdd(l) == ((now - lastRefill[l]) \div Second) * RefillRate

Smaller(a, b) == IF a < b THEN a ELSE b

\* r.tokens after the refill at the head of Allow.
Refilled(l) ==
    IF TokensToAdd(l) > 0
      THEN Smaller(tokens[l] + TokensToAdd(l), MaxTokens) ELSE tokens[l]

MutLastRefilledStuck(l) == lastRefill[l]

\* r.lastRefill moves only when at least one token was added.
LastRefilled(l) == IF TokensToAdd(l) > 0 THEN now ELSE lastRefill[l]

\* Allow returns true and consumes a token.
AllowTrue(l) ==
    /\ Refilled(l) > 0
    /\ tokens' = [tokens EXCEPT ![l] = Refilled(l) - 1]
    /\ lastRefill' = [lastRefill EXCEPT ![l] = LastRefilled(l)]
    /\ winAdmitted' = IF l = Watched THEN winAdmitted + 1 ELSE winAdmitted
    /\ UNCHANGED <<now, winStart>>

\* Allow returns false: readLoop drops the message.
AllowFalse(l) ==
    /\ Refilled(l) <= 0
    /\ tokens' = [tokens EXCEPT ![l] = Refilled(l)]
    /\ lastRefill' = [lastRefill EXCEPT ![l] = LastRefilled(l)]
    /\ UNCHANGED <<now, winStart, winAdmitted>>

\* The clock moves on.
Tick ==
    /\ now < MaxTime
    /\ now' = now + 1
    /\ UNCHANGED <<tokens, lastRefill, winStart, winAdmitted>>

\* An observer starts to count admitted messages from here.
OpenWindow ==
    /\ winStart' = now
    /\ winAdmitted' = 0
    /\ UNCHANGED <<tokens, lastRefill, now>>

LimiterNext ==
    \/ \E l \in Loops : AllowTrue(l) \/ AllowFalse(l)
    \/ Tick
    \/ OpenWindow

LimiterSpec == LimiterInit /\ [][LimiterNext]_limiterVars

--------------------------------------------------------------------------------
\* Whole seconds since the window opened.
WindowSeconds == (now - winStart) \div Second

\* In every window of time, wherever it starts, a connection gets at most one
\* burst plus the refill of the seconds begun in the window past the limiter
\* of readLoop: truncated seconds, idle periods and late refills never add up
\* to more than that.
WindowBound ==
    winAdmitted <= MaxTokens + RefillRate * (WindowSeconds + 1)
================================================================================
