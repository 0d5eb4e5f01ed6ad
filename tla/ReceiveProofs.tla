------------------------------ MODULE ReceiveProofs ----------------------------
(***************************************************************************)
(* What a node does with what arrives.  The rate limiter's window bound,   *)
(* for every bucket size, refill rate, clock resolution and length of run; *)
(* the read loops, which keep that bound and handle a message once, for    *)
(* every number of connections and messages and every time to live; and    *)
(* the UEPS dispatcher, for every stream of packets, every damage on the   *)
(* way that changes no length, and every schedule of registrations and     *)
(* iterations.                                                             *)
(***************************************************************************)
EXTENDS ReadLoop, Ueps, WellFoundedInduction, TLAPS

\* The strengthening that makes WindowBound inductive.  As long as nothing was
\* refilled inside the window, what was admitted came out of the bucket as it
\* stood; and once something was admitted without a refill, the last refill is
\* less than a second older than the window.
WindowBudget ==
    /\ lastRefill[Watched] < winStart =>
          /\ winAdmitted + tokens[Watched] <= MaxTokens
          /\ winAdmitted > 0 /\ RefillRate > 0 => winStart - lastRefill[Watched] < Second
    /\ lastRefill[Watched] >= winStart =>
          winAdmitted + tokens[Watched]
            <= MaxTokens + RefillRate * (((lastRefill[Watched] - winStart) \div Second) + 1)


\* A quotient by Second is a natural number, and splits its dividend.
LEMMA Quotient ==
    ASSUME NEW a \in Nat
    PROVE  /\ a \div Second \in Nat
           /\ Second * (a \div Second) <= a
           /\ a < Second * (a \div Second) + Second
BY LimiterAssumption

\* Whole seconds of two consecutive stretches of time never exceed the whole
\* seconds of both together.
LEMMA QuotientsAdd ==
    ASSUME NEW a \in Nat, NEW b \in Nat
    PROVE  (a \div Second) + (b \div Second) <= (a + b) \div Second
<1> DEFINE qa == a \div Second
           qb == b \div Second
           qs == (a + b) \div Second
<1>1. /\ qa \in Nat /\ Second * qa <= a
      /\ qb \in Nat /\ Second * qb <= b
  BY Quotient
<1>2. a + b \in Nat
  OBVIOUS
<1>3. qs \in Nat /\ a + b < Second * qs + Second
  BY <1>2, Quotient
<1> HIDE DEF qa, qb, qs
<1>4. Second * (qa + qb) < Second * (qs + 1)
  BY <1>1, <1>3, LimiterAssumption
<1>5. qa + qb < qs + 1
  BY <1>1, <1>3, <1>4, LimiterAssumption
<1> QED BY <1>1, <1>3, <1>5 DEF qa, qb, qs

\* A longer stretch has no fewer whole seconds.
LEMMA QuotientMonotone ==
    ASSUME NEW a \in Nat, NEW b \in Nat, a <= b
    PROVE  a \div Second <= b \div Second
<1>1. b - a \in Nat /\ a + (b - a) = b
  OBVIOUS
<1>2. (a \div Second) + ((b - a) \div Second) <= b \div Second
  BY <1>1, QuotientsAdd
<1> QED BY <1>1, <1>2, Quotient

\* Less than a second more adds at most one whole second.
LEMMA QuotientStep ==
    ASSUME NEW a \in Nat, NEW d \in Nat, d < Second
    PROVE  (a + d) \div Second <= (a \div Second) + 1
<1> DEFINE qa == a \div Second
           qs == (a + d) \div Second
<1>1. qa \in Nat /\ a < Second * qa + Second
  BY Quotient
<1>2. a + d \in Nat
  OBVIOUS
<1>3. qs \in Nat /\ Second * qs <= a + d
  BY <1>2, Quotient
<1> HIDE DEF qa, qs
<1>4. Second * qs < Second * (qa + 2)
  BY <1>1, <1>3, LimiterAssumption
<1>5. qs < qa + 2
  BY <1>1, <1>3, <1>4, LimiterAssumption
<1> QED BY <1>1, <1>3, <1>5 DEF qa, qs

\* More seconds never earn fewer tokens.
LEMMA RateMonotone ==
    ASSUME NEW m \in Nat, NEW n \in Nat, m <= n
    PROVE  /\ RefillRate * m \in Nat
           /\ RefillRate * m <= RefillRate * n
BY LimiterAssumption

--------------------------------------------------------------------------------
\* What the head of Allow leaves in the bucket: between nothing and a full
\* bucket, and no more than the seconds since the last refill earned.
LEMMA RefillFacts ==
    ASSUME LimiterTypeOK, NEW l \in Loops
    PROVE  /\ TokensToAdd(l) \in Nat
           /\ Refilled(l) \in 0..MaxTokens
           /\ Refilled(l) <= tokens[l] + TokensToAdd(l)
           /\ LastRefilled(l) \in 0..now
<1>1. /\ now \in Nat /\ lastRefill[l] \in 0..now
      /\ tokens[l] \in 0..MaxTokens
  BY DEF LimiterTypeOK
<1>2. now - lastRefill[l] \in Nat
  BY <1>1
<1>3. (now - lastRefill[l]) \div Second \in Nat
  BY <1>2, Quotient
<1>4. TokensToAdd(l) \in Nat
  BY <1>3, LimiterAssumption DEF TokensToAdd
<1> QED BY <1>1, <1>4, LimiterAssumption DEF Refilled, LastRefilled, Smaller

\* The buckets, the clock and the window keep their ranges: tokens stay between
\* zero and the burst, and no time stamp lies in the future.
THEOREM LimiterTypes == LimiterSpec => []LimiterTypeOK
<1>1. LimiterInit => LimiterTypeOK
  BY LimiterAssumption DEF LimiterInit, LimiterTypeOK
<1>2. LimiterTypeOK /\ [LimiterNext]_limiterVars => LimiterTypeOK'
  <2> SUFFICES ASSUME LimiterTypeOK, [LimiterNext]_limiterVars PROVE LimiterTypeOK'
    OBVIOUS
  <2>1. ASSUME NEW l \in Loops, AllowTrue(l) PROVE LimiterTypeOK'
    <3>1. Refilled(l) - 1 \in 0..MaxTokens /\ LastRefilled(l) \in 0..now
      BY <2>1, RefillFacts, LimiterAssumption DEF AllowTrue
    <3> QED BY <2>1, <3>1 DEF AllowTrue, LimiterTypeOK
  <2>2. ASSUME NEW l \in Loops, AllowFalse(l) PROVE LimiterTypeOK'
    <3>1. Refilled(l) \in 0..MaxTokens /\ LastRefilled(l) \in 0..now
      BY RefillFacts
    <3> QED BY <2>2, <3>1 DEF AllowFalse, LimiterTypeOK
  <2>3. CASE Tick
    BY <2>3 DEF Tick, LimiterTypeOK
  <2>4. CASE OpenWindow
    BY <2>4 DEF OpenWindow, LimiterTypeOK
  <2>5. CASE UNCHANGED limiterVars
    BY <2>5 DEF limiterVars, LimiterTypeOK
  <2> QED BY <2>1, <2>2, <2>3, <2>4, <2>5 DEF LimiterNext
<1> QED BY <1>1, <1>2, PTL DEF LimiterSpec

\* What the type invariant says of the watched connection.
LEMMA WatchedTypes ==
    ASSUME LimiterTypeOK
    PROVE  /\ tokens[Watched] \in 0..MaxTokens
           /\ now \in Nat
           /\ lastRefill[Watched] \in 0..now
           /\ winStart \in 0..now
           /\ winAdmitted \in Nat
           /\ TokensToAdd(Watched) \in Nat
           /\ Refilled(Watched) \in 0..MaxTokens
           /\ Refilled(Watched) <= tokens[Watched] + TokensToAdd(Watched)
           /\ LastRefilled(Watched) \in 0..now
BY RefillFacts, LimiterAssumption DEF LimiterTypeOK

\* The budget after a call of Allow, whether it admits or not: what was
\* admitted before it plus the refilled bucket is covered.
LEMMA AllowKeepsBudget ==
    ASSUME LimiterTypeOK, WindowBudget
    PROVE  /\ LastRefilled(Watched) < winStart =>
                 /\ winAdmitted + Refilled(Watched) <= MaxTokens
                 /\ RefillRate > 0 => winStart - LastRefilled(Watched) < Second
           /\ LastRefilled(Watched) >= winStart =>
                 winAdmitted + Refilled(Watched)
                   <= MaxTokens + RefillRate * (((LastRefilled(Watched) - winStart) \div Second) + 1)
<1>1. /\ now - lastRefill[Watched] \in Nat
      /\ now - winStart \in Nat
      /\ (now - lastRefill[Watched]) \div Second \in Nat
      /\ (now - winStart) \div Second \in Nat
  BY Quotient, WatchedTypes
<1>2. CASE TokensToAdd(Watched) > 0
  <2>1. /\ LastRefilled(Watched) = now
        /\ Refilled(Watched) <= MaxTokens
        /\ Refilled(Watched) <= tokens[Watched] + TokensToAdd(Watched)
    BY <1>2, WatchedTypes DEF LastRefilled
  <2>2. RefillRate * (((now - winStart) \div Second) + 1) \in Nat
    BY <1>1, LimiterAssumption
  <2>3. winAdmitted + Refilled(Watched)
          <= MaxTokens + RefillRate * (((now - winStart) \div Second) + 1)
    <3>1. CASE winAdmitted = 0
      BY <3>1, <2>1, <2>2, WatchedTypes, LimiterAssumption
    <3>2. CASE lastRefill[Watched] < winStart /\ winAdmitted > 0
      <4>1. RefillRate > 0
        BY <1>1, <1>2, LimiterAssumption DEF TokensToAdd
      <4>2. winStart - lastRefill[Watched] \in Nat /\ winStart - lastRefill[Watched] < Second
        BY <3>2, <4>1, WatchedTypes DEF WindowBudget
      <4>3. (now - winStart) + (winStart - lastRefill[Watched]) = now - lastRefill[Watched]
        BY WatchedTypes
      <4>4. (now - lastRefill[Watched]) \div Second <= ((now - winStart) \div Second) + 1
        BY <1>1, <4>2, <4>3, QuotientStep
      <4>5. TokensToAdd(Watched) <= RefillRate * (((now - winStart) \div Second) + 1)
        BY <1>1, <4>4, RateMonotone, LimiterAssumption DEF TokensToAdd
      <4>6. winAdmitted + tokens[Watched] <= MaxTokens
        BY <3>2 DEF WindowBudget
      <4> QED BY <2>1, <2>2, <4>5, <4>6, WatchedTypes, LimiterAssumption
    <3>3. CASE lastRefill[Watched] >= winStart
      <4>1. lastRefill[Watched] - winStart \in Nat
            /\ (lastRefill[Watched] - winStart) + (now - lastRefill[Watched]) = now - winStart
        BY <3>3, WatchedTypes
      <4>2. (lastRefill[Watched] - winStart) \div Second \in Nat
        BY <4>1, Quotient
      <4>3. ((lastRefill[Watched] - winStart) \div Second) + ((now - lastRefill[Watched]) \div Second)
              <= (now - winStart) \div Second
        BY <1>1, <4>1, QuotientsAdd
      <4>4. RefillRate * (((lastRefill[Watched] - winStart) \div Second)
                            + ((now - lastRefill[Watched]) \div Second) + 1)
              <= RefillRate * (((now - winStart) \div Second) + 1)
        BY <1>1, <4>2, <4>3, RateMonotone
      <4>5. RefillRate * (((lastRefill[Watched] - winStart) \div Second) + 1) + TokensToAdd(Watched)
              <= RefillRate * (((now - winStart) \div Second) + 1)
        BY <1>1, <4>2, <4>4, LimiterAssumption DEF TokensToAdd
      <4>6. winAdmitted + tokens[Watched]
              <= MaxTokens + RefillRate * (((lastRefill[Watched] - winStart) \div Second) + 1)
        BY <3>3 DEF WindowBudget
      <4>7. RefillRate * (((lastRefill[Watched] - winStart) \div Second) + 1) \in Nat
        BY <4>2, LimiterAssumption
      <4> QED BY <2>1, <2>2, <4>5, <4>6, <4>7, WatchedTypes, LimiterAssumption
    <3> QED BY <3>1, <3>2, <3>3, WatchedTypes
  <2> QED BY <2>1, <2>3, WatchedTypes
<1>3. CASE ~(TokensToAdd(Watched) > 0)
  <2>1. LastRefilled(Watched) = lastRefill[Watched] /\ Refilled(Watched) = tokens[Watched]
    BY <1>3 DEF LastRefilled, Refilled
  <2>2. RefillRate > 0 => now - lastRefill[Watched] < Second
    <3>1. RefillRate > 0 => (now - lastRefill[Watched]) \div Second = 0
      BY <1>1, <1>3, LimiterAssumption DEF TokensToAdd
    <3> QED BY <1>1, <3>1, Quotient, LimiterAssumption
  <2> QED BY <2>1, <2>2, LimiterAssumption, WatchedTypes DEF WindowBudget
<1> QED BY <1>2, <1>3

\* The inductive invariant: at all times the admitted messages and the tokens
\* left are covered by one burst and the seconds refilled in the window.
LEMMA LimiterBudget == LimiterSpec => []WindowBudget
<1>1. LimiterInit => WindowBudget
  <2> SUFFICES ASSUME LimiterInit PROVE WindowBudget
    OBVIOUS
  <2>1. (0 \div Second) \in Nat
    BY Quotient
  <2>2. RefillRate * ((0 \div Second) + 1) \in Nat
    BY <2>1, LimiterAssumption
  <2> QED BY <2>2, LimiterAssumption DEF LimiterInit, WindowBudget
<1>2. LimiterTypeOK /\ WindowBudget /\ [LimiterNext]_limiterVars => WindowBudget'
  <2> SUFFICES ASSUME LimiterTypeOK, WindowBudget, [LimiterNext]_limiterVars
               PROVE  WindowBudget'
    OBVIOUS
  <2>1. Watched \in DOMAIN tokens /\ Watched \in DOMAIN lastRefill
    BY LimiterAssumption DEF LimiterTypeOK
  <2>2. CASE AllowTrue(Watched)
    BY <2>1, <2>2, AllowKeepsBudget, WatchedTypes DEF AllowTrue, WindowBudget
  <2>3. CASE AllowFalse(Watched)
    BY <2>1, <2>3, AllowKeepsBudget, WatchedTypes DEF AllowFalse, WindowBudget
  <2>4. ASSUME NEW l \in Loops, l # Watched, AllowTrue(l) \/ AllowFalse(l)
        PROVE  WindowBudget'
    <3>1. /\ tokens'[Watched] = tokens[Watched]
          /\ lastRefill'[Watched] = lastRefill[Watched]
          /\ UNCHANGED <<winStart, winAdmitted>>
      BY <2>1, <2>4 DEF AllowTrue, AllowFalse
    <3> QED BY <3>1 DEF WindowBudget
  <2>5. CASE Tick
    BY <2>5 DEF Tick, WindowBudget
  <2>6. CASE OpenWindow
    <3>1. (lastRefill[Watched] - now) \in Nat =>
            (lastRefill[Watched] - now) \div Second \in Nat
      BY Quotient
    <3>2. lastRefill[Watched] >= now =>
            RefillRate * (((lastRefill[Watched] - now) \div Second) + 1) \in Nat
      BY <3>1, LimiterAssumption, WatchedTypes
    <3> QED BY <2>6, <3>2, LimiterAssumption, WatchedTypes DEF OpenWindow, WindowBudget
  <2>7. CASE UNCHANGED limiterVars
    BY <2>7 DEF limiterVars, WindowBudget
  <2> QED BY <2>2, <2>3, <2>4, <2>5, <2>6, <2>7 DEF LimiterNext
<1> QED BY <1>1, <1>2, LimiterTypes, PTL DEF LimiterSpec

\* In every window of time readLoop lets at most one burst plus the refill of
\* the seconds begun in the window through.
THEOREM LimiterWindowBound == LimiterSpec => []WindowBound
<1>1. LimiterTypeOK /\ WindowBudget => WindowBound
  <2> SUFFICES ASSUME LimiterTypeOK, WindowBudget PROVE WindowBound
    OBVIOUS
  <2>1. now - winStart \in Nat /\ WindowSeconds \in Nat
    BY Quotient, WatchedTypes DEF WindowSeconds
  <2>2. RefillRate * (WindowSeconds + 1) \in Nat
    BY <2>1, LimiterAssumption
  <2>3. CASE lastRefill[Watched] < winStart
    BY <2>2, <2>3, LimiterAssumption, WatchedTypes DEF WindowBudget, WindowBound
  <2>4. CASE lastRefill[Watched] >= winStart
    <3>1. lastRefill[Watched] - winStart \in Nat /\ lastRefill[Watched] - winStart <= now - winStart
      BY <2>4, WatchedTypes
    <3>2. /\ (lastRefill[Watched] - winStart) \div Second \in Nat
          /\ (lastRefill[Watched] - winStart) \div Second <= WindowSeconds
      BY <2>1, <3>1, Quotient, QuotientMonotone DEF WindowSeconds
    <3>3. RefillRate * (((lastRefill[Watched] - winStart) \div Second) + 1)
            <= RefillRate * (WindowSeconds + 1)
      BY <2>1, <3>2, RateMonotone
    <3>4. RefillRate * (((lastRefill[Watched] - winStart) \div Second) + 1) \in Nat
      BY <3>2, LimiterAssumption
    <3>5. winAdmitted + tokens[Watched]
            <= MaxTokens + RefillRate * (((lastRefill[Watched] - winStart) \div Second) + 1)
      BY <2>4 DEF WindowBudget
    <3> QED BY <2>2, <3>3, <3>4, <3>5, LimiterAssumption, WatchedTypes DEF WindowBound
  <2> QED BY <2>3, <2>4, WatchedTypes
<1> QED BY <1>1, LimiterTypes, LimiterBudget, PTL

--------------------------------------------------------------------------------
\* Every step of the loops is a step of the limiter or leaves it alone.
LEMMA LoopStepIsLimiterStep == [LoopNext]_readVars => [LimiterNext]_limiterVars
<1> SUFFICES ASSUME [LoopNext]_readVars PROVE [LimiterNext]_limiterVars
  OBVIOUS
<1>1. ASSUME NEW l \in Loops, Admit(l) \/ RateLimited(l) PROVE LimiterNext
  BY <1>1 DEF Admit, RateLimited, LimiterNext
<1>2. ASSUME NEW l \in Loops, Undecryptable(l) \/ Mark(l) \/ Handle(l) \/ Unhandled(l)
      PROVE  UNCHANGED limiterVars
  BY <1>2 DEF Undecryptable, Mark, Handle, Unhandled, Done
<1>3. ASSUME NEW l \in Loops, NEW m \in MessageIds, IsFresh(l, m) \/ IsDuplicate(l, m)
      PROVE  UNCHANGED limiterVars
  BY <1>3 DEF IsFresh, IsDuplicate
<1>4. CASE Cleanup \/ OnMessage
  BY <1>4 DEF Cleanup, OnMessage
<1>5. CASE Environment
  BY <1>5 DEF Environment, LimiterNext
<1>6. CASE UNCHANGED readVars
  BY <1>6 DEF readVars
<1> QED BY <1>1, <1>2, <1>3, <1>4, <1>5, <1>6, Zenon DEF LoopNext

\* The read loops implement the limiter's specification: what is proved of the
\* limiter alone holds of the loops that call it.
THEOREM LoopsUseLimiter == LoopSpec => LimiterSpec
<1>1. LoopInit => LimiterInit
  BY DEF LoopInit
<1> QED BY <1>1, LoopStepIsLimiterStep, PTL DEF LoopSpec, LimiterSpec

\* In every window of time a read loop lets at most one burst plus the refill
\* of the seconds begun in the window through.
THEOREM LoopWindowBound == LoopSpec => []WindowBound
BY LoopsUseLimiter, LimiterWindowBound, PTL

--------------------------------------------------------------------------------
\* Entries of the seen map, marks and the handler lie in the past, a loop that
\* is past IsDuplicate holds a message, and one that is past Mark has marked it.
LoopTypes ==
    /\ now \in Nat
    /\ seen \in [MessageIds -> Int \cup {NoEntry}]
    /\ \A m \in MessageIds : seen[m] # NoEntry => seen[m] \in 0..now
    /\ pc \in [Loops -> {"reading", "admitted", "fresh", "marked"}]
    /\ msg \in [Loops -> MessageIds \cup {NoEntry}]
    /\ \A l \in Loops : pc[l] \in {"fresh", "marked"} => msg[l] \in MessageIds
    /\ since = NoEntry \/ since \in 0..now

MarkTypes ==
    /\ marks \in [Loops -> [MessageIds -> Seq(Int)]]
    /\ \A l \in Loops, m \in MessageIds : \A i \in DOMAIN marks[l][m] : marks[l][m][i] \in 0..now
    /\ \A l \in Loops : pc[l] = "marked" => marks[l][msg[l]] # <<>>
    /\ handled \in [Loops -> [MessageIds -> SUBSET Nat]]
    /\ \A l \in Loops, m \in MessageIds : handled[l][m] \subseteq DOMAIN marks[l][m]

\* What makes OncePerConnection inductive.  A mark still within the time to
\* live is covered by an entry at least as young; and a loop that IsDuplicate
\* has told the message is fresh has no mark of its own within the time to
\* live.
Covered ==
    /\ \A l \in Loops, m \in MessageIds : \A i \in DOMAIN marks[l][m] :
          now - marks[l][m][i] > TTL \/ (seen[m] # NoEntry /\ seen[m] >= marks[l][m][i])
    /\ \A l \in Loops : pc[l] = "fresh" =>
          \A i \in DOMAIN marks[l][msg[l]] : now - marks[l][msg[l]][i] > TTL

\* What DropsOnlyHandled needs of the seen map: an entry is as old as the mark
\* that put it there, and that mark came to something.
FromMark(m) ==
    \E k \in Loops : \E i \in DOMAIN marks[k][m] :
        marks[k][m][i] = seen[m] /\ Accounted(k, m, i)

EntriesFromMarks == \A m \in MessageIds : seen[m] # NoEntry => FromMark(m)

LoopInv == LoopTypes /\ MarkTypes /\ Covered /\ OncePerConnection /\ EntriesFromMarks

\* The initial state has no entry and no mark.
LEMMA LoopInvInit == LoopInit => LoopInv
<1> SUFFICES ASSUME LoopInit PROVE LoopInv
  OBVIOUS
<1>1. LoopTypes /\ EntriesFromMarks
  BY LimiterAssumption, ReadLoopAssumption
     DEF LoopInit, LimiterInit, LoopTypes, EntriesFromMarks
<1>2. /\ \A l \in Loops, m \in MessageIds : marks[l][m] = <<>> /\ handled[l][m] = {}
      /\ \A l \in Loops : pc[l] = "reading"
  BY DEF LoopInit
<1>3. /\ marks \in [Loops -> [MessageIds -> Seq(Int)]]
      /\ handled \in [Loops -> [MessageIds -> SUBSET Nat]]
  BY DEF LoopInit
<1> QED BY <1>1, <1>2, <1>3 DEF LoopInv, MarkTypes, Covered, OncePerConnection

--------------------------------------------------------------------------------
\* Times of marks and of entries are numbers.
LEMMA MarksInPast ==
    ASSUME LoopInv, NEW l \in Loops, NEW m \in MessageIds, NEW i \in DOMAIN marks[l][m]
    PROVE  marks[l][m][i] \in Int /\ now \in Int /\ (seen[m] # NoEntry => seen[m] \in Int)
<1>1. marks[l][m][i] \in 0..now
  BY Zenon DEF LoopInv, MarkTypes
<1>2. now \in Nat /\ (seen[m] # NoEntry => seen[m] \in 0..now)
  BY Zenon DEF LoopInv, LoopTypes
<1> QED BY <1>1, <1>2

\* A step that changes at most where one loop is, which neither was past
\* IsDuplicate nor is now, or deletes entries, keeps what is known of marks.
LEMMA SameMarks ==
    ASSUME LoopInv, LoopTypes', UNCHANGED <<now, since, marks, handled>>,
           \A k \in Loops : pc'[k] \in {"fresh", "marked"} => pc'[k] = pc[k] /\ msg'[k] = msg[k],
           \A k \in Loops : pc[k] = "marked" => pc'[k] = pc[k] /\ msg'[k] = msg[k],
           \A m \in MessageIds :
              seen'[m] = seen[m] \/ (seen'[m] = NoEntry /\ seen[m] # NoEntry /\ now - seen[m] > TTL)
    PROVE  LoopInv'
<1>1. MarkTypes'
  BY DEF LoopInv, MarkTypes
<1>2. Covered'
  <2>1. ASSUME NEW l \in Loops, NEW m \in MessageIds, NEW i \in DOMAIN marks[l][m]
        PROVE  now - marks[l][m][i] > TTL \/ (seen'[m] # NoEntry /\ seen'[m] >= marks[l][m][i])
    <3>1. now - marks[l][m][i] > TTL \/ (seen[m] # NoEntry /\ seen[m] >= marks[l][m][i])
      BY Zenon DEF LoopInv, Covered
    <3>2. marks[l][m][i] \in Int /\ now \in Int /\ (seen[m] # NoEntry => seen[m] \in Int)
      BY MarksInPast
    <3> QED BY <3>1, <3>2, ReadLoopAssumption
  <2>2. \A l \in Loops : pc'[l] = "fresh" =>
           \A i \in DOMAIN marks[l][msg'[l]] : now - marks[l][msg'[l]][i] > TTL
    BY DEF LoopInv, Covered
  <2> QED BY <2>1, <2>2 DEF Covered
<1>3. OncePerConnection'
  BY DEF LoopInv, OncePerConnection
<1>4. EntriesFromMarks'
  <2> SUFFICES ASSUME NEW m \in MessageIds, seen'[m] # NoEntry PROVE FromMark(m)'
    BY DEF EntriesFromMarks
  <2>1. seen'[m] = seen[m] /\ FromMark(m)
    BY DEF LoopInv, EntriesFromMarks
  <2> QED BY <2>1 DEF FromMark, Accounted
<1> QED BY <1>1, <1>2, <1>3, <1>4 DEF LoopInv

\* IsDuplicate answers false: no loop has a mark of the message within the time
\* to live.
LEMMA FreshStep ==
    ASSUME LoopInv, NEW l \in Loops, NEW m \in MessageIds, IsFresh(l, m)
    PROVE  LoopInv'
<1>1. /\ UNCHANGED <<now, since, marks, handled>> /\ pc[l] = "admitted"
      /\ seen' = [seen EXCEPT ![m] = NoEntry]
      /\ pc' = [pc EXCEPT ![l] = "fresh"]
      /\ msg' = [msg EXCEPT ![l] = m]
  BY DEF IsFresh, limiterVars
<1>2. \A k \in Loops : \A i \in DOMAIN marks[k][m] : now - marks[k][m][i] > TTL
  <2> SUFFICES ASSUME NEW k \in Loops, NEW i \in DOMAIN marks[k][m]
               PROVE  now - marks[k][m][i] > TTL
    OBVIOUS
  <2>0. now - marks[k][m][i] > TTL \/ (seen[m] # NoEntry /\ seen[m] >= marks[k][m][i])
    BY Zenon DEF LoopInv, Covered
  <2>1. marks[k][m][i] \in Int /\ now \in Int /\ (seen[m] # NoEntry => seen[m] \in Int)
    BY MarksInPast
  <2>2. seen[m] = NoEntry \/ now - seen[m] > TTL
    BY DEF IsFresh, Expired
  <2> QED BY <2>0, <2>1, <2>2, ReadLoopAssumption
<1>3. LoopTypes'
  BY <1>1, ReadLoopAssumption DEF LoopInv, LoopTypes
<1>4. /\ \A k \in Loops : k # l => pc'[k] = pc[k] /\ msg'[k] = msg[k]
      /\ pc'[l] = "fresh" /\ msg'[l] = m
      /\ \A x \in MessageIds : x # m => seen'[x] = seen[x]
      /\ seen'[m] = NoEntry
  BY <1>1 DEF LoopInv, LoopTypes
<1>5. MarkTypes'
  BY <1>1, <1>4 DEF LoopInv, MarkTypes
<1>6. Covered'
  <2>1. ASSUME NEW k \in Loops, NEW x \in MessageIds, NEW i \in DOMAIN marks[k][x]
        PROVE  now - marks[k][x][i] > TTL \/ (seen'[x] # NoEntry /\ seen'[x] >= marks[k][x][i])
    <3>1. CASE x = m
      BY <1>2, <3>1, Zenon
    <3>2. CASE x # m
      BY <1>4, <3>2, Zenon DEF LoopInv, Covered
    <3> QED BY <3>1, <3>2
  <2>2. ASSUME NEW k \in Loops, pc'[k] = "fresh", NEW i \in DOMAIN marks[k][msg'[k]]
        PROVE  now - marks[k][msg'[k]][i] > TTL
    <3>1. CASE k = l
      BY <1>2, <1>4, <2>2, <3>1, Zenon
    <3>2. CASE k # l
      BY <1>4, <2>2, <3>2, Zenon DEF LoopInv, Covered
    <3> QED BY <3>1, <3>2
  <2> QED BY <1>1, <2>1, <2>2, Zenon DEF Covered
<1>7. OncePerConnection'
  BY <1>1 DEF LoopInv, OncePerConnection
<1>8. EntriesFromMarks'
  <2> SUFFICES ASSUME NEW x \in MessageIds, seen'[x] # NoEntry PROVE FromMark(x)'
    BY DEF EntriesFromMarks
  <2>1. seen'[x] = seen[x] /\ FromMark(x)
    BY <1>4 DEF LoopInv, EntriesFromMarks
  <2>2. \A k \in Loops : pc[k] = "marked" => pc'[k] = "marked" /\ msg'[k] = msg[k]
    BY <1>1, <1>4
  <2> QED BY <1>1, <2>1, <2>2 DEF FromMark, Accounted
<1> QED BY <1>3, <1>5, <1>6, <1>7, <1>8 DEF LoopInv

\* A sequence of numbers with one more.
LEMMA MarkAppended ==
    ASSUME NEW s \in Seq(Int), NEW t \in Int
    PROVE  /\ Append(s, t) \in Seq(Int) /\ Append(s, t) # <<>>
           /\ Len(s) \in Nat /\ Len(Append(s, t)) = Len(s) + 1
           /\ DOMAIN s = 1..Len(s) /\ DOMAIN Append(s, t) = 1..(Len(s) + 1)
           /\ Append(s, t)[Len(s) + 1] = t
           /\ \A i \in 1..Len(s) : Append(s, t)[i] = s[i]
OBVIOUS

\* Mark: the new mark is the latest one of its message, and every earlier one of
\* the same loop is older than the time to live.
LEMMA MarkStep ==
    ASSUME LoopInv, NEW l \in Loops, Mark(l)
    PROVE  LoopInv'
<1> DEFINE m0 == msg[l]
           s0 == marks[l][m0]
           s1 == Append(s0, now)
           n == Len(s0) + 1
<1>1. /\ pc[l] = "fresh" /\ m0 \in MessageIds
      /\ UNCHANGED <<now, msg, since, handled>>
      /\ seen' = [seen EXCEPT ![m0] = now]
      /\ pc' = [pc EXCEPT ![l] = "marked"]
      /\ marks' = [marks EXCEPT ![l][m0] = s1]
  BY DEF Mark, limiterVars, LoopInv, LoopTypes
<1>2. s0 \in Seq(Int) /\ now \in Nat
  BY <1>1 DEF LoopInv, LoopTypes, MarkTypes
<1>3. /\ s1 \in Seq(Int) /\ s1 # <<>> /\ Len(s1) = n /\ n \in Nat \ {0}
      /\ DOMAIN s0 = 1..(n - 1) /\ DOMAIN s1 = 1..n
      /\ s1[n] = now /\ \A i \in 1..(n - 1) : s1[i] = s0[i]
  <2> HIDE DEF s0
  <2> QED BY <1>2, MarkAppended
<1>4. /\ \A k \in Loops, m \in MessageIds : k # l \/ m # m0 => marks'[k][m] = marks[k][m]
      /\ marks'[l][m0] = s1
      /\ marks' \in [Loops -> [MessageIds -> Seq(Int)]]
  BY <1>1, <1>3 DEF LoopInv, MarkTypes
<1>5. /\ \A m \in MessageIds : m # m0 => seen'[m] = seen[m]
      /\ seen'[m0] = now
      /\ \A k \in Loops : k # l => pc'[k] = pc[k]
      /\ pc'[l] = "marked"
  BY <1>1 DEF LoopInv, LoopTypes
<1>6. \A i \in 1..(n - 1) : s0[i] \in 0..now /\ now - s0[i] > TTL
  BY <1>1, <1>3 DEF LoopInv, MarkTypes, Covered
<1>7. LoopTypes'
  BY <1>1, <1>2, ReadLoopAssumption DEF LoopInv, LoopTypes
<1> HIDE DEF m0, s0, s1, n
<1>8. MarkTypes'
  <2>1. ASSUME NEW k \in Loops, NEW m \in MessageIds
        PROVE  /\ \A i \in DOMAIN marks'[k][m] : marks'[k][m][i] \in 0..now
               /\ handled[k][m] \subseteq DOMAIN marks'[k][m]
    <3>1. CASE k = l /\ m = m0
      <4>1. handled[l][m0] \subseteq DOMAIN s0
        BY <1>1 DEF LoopInv, MarkTypes, m0, s0
      <4>2. ASSUME NEW i \in 1..n PROVE s1[i] \in 0..now
        <5>1. i \in 1..(n - 1) \/ i = n
          BY <1>3
        <5>2. now \in 0..now
          BY <1>2
        <5> QED BY <1>3, <1>6, <5>1, <5>2, Zenon
      <4> QED BY <1>3, <1>4, <3>1, <4>1, <4>2
    <3>2. CASE k # l \/ m # m0
      <4>1. marks'[k][m] = marks[k][m]
        BY <1>4, <3>2, Zenon
      <4> QED BY <4>1, Zenon DEF LoopInv, MarkTypes
    <3> QED BY <3>1, <3>2
  <2>2. ASSUME NEW k \in Loops, pc'[k] = "marked" PROVE marks'[k][msg[k]] # <<>>
    <3>1. CASE k = l
      BY <1>3, <1>4, <3>1 DEF m0
    <3>2. CASE k # l
      <4>1. pc[k] = "marked"
        BY <1>5, <2>2, <3>2, Zenon
      <4>2. msg[k] \in MessageIds
        BY <4>1 DEF LoopInv, LoopTypes
      <4>3. marks'[k][msg[k]] = marks[k][msg[k]]
        BY <1>4, <3>2, <4>2, Zenon
      <4> QED BY <4>1, <4>3, Zenon DEF LoopInv, MarkTypes
    <3> QED BY <3>1, <3>2
  <2> QED BY <1>1, <1>4, <2>1, <2>2 DEF LoopInv, MarkTypes
<1>9. Covered'
  <2>1. ASSUME NEW k \in Loops, NEW m \in MessageIds, NEW i \in DOMAIN marks'[k][m]
        PROVE  now - marks'[k][m][i] > TTL \/ (seen'[m] # NoEntry /\ seen'[m] >= marks'[k][m][i])
    <3>1. marks'[k][m][i] \in 0..now
      BY <1>1, <1>8 DEF MarkTypes
    <3>2. CASE m = m0
      BY <1>2, <1>5, <3>1, <3>2, ReadLoopAssumption
    <3>3. CASE m # m0
      BY <1>4, <1>5, <3>3 DEF LoopInv, Covered
    <3> QED BY <3>2, <3>3
  <2>2. ASSUME NEW k \in Loops, pc'[k] = "fresh"
        PROVE  \A i \in DOMAIN marks'[k][msg[k]] : now - marks'[k][msg[k]][i] > TTL
    <3>1. k # l /\ pc[k] = "fresh" /\ msg[k] \in MessageIds
      BY <1>5, <2>2 DEF LoopInv, LoopTypes
    <3> QED BY <1>4, <3>1 DEF LoopInv, Covered
  <2> QED BY <1>1, <2>1, <2>2 DEF Covered
<1>10. OncePerConnection'
  <2> SUFFICES ASSUME NEW k \in Loops, NEW m \in MessageIds,
                      NEW i \in DOMAIN marks'[k][m], NEW j \in DOMAIN marks'[k][m], i < j
               PROVE  marks'[k][m][j] - marks'[k][m][i] > TTL
    BY DEF OncePerConnection
  <2>1. CASE k = l /\ m = m0
    <3>1. i \in 1..(n - 1) /\ j \in 1..n
      BY <1>3, <1>4, <2>1
    <3>2. CASE j = n
      BY <1>3, <1>4, <1>6, <2>1, <3>1, <3>2
    <3>3. CASE j # n
      <4>1. j \in 1..(n - 1)
        BY <1>3, <3>1, <3>3
      <4>2. s0[j] - s0[i] > TTL
        BY <1>1, <1>3, <3>1, <4>1 DEF LoopInv, OncePerConnection, s0
      <4> QED BY <1>3, <1>4, <2>1, <3>1, <4>1, <4>2
    <3> QED BY <3>2, <3>3
  <2>2. CASE k # l \/ m # m0
    BY <1>4, <2>2 DEF LoopInv, OncePerConnection
  <2> QED BY <2>1, <2>2
<1>11. EntriesFromMarks'
  <2> SUFFICES ASSUME NEW m \in MessageIds, seen'[m] # NoEntry PROVE FromMark(m)'
    BY DEF EntriesFromMarks
  <2>1. CASE m = m0
    <3>1. n \in DOMAIN marks'[l][m0] /\ marks'[l][m0][n] = seen'[m0] /\ n = Len(marks'[l][m0])
      BY <1>3, <1>4, <1>5
    <3>2. pc'[l] = "marked" /\ msg'[l] = m0
      BY <1>1, <1>5 DEF m0
    <3> QED BY <2>1, <3>1, <3>2, Zenon DEF FromMark, Accounted
  <2>2. CASE m # m0
    <3>0. PICK k \in Loops : \E i \in DOMAIN marks[k][m] :
             marks[k][m][i] = seen[m] /\ Accounted(k, m, i)
      BY <1>5, <2>2 DEF LoopInv, EntriesFromMarks, FromMark
    <3>1. PICK i \in DOMAIN marks[k][m] : marks[k][m][i] = seen[m] /\ Accounted(k, m, i)
      BY <3>0
    <3>2. marks'[k][m] = marks[k][m] /\ seen'[m] = seen[m]
      BY <1>4, <1>5, <2>2
    <3>3. pc[k] = "marked" => pc'[k] = "marked"
      BY <1>1, <1>5
    <3>4. Accounted(k, m, i)'
      BY <1>1, <3>1, <3>2, <3>3, Zenon DEF Accounted
    <3> QED BY <3>1, <3>2, <3>4, Zenon DEF FromMark
  <2> QED BY <2>1, <2>2
<1> QED BY <1>7, <1>8, <1>9, <1>10, <1>11 DEF LoopInv

\* The loop has handed its message to the handler, or found that there is none.
LEMMA DoneStep ==
    ASSUME LoopInv, NEW l \in Loops, Handle(l) \/ Unhandled(l)
    PROVE  LoopInv'
<1> DEFINE m0 == msg[l]
           n == Len(marks[l][m0])
<1>1. /\ pc[l] = "marked" /\ m0 \in MessageIds
      /\ UNCHANGED <<now, seen, since, marks>>
      /\ pc' = [pc EXCEPT ![l] = "reading"]
      /\ msg' = [msg EXCEPT ![l] = NoEntry]
      /\ \/ handled' = [handled EXCEPT ![l][m0] = @ \cup {n}]
         \/ since = NoEntry /\ handled' = handled
  BY DEF Handle, Unhandled, Done, limiterVars, LoopInv, LoopTypes
<1>2. /\ \A k \in Loops : k # l => pc'[k] = pc[k] /\ msg'[k] = msg[k]
      /\ pc'[l] = "reading"
  BY <1>1 DEF LoopInv, LoopTypes
<1>3. n \in DOMAIN marks[l][m0] /\ n \in Nat
  <2>1. marks[l][m0] \in Seq(Int) /\ marks[l][m0] # <<>>
    BY <1>1 DEF LoopInv, MarkTypes
  <2> QED BY <2>1
<1> HIDE DEF m0, n
<1>4. /\ handled' \in [Loops -> [MessageIds -> SUBSET Nat]]
      /\ \A k \in Loops, m \in MessageIds :
            /\ handled[k][m] \subseteq handled'[k][m]
            /\ handled'[k][m] \subseteq DOMAIN marks[k][m]
      /\ n \in handled'[l][m0] \/ since = NoEntry
  <2>1. CASE handled' = [handled EXCEPT ![l][m0] = @ \cup {n}]
    <3>1. /\ handled \in [Loops -> [MessageIds -> SUBSET Nat]]
          /\ \A k \in Loops, m \in MessageIds : handled[k][m] \subseteq DOMAIN marks[k][m]
      BY Zenon DEF LoopInv, MarkTypes
    <3>2. /\ handled' \in [Loops -> [MessageIds -> SUBSET Nat]]
          /\ handled'[l][m0] = handled[l][m0] \cup {n}
          /\ \A k \in Loops, m \in MessageIds :
                k # l \/ m # m0 => handled'[k][m] = handled[k][m]
      BY <1>1, <1>3, <2>1, <3>1
    <3>3. ASSUME NEW k \in Loops, NEW m \in MessageIds
          PROVE  /\ handled[k][m] \subseteq handled'[k][m]
                 /\ handled'[k][m] \subseteq DOMAIN marks[k][m]
      <4>1. handled[k][m] \subseteq DOMAIN marks[k][m]
        BY <3>1, Zenon
      <4>2. CASE k = l /\ m = m0
        <5>1. handled'[k][m] = handled[k][m] \cup {n} /\ n \in DOMAIN marks[k][m]
          BY <1>3, <3>2, <4>2, Zenon
        <5> QED BY <4>1, <5>1, Zenon
      <4>3. CASE k # l \/ m # m0
        <5>1. handled'[k][m] = handled[k][m]
          BY <3>2, <4>3, Zenon
        <5> QED BY <4>1, <5>1, Zenon
      <4> QED BY <4>2, <4>3
    <3>4. n \in handled'[l][m0]
      BY <3>2, Zenon
    <3> QED BY <3>2, <3>3, <3>4, Zenon
  <2>2. CASE since = NoEntry /\ handled' = handled
    BY <2>2 DEF LoopInv, MarkTypes
  <2> QED BY <1>1, <2>1, <2>2
<1>5. LoopTypes'
  BY <1>1 DEF LoopInv, LoopTypes
<1>6. MarkTypes'
  BY <1>1, <1>2, <1>4 DEF LoopInv, MarkTypes
<1>7. Covered' /\ OncePerConnection'
  <2>1. ASSUME NEW k \in Loops, pc'[k] = "fresh"
        PROVE  \A i \in DOMAIN marks[k][msg'[k]] : now - marks[k][msg'[k]][i] > TTL
    <3>1. k # l /\ pc[k] = "fresh" /\ msg'[k] = msg[k]
      BY <1>2, <2>1
    <3> QED BY <3>1, Zenon DEF LoopInv, Covered
  <2>2. Covered'
    BY <1>1, <2>1, Zenon DEF LoopInv, Covered
  <2>3. OncePerConnection'
    BY <1>1, Zenon DEF LoopInv, OncePerConnection
  <2> QED BY <2>2, <2>3
<1>8. EntriesFromMarks'
  <2> SUFFICES ASSUME NEW m \in MessageIds, seen[m] # NoEntry PROVE FromMark(m)'
    BY <1>1 DEF EntriesFromMarks
  <2>0. PICK k \in Loops : \E i \in DOMAIN marks[k][m] :
           marks[k][m][i] = seen[m] /\ Accounted(k, m, i)
    BY DEF LoopInv, EntriesFromMarks, FromMark
  <2>1. PICK i \in DOMAIN marks[k][m] : marks[k][m][i] = seen[m] /\ Accounted(k, m, i)
    BY <2>0
  <2>2. Accounted(k, m, i)'
    <3>1. CASE k = l /\ m = m0 /\ i = n
      BY <1>1, <1>4, <3>1, Zenon DEF Accounted
    <3>2. CASE ~(k = l /\ m = m0 /\ i = n)
      <4>1. pc[k] = "marked" /\ msg[k] = m /\ i = Len(marks[k][m]) => k # l
        BY <3>2 DEF m0, n
      <4> QED BY <1>1, <1>2, <1>4, <2>1, <4>1 DEF Accounted
    <3> QED BY <3>1, <3>2
  <2> QED BY <1>1, <2>1, <2>2, Zenon DEF FromMark
<1> QED BY <1>5, <1>6, <1>7, <1>8 DEF LoopInv

\* OnMessage: every mark there is, is from before the handler.
LEMMA HandlerStep ==
    ASSUME LoopInv, OnMessage
    PROVE  LoopInv'
<1>1. /\ UNCHANGED <<now, seen, pc, msg, marks, handled>>
      /\ since' = IF since = NoEntry THEN now ELSE since
  BY DEF OnMessage, limiterVars
<1>2. LoopTypes'
  BY <1>1 DEF LoopInv, LoopTypes
<1>3. MarkTypes' /\ Covered' /\ OncePerConnection'
  BY <1>1 DEF LoopInv, MarkTypes, Covered, OncePerConnection
<1>4. EntriesFromMarks'
  <2> SUFFICES ASSUME NEW m \in MessageIds, seen[m] # NoEntry PROVE FromMark(m)'
    BY <1>1 DEF EntriesFromMarks
  <2>0. PICK k \in Loops : \E i \in DOMAIN marks[k][m] :
           marks[k][m][i] = seen[m] /\ Accounted(k, m, i)
    BY DEF LoopInv, EntriesFromMarks, FromMark
  <2>1. PICK i \in DOMAIN marks[k][m] : marks[k][m][i] = seen[m] /\ Accounted(k, m, i)
    BY <2>0
  <2>2. marks[k][m][i] <= now
    BY DEF LoopInv, LoopTypes, MarkTypes
  <2>3. Accounted(k, m, i)'
    BY <1>1, <2>1, <2>2 DEF Accounted
  <2> QED BY <1>1, <2>1, <2>3, Zenon DEF FromMark
<1> QED BY <1>2, <1>3, <1>4 DEF LoopInv

\* The clock moves on, or the observer opens a window.
LEMMA ClockStep ==
    ASSUME LoopInv, Environment
    PROVE  LoopInv'
<1>1. UNCHANGED <<seen, pc, msg, since, marks, handled>> /\ (now' = now \/ now' = now + 1)
  BY DEF Environment, Tick, OpenWindow, dedupVars
<1>2. LoopTypes'
  BY <1>1 DEF LoopInv, LoopTypes
<1>3. MarkTypes'
  <2>1. now \in Nat /\ 0..now \subseteq 0..now'
    BY <1>1 DEF LoopInv, LoopTypes
  <2> QED BY <1>1, <2>1 DEF LoopInv, MarkTypes
<1>4. Covered'
  <2>1. ASSUME NEW t \in Int, now - t > TTL PROVE now' - t > TTL
    BY <1>1, <2>1, ReadLoopAssumption DEF LoopInv, LoopTypes
  <2>2. ASSUME NEW l \in Loops, NEW m \in MessageIds, NEW i \in DOMAIN marks[l][m]
        PROVE  marks[l][m][i] \in Int
    BY MarksInPast, Zenon
  <2>3. \A l \in Loops : pc[l] = "fresh" => msg[l] \in MessageIds
    BY DEF LoopInv, LoopTypes
  <2> QED BY <1>1, <2>1, <2>2, <2>3 DEF LoopInv, Covered
<1>5. OncePerConnection' /\ EntriesFromMarks'
  <2>1. OncePerConnection'
    BY <1>1, Zenon DEF LoopInv, OncePerConnection
  <2>2. EntriesFromMarks'
    <3> SUFFICES ASSUME NEW m \in MessageIds, seen[m] # NoEntry PROVE FromMark(m)'
      BY <1>1 DEF EntriesFromMarks
    <3>1. FromMark(m)
      BY Zenon DEF LoopInv, EntriesFromMarks
    <3>2. ASSUME NEW k \in Loops, NEW i \in DOMAIN marks[k][m], Accounted(k, m, i)
          PROVE  Accounted(k, m, i)'
      BY <1>1, <3>2 DEF Accounted
    <3> QED BY <1>1, <3>1, <3>2, Zenon DEF FromMark
  <2> QED BY <2>1, <2>2
<1> QED BY <1>2, <1>3, <1>4, <1>5 DEF LoopInv

\* Each step of the loops, the cleanup goroutine, OnMessage and the clock keeps
\* the invariant.
LEMMA LoopInvStep == LoopInv /\ [LoopNext]_readVars => LoopInv'
<1> SUFFICES ASSUME LoopInv, [LoopNext]_readVars PROVE LoopInv'
  OBVIOUS
<1>1. ASSUME UNCHANGED <<now, seen, msg, since, marks, handled>>,
             NEW l \in Loops, pc[l] \in {"reading", "admitted"}, NEW q \in {"reading", "admitted"},
             pc' = [pc EXCEPT ![l] = q]
      PROVE  LoopInv'
  <2>1. LoopTypes'
    BY <1>1 DEF LoopInv, LoopTypes
  <2>2. \A k \in Loops : pc'[k] = IF k = l THEN q ELSE pc[k]
    BY <1>1 DEF LoopInv, LoopTypes
  <2> QED BY <1>1, <2>1, <2>2, SameMarks
<1>2. ASSUME UNCHANGED <<now, dedupVars>> PROVE LoopInv'
  <2>1. LoopTypes'
    BY <1>2 DEF dedupVars, LoopInv, LoopTypes
  <2> QED BY <1>2, <2>1, SameMarks DEF dedupVars
<1>3. ASSUME NEW l \in Loops, Admit(l) PROVE LoopInv'
  BY <1>1, <1>3 DEF Admit, AllowTrue
<1>4. ASSUME NEW l \in Loops, RateLimited(l) PROVE LoopInv'
  BY <1>2, <1>4 DEF RateLimited, AllowFalse
<1>5. ASSUME NEW l \in Loops, Undecryptable(l) PROVE LoopInv'
  BY <1>1, <1>5 DEF Undecryptable, limiterVars
<1>6. ASSUME NEW l \in Loops, NEW m \in MessageIds, IsDuplicate(l, m) PROVE LoopInv'
  BY <1>1, <1>6 DEF IsDuplicate, limiterVars
<1>7. CASE Cleanup
  <2>1. /\ UNCHANGED <<now, pc, msg, since, marks, handled>>
        /\ seen' = [m \in MessageIds |-> IF seen[m] # NoEntry /\ now - seen[m] > TTL
                                           THEN NoEntry ELSE seen[m]]
    BY <1>7 DEF Cleanup, limiterVars
  <2>2. LoopTypes'
    BY <2>1 DEF LoopInv, LoopTypes
  <2> QED BY <2>1, <2>2, SameMarks
<1>8. CASE UNCHANGED readVars
  BY <1>2, <1>8 DEF readVars, limiterVars
<1> QED BY <1>3, <1>4, <1>5, <1>6, <1>7, <1>8, FreshStep, MarkStep, DoneStep, HandlerStep,
           ClockStep, Zenon DEF LoopNext

\* The invariant of the read loops holds in every reachable state.
LEMMA LoopInvAlways == LoopSpec => []LoopInv
BY LoopInvInit, LoopInvStep, PTL DEF LoopSpec

\* One connection never handles a message twice within the time to live, for
\* any number of connections and messages.
THEOREM LoopOncePerConnection == LoopSpec => []OncePerConnection
<1>1. LoopInv => OncePerConnection
  BY DEF LoopInv
<1> QED BY <1>1, LoopInvAlways, PTL

\* A message that IsDuplicate drops was marked within the time to live by a loop
\* that handed it to the handler or is about to, unless the mark is from before
\* OnMessage: for any number of connections and messages and any time to live.
THEOREM LoopDropsOnlyHandled == LoopSpec => DropsOnlyHandled
<1>1. ASSUME LoopInv, NEW l \in Loops, NEW m \in MessageIds, IsDuplicate(l, m)
      PROVE  \E k \in Loops : \E i \in DOMAIN marks[k][m] :
                 /\ TTL > 0 => now - marks[k][m][i] <= TTL
                 /\ Accounted(k, m, i)
  <2>1. seen[m] # NoEntry /\ ~(TTL > 0 /\ now - seen[m] > TTL)
    BY <1>1 DEF IsDuplicate, Expired
  <2>2. seen[m] \in Int /\ now \in Int
    BY <1>1, <2>1 DEF LoopInv, LoopTypes
  <2>3. TTL > 0 => now - seen[m] <= TTL
    BY <2>1, <2>2, ReadLoopAssumption
  <2> QED BY <1>1, <2>1, <2>3 DEF LoopInv, EntriesFromMarks, FromMark
<1>2. LoopInv => [\A l \in Loops, m \in MessageIds : IsDuplicate(l, m) =>
                     \E k \in Loops : \E i \in DOMAIN marks[k][m] :
                         /\ TTL > 0 => now - marks[k][m][i] <= TTL
                         /\ Accounted(k, m, i)]_readVars
  BY <1>1, Zenon
<1> QED BY <1>2, LoopInvAlways, PTL DEF DropsOnlyHandled

\* The types of the loops' state.
THEOREM LoopTypesHold == LoopSpec => []LoopTypeOK
<1>1. LoopInv /\ LimiterTypeOK => LoopTypeOK
  <2> SUFFICES ASSUME LoopInv, LimiterTypeOK PROVE LoopTypeOK
    OBVIOUS
  <2>1. /\ seen \in [MessageIds -> (0..now) \cup {NoEntry}]
        /\ since \in (0..now) \cup {NoEntry}
    BY DEF LoopInv, LoopTypes
  <2>2. marks \in [Loops -> [MessageIds -> Seq(0..now)]]
    <3>1. ASSUME NEW s \in Seq(Int), \A i \in DOMAIN s : s[i] \in 0..now
          PROVE  s \in Seq(0..now)
      <4>1. Len(s) \in Nat /\ DOMAIN s = 1..Len(s) /\ s = [i \in 1..Len(s) |-> s[i]]
        OBVIOUS
      <4> DEFINE T == 0..now
      <4>2. \A i \in 1..Len(s) : s[i] \in T
        BY <3>1, <4>1
      <4> HIDE DEF T
      <4>3. s \in Seq(T)
        BY <4>1, <4>2
      <4> QED BY <4>3 DEF T
    <3>2. ASSUME NEW l \in Loops, NEW m \in MessageIds PROVE marks[l][m] \in Seq(0..now)
      <4> DEFINE s == marks[l][m]
      <4>1. s \in Seq(Int) /\ \A i \in DOMAIN s : s[i] \in 0..now
        BY DEF LoopInv, MarkTypes
      <4> HIDE DEF s
      <4>2. s \in Seq(0..now)
        BY <3>1, <4>1
      <4> QED BY <4>2 DEF s
    <3>3. marks \in [Loops -> [MessageIds -> Seq(Int)]]
      BY DEF LoopInv, MarkTypes
    <3> QED BY <3>2, <3>3
  <2> QED BY <2>1, <2>2 DEF LoopInv, LoopTypes, MarkTypes, LoopTypeOK
<1> QED BY <1>1, LoopInvAlways, LoopsUseLimiter, LimiterTypes, PTL

--------------------------------------------------------------------------------
\* The packets, the triples and the calls of RegisterHandler of all scenarios.
ScenarioPackets == UNION {Elements(s.packets) : s \in Scenarios}

SentTriples == UNION {Elements(OnTheWire(p)) : p \in ScenarioPackets}

Registrations == UNION {UNION {Elements(s.registrations[g]) : g \in Registrars} : s \in Scenarios}

\* The triples that the reader gets past, and what ReadAndVerify can return.
Passed == {t \in SentTriples : ~Short(t)}

Results == {Verify(ts, t.value) : ts \in Seq(Passed), t \in SentTriples}

Readable(t) == t.value \in Seq(ByteSet)

\* A quotient of a two-byte number by the number of bytes is a byte.
LEMMA BigEndianBytes ==
    ASSUME NEW n \in 0..(ByteValues * ByteValues - 1)
    PROVE  BigEndian(n) \in Seq(ByteSet)
<1> DEFINE b == ByteValues
           q == n \div b
<1>1. b \in Nat /\ b > 0
  BY UepsAssumption DEF UnknownTag
<1>2. q \in Nat /\ b * q <= n /\ n % b \in 0..(b - 1)
  BY <1>1
<1>3. n < b * b
  BY <1>1
<1> HIDE DEF b, q
<1>4. b * q < b * b
  BY <1>1, <1>2, <1>3
<1>5. q < b
  BY <1>1, <1>2, <1>4
<1>6. n \div ByteValues \in ByteSet /\ n % ByteValues \in ByteSet
  BY <1>1, <1>2, <1>5 DEF ByteSet, b, q
<1> QED BY <1>6 DEF BigEndian

\* The values the reader starts with are bytes, as many as it takes.
LEMMA ZeroValues ==
    /\ <<0>> \in Seq(ByteSet) /\ Len(<<0>>) = 1
    /\ <<0, 0>> \in Seq(ByteSet) /\ Len(<<0, 0>>) = 2
<1>1. 0 \in ByteSet
  BY UepsAssumption DEF ByteSet, UnknownTag
<1> QED BY <1>1

\* A triple of bytes is readable.
LEMMA ReadableTLV ==
    ASSUME NEW tag, NEW value \in Seq(ByteSet)
    PROVE  Readable(TLV(tag, value))
BY DEF TLV, Readable

\* A packet's triples, as they are built.
LEMMA SignedTriples ==
    ASSUME NEW p, Buildable(p)
    PROVE  /\ MarshalAndSign(p) \in Seq(Elements(MarshalAndSign(p)))
           /\ \A t \in Elements(MarshalAndSign(p)) : Readable(t)
<1> DEFINE h == p.header
           V == {TLV(TagVersion, <<h.Version>>), TLV(TagCurrentLay, <<h.CurrentLayer>>),
                 TLV(TagTargetLay, <<h.TargetLayer>>), TLV(TagIntent, <<h.IntentID>>),
                 TLV(TagThreatScore, BigEndian(h.ThreatScore))}
           E == [tag : ByteSet \ ((TagVersion..TagHMAC) \cup {TagPayload}),
                 value : Seq(ByteSet), sum : {<<>>}]
           head == HeaderTLVs(h) \o p.extra
           mac == MAC(p.secret, head, p.payload)
           L == {SignatureTLV(mac), TLV(TagPayload, p.payload)}
           T == V \cup E \cup L
<1>1. HeaderTLVs(h) \in Seq(T)
  <2> DEFINE a == TLV(TagVersion, <<h.Version>>)
             b == TLV(TagCurrentLay, <<h.CurrentLayer>>)
             c == TLV(TagTargetLay, <<h.TargetLayer>>)
             d == TLV(TagIntent, <<h.IntentID>>)
             e == TLV(TagThreatScore, BigEndian(h.ThreatScore))
  <2>1. a \in T /\ b \in T /\ c \in T /\ d \in T /\ e \in T
    BY Zenon
  <2>2. HeaderTLVs(h) = <<a, b, c, d, e>>
    BY Zenon DEF HeaderTLVs
  <2> HIDE DEF T, a, b, c, d, e
  <2>3. <<a, b, c, d, e>> \in Seq(T)
    BY <2>1
  <2> QED BY <2>2, <2>3, Zenon
<1>2. p.extra \in Seq(T)
  <2>1. p.extra \in Seq(E) /\ E \subseteq T
    BY DEF Buildable
  <2> HIDE DEF E, T
  <2> QED BY <2>1
<1>3. head \in Seq(T)
  BY <1>1, <1>2
<1>4. <<SignatureTLV(mac), TLV(TagPayload, p.payload)>> \in Seq(T)
  OBVIOUS
<1>5. MarshalAndSign(p) \in Seq(T)
  <2> HIDE DEF T, head, mac
  <2>1. MarshalAndSign(p) = head \o <<SignatureTLV(mac), TLV(TagPayload, p.payload)>>
    BY DEF MarshalAndSign, head, mac
  <2> QED BY <2>1, <1>3, <1>4
<1>6. \A t \in V : Readable(t)
  <2>1. /\ h.Version \in ByteSet /\ h.CurrentLayer \in ByteSet /\ h.TargetLayer \in ByteSet
        /\ h.IntentID \in ByteSet /\ h.ThreatScore \in 0..(ByteValues * ByteValues - 1)
    BY DEF Buildable, Intents
  <2>2. /\ <<h.Version>> \in Seq(ByteSet) /\ <<h.CurrentLayer>> \in Seq(ByteSet)
        /\ <<h.TargetLayer>> \in Seq(ByteSet) /\ <<h.IntentID>> \in Seq(ByteSet)
    BY <2>1
  <2>3. BigEndian(h.ThreatScore) \in Seq(ByteSet)
    BY <2>1, BigEndianBytes
  <2> HIDE DEF h
  <2> QED BY <2>2, <2>3, ReadableTLV, Zenon
<1>7. \A t \in E : Readable(t)
  BY DEF Readable
<1>8. \A t \in L : Readable(t)
  <2>1. p.payload \in Seq(ByteSet)
    BY DEF Buildable
  <2>2. Readable(SignatureTLV(mac))
    <3> HIDE DEF mac
    <3>1. SignatureTLV(mac).value = <<0, 0>>
      BY DEF SignatureTLV
    <3> QED BY <3>1, ZeroValues, Zenon DEF Readable
  <2> QED BY <2>1, <2>2, ReadableTLV, Zenon
<1> HIDE DEF V, E, L
<1> QED BY <1>5, <1>6, <1>7, <1>8 DEF Elements

\* Damage leaves a triple readable.
LEMMA DamagedReadable ==
    ASSUME NEW t, Readable(t), NEW tag
    PROVE  /\ Readable([t EXCEPT !.tag = tag])
           /\ Readable(TLV(tag, [i \in DOMAIN t.value |-> (t.value[i] + 1) % ByteValues]))
<1> DEFINE v == [i \in DOMAIN t.value |-> (t.value[i] + 1) % ByteValues]
<1>1. v \in Seq(ByteSet)
  <2>1. t.value \in Seq(ByteSet)
    BY DEF Readable
  <2>2. \A i \in DOMAIN t.value : (t.value[i] + 1) % ByteValues \in ByteSet
    BY <2>1, UepsAssumption DEF ByteSet, UnknownTag
  <2> QED BY <2>1, <2>2
<1> HIDE DEF v
<1>2. Readable(TLV(tag, v))
  BY <1>1 DEF Readable, TLV
<1>3. Readable([t EXCEPT !.tag = tag])
  BY DEF Readable
<1> QED BY <1>2, <1>3 DEF v

\* A packet's triples, as they arrive: damage changes no length.
LEMMA WireTriples ==
    ASSUME NEW p, Buildable(p)
    PROVE  /\ OnTheWire(p) \in Seq(Elements(OnTheWire(p)))
           /\ \A t \in Elements(OnTheWire(p)) : Readable(t)
<1> DEFINE M == MarshalAndSign(p)
           W == OnTheWire(p)
<1>1. M \in Seq(Elements(M)) /\ \A t \in Elements(M) : Readable(t)
  BY SignedTriples
<1>2. CASE p.damaged = 0
  BY <1>1, <1>2 DEF OnTheWire
<1>3. CASE p.damaged # 0
  <2>1. W = [M EXCEPT ![p.damaged] = Damage(M[p.damaged], p.tag)]
    BY <1>3 DEF OnTheWire
  <2>2. \A t \in Elements(M) : Readable(Damage(t, p.tag))
    BY <1>1, DamagedReadable DEF Damage
  <2> HIDE DEF M, W
  <2>3. \A i \in DOMAIN W : Readable(W[i])
    BY <2>1, <2>2, <1>1 DEF Elements
  <2>4. W \in Seq(Elements(W))
    <3>1. Len(M) \in Nat /\ DOMAIN M = 1..Len(M)
      BY <1>1
    <3>2. DOMAIN W = 1..Len(M) /\ W = [i \in 1..Len(M) |-> W[i]]
      BY <2>1, <3>1
    <3>3. \A i \in 1..Len(M) : W[i] \in Elements(W)
      BY <3>2 DEF Elements
    <3> QED BY <3>1, <3>2, <3>3
  <2> QED BY <2>3, <2>4 DEF Elements, W
<1> QED BY <1>2, <1>3

\* A non-empty set of positions has a last one.
LEMMA LastPosition ==
    ASSUME NEW n \in Nat, NEW S \in SUBSET (1..n), S # {}
    PROVE  (CHOOSE k \in S : \A j \in S : k >= j) \in S
<1> DEFINE T == {n - i : i \in S}
<1>1. T \subseteq Nat /\ T # {}
  OBVIOUS
<1>2. PICK x \in T : \A y \in T : ~ (<<y, x>> \in OpToRel(<, Nat))
  BY <1>1, NatLessThanWellFounded, WFMin
<1>3. \A y \in T : x <= y
  <2> SUFFICES ASSUME NEW y \in T, y < x PROVE FALSE
    BY <1>1
  <2>1. <<y, x>> \in Nat \X Nat
    BY <1>1
  <2>2. <<y, x>> \in OpToRel(<, Nat)
    BY <2>1 DEF OpToRel
  <2> QED BY <1>2, <2>2
<1>4. PICK i \in S : x = n - i
  OBVIOUS
<1>5. \A j \in S : i >= j
  BY <1>3, <1>4
<1>6. \E k \in S : \A j \in S : k >= j
  BY <1>5
<1> QED BY <1>6

\* What LastTLV returns is the initial triple or one with the tag.
LEMMA LastTLVOf ==
    ASSUME NEW T, NEW ts \in Seq(T), NEW tag, NEW initial
    PROVE  \/ LastTLV(ts, tag, initial) = TLV(tag, initial)
           \/ \E t \in T : t.tag = tag /\ LastTLV(ts, tag, initial) = t
<1> DEFINE I == {i \in DOMAIN ts : ts[i].tag = tag}
           m == CHOOSE k \in I : \A j \in I : k >= j
<1>1. LastTLV(ts, tag, initial) = IF I = {} THEN TLV(tag, initial) ELSE ts[m]
  BY DEF LastTLV
<1>2. CASE I = {}
  BY <1>1, <1>2
<1>3. CASE I # {}
  <2>1. m \in I
    <3>1. Len(ts) \in Nat /\ I \in SUBSET (1..Len(ts))
      OBVIOUS
    <3> HIDE DEF I
    <3> QED BY <1>3, <3>1, LastPosition
  <2> HIDE DEF m
  <2>2. LastTLV(ts, tag, initial) = ts[m]
    BY <1>1, <1>3
  <2>3. m \in 1..Len(ts) /\ ts[m].tag = tag
    BY <2>1
  <2>4. ts[m] \in T
    BY <2>3
  <2> QED BY <2>2, <2>3, <2>4
<1> QED BY <1>2, <1>3

\* An element of a sequence is of its set.
LEMMA ElementOf ==
    ASSUME NEW S, NEW v \in Seq(S), NEW k \in 1..Len(v)
    PROVE  v[k] \in S
OBVIOUS

\* The empty sequence is a sequence over every set.
LEMMA EmptyIn ==
    ASSUME NEW S
    PROVE  <<>> \in Seq(S)
OBVIOUS

\* A sequence over S with one more element of S is a sequence over S.
LEMMA AppendIn ==
    ASSUME NEW S, NEW s \in Seq(S), NEW x \in S
    PROVE  Append(s, x) \in Seq(S)
OBVIOUS

\* A part of a sequence over S is a sequence over S.
LEMMA PartIn ==
    ASSUME NEW S, NEW s \in Seq(S), NEW i \in 1..(Len(s) + 1), NEW j \in 0..Len(s)
    PROVE  SubSeq(s, i, j) \in Seq(S)
OBVIOUS

\* A prefix whose elements all lie in T is a sequence over T.
LEMMA PrefixIn ==
    ASSUME NEW S, NEW T, NEW s \in Seq(S), NEW n \in 0..Len(s),
           \A i \in 1..n : s[i] \in T
    PROVE  SubSeq(s, 1, n) \in Seq(T)
<1>1. SubSeq(s, 1, n) = [i \in 1..n |-> s[i]] /\ n \in Nat
  OBVIOUS
<1> QED BY <1>1

\* The places of a sequence are the numbers from 1 to its length.
LEMMA PlacesOf ==
    ASSUME NEW S, NEW s \in Seq(S)
    PROVE  DOMAIN s = 1..Len(s) /\ Len(s) \in Nat
OBVIOUS

\* Triples the peers send are readable.
LEMMA SentAreReadable ==
    /\ \A p \in ScenarioPackets : OnTheWire(p) \in Seq(SentTriples)
    /\ \A t \in SentTriples : Readable(t)
<1>1. \A p \in ScenarioPackets : Buildable(p)
  <2> SUFFICES ASSUME NEW s \in Scenarios, NEW p \in Elements(s.packets) PROVE Buildable(p)
    BY DEF ScenarioPackets
  <2>1. s.packets \in Seq({q \in Elements(s.packets) : Buildable(q)})
    BY UepsAssumption
  <2> DEFINE B == {q \in Elements(s.packets) : Buildable(q)}
  <2>2. \A i \in DOMAIN s.packets : s.packets[i] \in B
    <3> HIDE DEF B
    <3> QED BY <2>1 DEF B
  <2> QED BY <2>2 DEF Elements
<1>2. \A p \in ScenarioPackets : /\ OnTheWire(p) \in Seq(Elements(OnTheWire(p)))
                                 /\ \A t \in Elements(OnTheWire(p)) : Readable(t)
  BY <1>1, WireTriples
<1>3. ASSUME NEW p \in ScenarioPackets PROVE OnTheWire(p) \in Seq(SentTriples)
  <2>1. Elements(OnTheWire(p)) \subseteq SentTriples
    BY DEF SentTriples
  <2> QED BY <1>2, <2>1
<1> QED BY <1>2, <1>3 DEF SentTriples

\* What ReadAndVerify accepts has a header whose intent is a byte and whose score is
\* a number.
LEMMA ResultIsTyped ==
    ASSUME NEW r \in Results
    PROVE  /\ r.ok \in BOOLEAN
           /\ r.ok => r.header.IntentID \in Intents /\ r.header.ThreatScore \in Int
<1>1. PICK ts \in Seq(Passed), t \in SentTriples : r = Verify(ts, t.value)
  BY DEF Results
<1> DEFINE h == ParsedHeader(ts)
<1>2. \/ r = [ok |-> TRUE, header |-> h, payload |-> t.value]
      \/ r = [ok |-> FALSE]
  BY <1>1 DEF Verify
<1>3. h.IntentID \in Intents
  <2> DEFINE v == LastTLV(ts, TagIntent, <<0>>).value
  <2>1. v = <<0>> \/ \E u \in Passed : u.tag = TagIntent /\ v = u.value
    <3> DEFINE x == LastTLV(ts, TagIntent, <<0>>)
    <3>1. x = TLV(TagIntent, <<0>>) \/ \E u \in Passed : u.tag = TagIntent /\ x = u
      <4> DEFINE i == <<0>>
      <4> HIDE DEF i
      <4>1. \/ LastTLV(ts, TagIntent, i) = TLV(TagIntent, i)
            \/ \E u \in Passed : u.tag = TagIntent /\ LastTLV(ts, TagIntent, i) = u
        BY LastTLVOf
      <4> QED BY <4>1, Zenon DEF i
    <3>2. TLV(TagIntent, <<0>>).value = <<0>>
      BY DEF TLV
    <3>3. v = x.value
      OBVIOUS
    <3> HIDE DEF x, v
    <3> QED BY <3>1, <3>2, <3>3, Zenon
  <2>2. v \in Seq(ByteSet) /\ Len(v) >= 1
    <3> HIDE DEF v
    <3>1. CASE v = <<0>>
      BY <3>1, ZeroValues
    <3>2. ASSUME NEW u \in Passed, u.tag = TagIntent, v = u.value PROVE v \in Seq(ByteSet) /\ Len(v) >= 1
      <4>1. v \in Seq(ByteSet) /\ ~Short(u)
        BY <3>2, SentAreReadable DEF Readable, Passed
      <4>2. v # <<>>
        BY <3>2, <4>1 DEF Short, TagVersion, TagIntent, TagThreatScore
      <4> QED BY <4>1, <4>2
    <3> QED BY <2>1, <3>1, <3>2
  <2>3. h.IntentID = v[1]
    BY DEF ParsedHeader
  <2> HIDE DEF v, h
  <2>4. v[1] \in ByteSet
    <3>1. 1 \in 1..Len(v)
      BY <2>2
    <3> QED BY <2>2, <3>1, ElementOf, Zenon
  <2> QED BY <2>3, <2>4 DEF Intents
<1>4. h.ThreatScore \in Int
  <2> DEFINE v == LastTLV(ts, TagThreatScore, <<0, 0>>).value
  <2>1. v = <<0, 0>> \/ \E u \in Passed : u.tag = TagThreatScore /\ v = u.value
    <3> DEFINE x == LastTLV(ts, TagThreatScore, <<0, 0>>)
    <3>1. x = TLV(TagThreatScore, <<0, 0>>) \/ \E u \in Passed : u.tag = TagThreatScore /\ x = u
      <4> DEFINE i == <<0, 0>>
      <4> HIDE DEF i
      <4>1. \/ LastTLV(ts, TagThreatScore, i) = TLV(TagThreatScore, i)
            \/ \E u \in Passed : u.tag = TagThreatScore /\ LastTLV(ts, TagThreatScore, i) = u
        BY LastTLVOf
      <4> QED BY <4>1, Zenon DEF i
    <3>2. TLV(TagThreatScore, <<0, 0>>).value = <<0, 0>>
      BY DEF TLV
    <3>3. v = x.value
      OBVIOUS
    <3> HIDE DEF x, v
    <3> QED BY <3>1, <3>2, <3>3, Zenon
  <2>2. v \in Seq(ByteSet) /\ Len(v) >= 2
    <3> HIDE DEF v
    <3>1. CASE v = <<0, 0>>
      BY <3>1, ZeroValues
    <3>2. ASSUME NEW u \in Passed, u.tag = TagThreatScore, v = u.value PROVE v \in Seq(ByteSet) /\ Len(v) >= 2
      <4>1. v \in Seq(ByteSet) /\ ~Short(u)
        BY <3>2, SentAreReadable DEF Readable, Passed
      <4>2. ~(Len(v) < 2)
        BY <3>2, <4>1 DEF Short, TagVersion, TagIntent, TagThreatScore
      <4> QED BY <4>1, <4>2
    <3> QED BY <2>1, <3>1, <3>2
  <2>3. h.ThreatScore = v[1] * ByteValues + v[2]
    BY DEF ParsedHeader, FromBigEndian
  <2> HIDE DEF v, h
  <2>4. v[1] \in ByteSet /\ v[2] \in ByteSet
    <3>1. 1 \in 1..Len(v) /\ 2 \in 1..Len(v)
      BY <2>2
    <3> QED BY <2>2, <3>1, ElementOf, Zenon
  <2>5. v[1] \in Int /\ v[2] \in Int /\ ByteValues \in Int
    BY <2>4, UepsAssumption DEF ByteSet
  <2> QED BY <2>3, <2>5
<1> HIDE DEF h
<1>5. CASE r = [ok |-> TRUE, header |-> h, payload |-> t.value]
  <2>1. r.ok = TRUE /\ r.header = h
    BY <1>5
  <2> QED BY <2>1, <1>3, <1>4, Zenon
<1>6. CASE r = [ok |-> FALSE]
  <2>1. r.ok = FALSE
    BY <1>6
  <2> QED BY <2>1, Zenon
<1> QED BY <1>2, <1>5, <1>6

\* Everything on the wire was sent, every result is one of ReadAndVerify, the map
\* is from bytes, and whoever waits for the lock has a handler to register.
HandlerValues == {NoHandler} \cup {r.handler : r \in Registrations}

UepsTypes ==
    /\ outgoing \in Seq(ScenarioPackets)
    /\ wire \in Seq(SentTriples)
    /\ outcomes \in Seq(Results)
    /\ handlers \in [Intents -> HandlerValues]
    /\ DOMAIN regs = Registrars
    /\ \A g \in Registrars : regs[g] \in Seq(Registrations)
    /\ waiting \subseteq {g \in Registrars : regs[g] # <<>>}
    /\ dpc \in {"read", "ended", "panicked"} \/ (pkt \in Results /\ pkt.ok)
    /\ found \in HandlerValues
    /\ eligible \subseteq HandlerValues
    /\ ran \in Seq([at : Nat, handler : HandlerValues, eligible : SUBSET HandlerValues])

\* The first state is typed.
LEMMA UepsTypesInit == UepsInit => UepsTypes
<1> SUFFICES ASSUME UepsInit PROVE UepsTypes
  OBVIOUS
<1>1. PICK s \in Scenarios :
         /\ outgoing = s.packets
         /\ regs = s.registrations
  BY DEF UepsInit
<1>2. outgoing \in Seq(ScenarioPackets)
  <2>1. s.packets \in Seq({q \in Elements(s.packets) : Buildable(q)})
    BY UepsAssumption
  <2> DEFINE B == {q \in Elements(s.packets) : Buildable(q)}
  <2>2. B \subseteq ScenarioPackets
    BY DEF ScenarioPackets
  <2> HIDE DEF B
  <2> QED BY <1>1, <2>1, <2>2 DEF B
<1>3. DOMAIN regs = Registrars /\ \A g \in Registrars : regs[g] \in Seq(Registrations)
  <2>1. DOMAIN s.registrations = Registrars
    BY UepsAssumption
  <2>2. ASSUME NEW g \in Registrars PROVE s.registrations[g] \in Seq(Registrations)
    <3> DEFINE c == s.registrations[g]
               C == {r \in Elements(c) : r.intent \in Intents}
    <3>1. c \in Seq(C)
      BY UepsAssumption
    <3>2. C \subseteq Registrations
      BY DEF Registrations
    <3> HIDE DEF c, C
    <3>3. c \in Seq(Registrations)
      BY <3>1, <3>2
    <3> QED BY <3>3 DEF c
  <2> QED BY <1>1, <2>1, <2>2
<1>4. handlers \in [Intents -> HandlerValues] /\ found \in HandlerValues
  BY DEF UepsInit, HandlerValues
<1>5. dpc = "read" /\ wire = <<>> /\ outcomes = <<>> /\ ran = <<>> /\ waiting = {} /\ eligible = {}
  BY DEF UepsInit
<1>6. /\ wire \in Seq(SentTriples)
      /\ outcomes \in Seq(Results)
      /\ ran \in Seq([at : Nat, handler : HandlerValues, eligible : SUBSET HandlerValues])
  BY <1>5, EmptyIn, Zenon
<1> QED BY <1>2, <1>3, <1>4, <1>5, <1>6, Zenon DEF UepsTypes

\* A call of RegisterHandler is for a byte.
LEMMA RegistrationIsTyped ==
    ASSUME NEW r \in Registrations
    PROVE  r.intent \in Intents /\ r.handler \in HandlerValues
<1>1. PICK s \in Scenarios : \E g \in Registrars : r \in Elements(s.registrations[g])
  BY DEF Registrations
<1>2. PICK g \in Registrars : r \in Elements(s.registrations[g])
  BY <1>1
<1> DEFINE c == s.registrations[g]
           C == {q \in Elements(c) : q.intent \in Intents}
<1>3. c \in Seq(C) /\ r \in Elements(c)
  BY <1>2, UepsAssumption
<1>4. r \in C
  <2> HIDE DEF c, C
  <2>1. Elements(c) \subseteq C
    BY <1>3 DEF Elements
  <2> QED BY <1>3, <2>1
<1>5. r.intent \in Intents
  BY <1>4
<1> QED BY <1>5 DEF HandlerValues

\* What RegisterHandler does to the dispatcher's map and lock.
LEMMA RegisterTypes ==
    ASSUME UepsTypes, NEW g \in Registrars, RegisterHandler(g)
    PROVE  UepsTypes' /\ Head(regs[g]) \in Registrations /\ UNCHANGED <<dpc, pkt>>
<1> DEFINE r == Head(regs[g])
<1>1. regs[g] \in Seq(Registrations) /\ regs[g] # <<>>
  BY DEF UepsTypes, RegisterHandler
<1>2. r \in Registrations /\ Tail(regs[g]) \in Seq(Registrations)
  <2> DEFINE c == regs[g]
  <2>1. c \in Seq(Registrations) /\ c # <<>>
    BY <1>1
  <2> HIDE DEF c
  <2>2. Head(c) \in Registrations /\ Tail(c) \in Seq(Registrations)
    BY <2>1
  <2> QED BY <2>2 DEF c
<1> HIDE DEF r
<1>3. r.intent \in Intents /\ r.handler \in HandlerValues
  BY <1>2, RegistrationIsTyped
<1>4. /\ handlers' = [handlers EXCEPT ![r.intent] = r.handler]
      /\ eligible' = eligible \/ eligible' = eligible \cup {r.handler}
  BY DEF RegisterHandler, r
<1>5. handlers' \in [Intents -> HandlerValues] /\ eligible' \subseteq HandlerValues
  BY <1>3, <1>4 DEF UepsTypes
<1>6. /\ regs' = [regs EXCEPT ![g] = Tail(regs[g])]
      /\ waiting' = waiting \ {g}
  BY DEF RegisterHandler
<1>7. /\ DOMAIN regs' = Registrars
      /\ \A x \in Registrars : regs'[x] \in Seq(Registrations)
      /\ waiting' \subseteq {x \in Registrars : regs'[x] # <<>>}
  BY <1>2, <1>6 DEF UepsTypes
<1>8. UNCHANGED <<outgoing, wire, outcomes, dpc, pkt, found, ran>>
  BY DEF RegisterHandler, peerVars, dispatchVars
<1> QED BY <1>2, <1>5, <1>7, <1>8 DEF UepsTypes, r

\* What ReadAndVerify does when it finds a payload tag.
LEMMA ReadResult ==
    ASSUME UepsTypes, ReadAndVerify
    PROVE  /\ wire' \in Seq(SentTriples)
           /\ \E r \in Results :
                 /\ outcomes' = Append(outcomes, r)
                 /\ \/ r.ok /\ pkt' = r /\ dpc' = "breaker"
                         /\ eligible' = {handlers[r.header.IntentID]}
                    \/ ~r.ok /\ UNCHANGED <<pkt, dpc, eligible>>
<1>1. PICK n \in DOMAIN wire :
         /\ \A i \in 1..(n - 1) : Passes(wire[i])
         /\ wire' = SubSeq(wire, n + 1, Len(wire))
         /\ \E r \in {Verify(SubSeq(wire, 1, n - 1), wire[n].value)} :
               /\ outcomes' = Append(outcomes, r)
               /\ IF r.ok
                    THEN /\ pkt' = r
                         /\ dpc' = "breaker"
                         /\ eligible' = {handlers[r.header.IntentID]}
                    ELSE UNCHANGED <<pkt, dpc, eligible>>
  BY DEF ReadAndVerify
<1>2. wire \in Seq(SentTriples) /\ n \in 1..Len(wire) /\ Len(wire) \in Nat
  <2>1. wire \in Seq(SentTriples)
    BY Zenon DEF UepsTypes
  <2> QED BY <2>1, PlacesOf, Zenon
<1> DEFINE k == Len(wire)
<1>a. k \in Nat /\ n \in 1..k
  BY <1>2
<1> HIDE DEF k
<1>b. n + 1 \in 1..(k + 1) /\ k \in 0..k /\ n - 1 \in 0..k /\ \A i \in 1..(n - 1) : i \in 1..k
  BY <1>a
<1>3. wire' \in Seq(SentTriples)
  BY <1>1, <1>2, <1>b, PartIn, Zenon DEF k
<1>4. SubSeq(wire, 1, n - 1) \in Seq(Passed) /\ wire[n] \in SentTriples
  <2>1. ASSUME NEW i \in 1..(n - 1) PROVE wire[i] \in Passed
    <3>1. wire[i] \in SentTriples
      BY <1>2, <1>b, ElementOf, Zenon DEF k
    <3>2. ~Short(wire[i])
      BY <1>1, Zenon DEF Passes
    <3> QED BY <3>1, <3>2, Zenon DEF Passed
  <2>2. SubSeq(wire, 1, n - 1) \in Seq(Passed)
    BY <1>2, <1>b, <2>1, PrefixIn, Zenon DEF k
  <2>3. wire[n] \in SentTriples
    BY <1>2, ElementOf, Zenon
  <2> QED BY <2>2, <2>3
<1> DEFINE r == Verify(SubSeq(wire, 1, n - 1), wire[n].value)
<1>5. r \in Results
  <2> DEFINE a == SubSeq(wire, 1, n - 1)
             b == wire[n]
  <2>1. a \in Seq(Passed) /\ b \in SentTriples
    BY <1>4
  <2>2. r = Verify(a, b.value)
    OBVIOUS
  <2> HIDE DEF a, b, r
  <2> QED BY <2>1, <2>2 DEF Results
<1>6. /\ outcomes' = Append(outcomes, r)
      /\ IF r.ok
           THEN /\ pkt' = r
                /\ dpc' = "breaker"
                /\ eligible' = {handlers[r.header.IntentID]}
           ELSE UNCHANGED <<pkt, dpc, eligible>>
  BY <1>1, Zenon
<1> HIDE DEF r
<1> QED BY <1>3, <1>5, <1>6, Zenon

\* Every step keeps the types.
LEMMA UepsTypesStep == UepsTypes /\ [UepsNext]_uepsVars => UepsTypes'
<1> SUFFICES ASSUME UepsTypes, [UepsNext]_uepsVars PROVE UepsTypes'
  OBVIOUS
<1>0. dpc' \in {"read", "ended", "panicked"} \/ (pkt' \in Results /\ pkt'.ok)
  <2>1. dpc \in {"read", "ended", "panicked"} \/ (pkt \in Results /\ pkt.ok)
    BY DEF UepsTypes
  <2>2. CASE ReadAndVerify
    <3>1. \/ \E r \in Results : r.ok /\ pkt' = r
          \/ UNCHANGED <<pkt, dpc>>
      BY <2>2, ReadResult
    <3> QED BY <2>1, <3>1, Zenon
  <2>3. CASE ReadPanics \/ ReadEnds \/ CallHandler
    <3>1. dpc' \in {"read", "ended", "panicked"}
      BY <2>3 DEF ReadPanics, ReadEnds, CallHandler
    <3> QED BY <3>1
  <2>4. CASE Breaker \/ Lookup
    <3>1. dpc \notin {"read", "ended", "panicked"} /\ pkt' = pkt
      BY <2>4 DEF Breaker, Lookup
    <3> QED BY <2>1, <3>1
  <2>5. CASE \/ Build \/ Cut \/ BeginIteration \/ Yield \/ EndIteration \/ UNCHANGED uepsVars
             \/ \E g \in Registrars : AwaitLock(g) \/ RegisterHandler(g)
    <3>1. UNCHANGED <<dpc, pkt>>
      BY <2>5 DEF Build, Cut, BeginIteration, Yield, EndIteration, AwaitLock, RegisterHandler,
                  uepsVars, dispatchVars
    <3> QED BY <2>1, <3>1
  <2> QED BY <2>2, <2>3, <2>4, <2>5 DEF UepsNext, Receive
<1>1. CASE Build
  <2> DEFINE p == Head(outgoing)
  <2>1. outgoing # <<>> /\ outgoing \in Seq(ScenarioPackets)
    BY <1>1 DEF Build, UepsTypes
  <2>2. p \in ScenarioPackets /\ Tail(outgoing) \in Seq(ScenarioPackets)
    BY <2>1
  <2> HIDE DEF p
  <2>5. OnTheWire(p) \in Seq(SentTriples)
    BY <2>2, SentAreReadable
  <2>6. wire' = wire \/ wire' = wire \o OnTheWire(p)
    BY <1>1 DEF Build, p
  <2>7. wire' \in Seq(SentTriples)
    <3>1. wire \in Seq(SentTriples)
      BY DEF UepsTypes
    <3> DEFINE w == OnTheWire(p)
    <3>2. w \in Seq(SentTriples) /\ (wire' = wire \/ wire' = wire \o w)
      BY <2>5, <2>6
    <3> HIDE DEF w
    <3>3. wire \o w \in Seq(SentTriples)
      BY <3>1, <3>2
    <3> QED BY <3>1, <3>2, <3>3, Zenon
  <2>8. /\ outgoing' = Tail(outgoing)
        /\ UNCHANGED <<outcomes, handlers, regs, waiting, found, eligible, ran>>
    BY <1>1 DEF Build, dispatchVars, mapVars
  <2> QED BY <2>2, <2>7, <2>8, <1>0 DEF UepsTypes
<1>2. CASE Cut
  <2>1. PICK n \in 0..Len(wire) : wire' = SubSeq(wire, 1, n)
    BY <1>2 DEF Cut
  <2>2. wire' \in Seq(SentTriples)
    <3>1. wire \in Seq(SentTriples)
      BY Zenon DEF UepsTypes
    <3> DEFINE k == Len(wire)
    <3>2. k \in Nat /\ n \in 0..k
      BY <3>1, PlacesOf, Zenon
    <3> HIDE DEF k
    <3>3. 1 \in 1..(k + 1)
      BY <3>2
    <3> QED BY <2>1, <3>1, <3>3, PartIn, Zenon DEF k
  <2>3. UNCHANGED <<outgoing, outcomes, handlers, regs, waiting, found, eligible, ran>>
    BY <1>2 DEF Cut, dispatchVars, mapVars
  <2> QED BY <2>2, <2>3, <1>0 DEF UepsTypes
<1>3. CASE ReadAndVerify
  <2>1. PICK r \in Results :
           /\ outcomes' = Append(outcomes, r)
           /\ \/ r.ok /\ pkt' = r /\ dpc' = "breaker"
                   /\ eligible' = {handlers[r.header.IntentID]}
              \/ ~r.ok /\ UNCHANGED <<pkt, dpc, eligible>>
    BY <1>3, ReadResult, Zenon
  <2>2. outcomes' \in Seq(Results)
    <3>1. outcomes \in Seq(Results)
      BY Zenon DEF UepsTypes
    <3> QED BY <2>1, <3>1, AppendIn, Zenon
  <2>3. eligible' \subseteq HandlerValues
    <3>1. CASE r.ok
      <4>1. r.header.IntentID \in Intents
        BY <3>1, ResultIsTyped, Zenon
      <4>2. eligible' = {handlers[r.header.IntentID]}
        BY <3>1, <2>1, Zenon
      <4> QED BY <4>1, <4>2 DEF UepsTypes
    <3>2. CASE ~r.ok
      <4>1. eligible' = eligible
        BY <3>2, <2>1, Zenon
      <4> QED BY <4>1 DEF UepsTypes
    <3> QED BY <3>1, <3>2, Zenon
  <2>4. wire' \in Seq(SentTriples)
    BY <1>3, ReadResult, Zenon
  <2>5. UNCHANGED <<outgoing, handlers, regs, waiting, found, ran>>
    BY <1>3 DEF ReadAndVerify, peerVars, mapVars
  <2> QED BY <2>2, <2>3, <2>4, <2>5, <1>0 DEF UepsTypes
<1>4. CASE ReadEnds
  <2>1. wire' \in Seq(SentTriples)
    BY <1>4, EmptyIn, Zenon DEF ReadEnds
  <2>2. UNCHANGED <<outgoing, outcomes, handlers, regs, waiting, found, eligible, ran>>
    BY <1>4 DEF ReadEnds, peerVars, mapVars
  <2> QED BY <2>1, <2>2, <1>0 DEF UepsTypes
<1>5. CASE Breaker \/ ReadPanics
  <2>1. UNCHANGED <<outgoing, wire, outcomes, handlers, regs, waiting, found, eligible, ran>>
    BY <1>5 DEF Breaker, ReadPanics, peerVars, mapVars
  <2> QED BY <2>1, <1>0 DEF UepsTypes
<1>6. CASE Lookup
  <2>1. found' = handlers[pkt.header.IntentID] /\ dpc = "lookup"
    BY <1>6 DEF Lookup
  <2>2. pkt.header.IntentID \in Intents
    <3>1. pkt \in Results /\ pkt.ok
      BY <2>1, Zenon DEF UepsTypes
    <3> QED BY <3>1, ResultIsTyped, Zenon
  <2>3. found' \in HandlerValues
    BY <2>1, <2>2 DEF UepsTypes
  <2>4. UNCHANGED <<outgoing, wire, outcomes, handlers, regs, waiting, eligible, ran>>
    BY <1>6 DEF Lookup, peerVars, mapVars
  <2> QED BY <2>3, <2>4, <1>0 DEF UepsTypes
<1>7. CASE CallHandler
  <2> DEFINE x == [at |-> Len(outcomes), handler |-> found, eligible |-> eligible]
             S == [at : Nat, handler : HandlerValues, eligible : SUBSET HandlerValues]
  <2>1. ran \in Seq(S) /\ x \in S
    <3>1. /\ ran \in Seq(S) /\ outcomes \in Seq(Results)
          /\ found \in HandlerValues /\ eligible \in SUBSET HandlerValues
      BY Zenon DEF UepsTypes
    <3>2. Len(outcomes) \in Nat
      BY <3>1
    <3> QED BY <3>1, <3>2
  <2>2. ran' = Append(ran, x) /\ found' = NoHandler
    BY <1>7 DEF CallHandler
  <2> HIDE DEF x, S
  <2>3. UNCHANGED <<outgoing, wire, outcomes, handlers, regs, waiting, eligible>>
    BY <1>7 DEF CallHandler, peerVars, mapVars
  <2>4. found' \in HandlerValues
    BY <2>2 DEF HandlerValues
  <2>5. ran' \in Seq(S)
    BY <2>1, <2>2
  <2> QED BY <2>3, <2>4, <2>5, <1>0 DEF UepsTypes, S
<1>8. ASSUME NEW g \in Registrars, AwaitLock(g) PROVE UepsTypes'
  BY <1>8, <1>0 DEF AwaitLock, UepsTypes, peerVars, dispatchVars
<1>9. ASSUME NEW g \in Registrars, RegisterHandler(g) PROVE UepsTypes'
  BY <1>9, <1>0, RegisterTypes
<1>10. CASE BeginIteration \/ Yield \/ EndIteration \/ UNCHANGED uepsVars
  BY <1>10, <1>0 DEF BeginIteration, Yield, EndIteration, UepsTypes, uepsVars, peerVars,
               dispatchVars, mapVars
<1> QED BY <1>1, <1>2, <1>3, <1>4, <1>5, <1>6, <1>7, <1>8, <1>9, <1>10
        DEF UepsNext, Receive

\* The handlers that have run, against the results of ReadAndVerify: in bounds, in
\* order, and each for a result that is there.
RanFor(rn, oc) ==
    /\ \A k \in DOMAIN rn :
          /\ rn[k].at \in 1..Len(oc)
          /\ oc[rn[k].at].ok
          /\ oc[rn[k].at].header.ThreatScore <= ThreatScoreThreshold
          /\ rn[k].handler \in rn[k].eligible \ {NoHandler}
    /\ \A k, l \in DOMAIN rn : k < l => rn[k].at < rn[l].at

\* No handler has run for the last result yet.
NotYetRun(rn, oc) == \A k \in DOMAIN rn : rn[k].at < Len(oc)

\* While a packet is dispatched, it is the last result and no handler has run for
\* it; past the breaker its score is within the threshold; until the lookup, the
\* handler registered now is one it may get, and from then on the one found is.
UepsInv ==
    /\ UepsTypes
    /\ RanFor(ran, outcomes)
    /\ dpc \in {"read", "ended", "panicked", "breaker", "lookup", "call"}
    /\ dpc \in {"breaker", "lookup", "call"} =>
          /\ Len(outcomes) > 0 /\ pkt = outcomes[Len(outcomes)]
          /\ NotYetRun(ran, outcomes)
    /\ dpc \in {"lookup", "call"} => pkt.header.ThreatScore <= ThreatScoreThreshold
    /\ dpc \in {"breaker", "lookup"} => handlers[pkt.header.IntentID] \in eligible
    /\ dpc = "call" => found \in eligible \ {NoHandler}

\* A further result changes nothing for the handlers that have run.
LEMMA RanForMore ==
    ASSUME NEW R, NEW rn, NEW oc \in Seq(R), NEW r \in R, RanFor(rn, oc)
    PROVE  RanFor(rn, Append(oc, r)) /\ NotYetRun(rn, Append(oc, r))
<1> DEFINE o == Append(oc, r)
<1>1. Len(o) = Len(oc) + 1 /\ Len(oc) \in Nat /\ \A i \in 1..Len(oc) : o[i] = oc[i]
  OBVIOUS
<1> HIDE DEF o
<1>2. \A k \in DOMAIN rn : rn[k].at \in 1..Len(oc) /\ o[rn[k].at] = oc[rn[k].at]
  BY <1>1 DEF RanFor
<1>3. \A k \in DOMAIN rn : rn[k].at \in 1..Len(o) /\ rn[k].at < Len(o)
  BY <1>1, <1>2
<1>4. RanFor(rn, o)
  <2>1. ASSUME NEW k \in DOMAIN rn
        PROVE  /\ rn[k].at \in 1..Len(o)
               /\ o[rn[k].at].ok
               /\ o[rn[k].at].header.ThreatScore <= ThreatScoreThreshold
               /\ rn[k].handler \in rn[k].eligible \ {NoHandler}
    BY <1>2, <1>3, Zenon DEF RanFor
  <2>2. \A k, l \in DOMAIN rn : k < l => rn[k].at < rn[l].at
    BY Zenon DEF RanFor
  <2> QED BY <2>1, <2>2, Zenon DEF RanFor
<1> QED BY <1>3, <1>4 DEF NotYetRun, o

\* A sequence with one more element.
LEMMA AppendFacts ==
    ASSUME NEW S, NEW s \in Seq(S), NEW x \in S
    PROVE  /\ Append(s, x)[Len(s) + 1] = x
           /\ \A k \in DOMAIN s : Append(s, x)[k] = s[k]
           /\ \A k \in DOMAIN Append(s, x) : k \in DOMAIN s \/ k = Len(s) + 1
           /\ \A k \in DOMAIN s : k \in Nat /\ k < Len(s) + 1
           /\ \A k, l \in DOMAIN Append(s, x) : k < l => k \in DOMAIN s
OBVIOUS

\* A handler that runs for the last result, for the first time.
LEMMA RanForLast ==
    ASSUME NEW S, NEW rn \in Seq(S), NEW x \in S, NEW oc, RanFor(rn, oc), NotYetRun(rn, oc),
           Len(oc) \in Nat, Len(oc) > 0, x.at = Len(oc), oc[Len(oc)].ok,
           oc[Len(oc)].header.ThreatScore <= ThreatScoreThreshold,
           x.handler \in x.eligible \ {NoHandler}
    PROVE  RanFor(Append(rn, x), oc)
<1> DEFINE q == Append(rn, x)
           n == Len(rn) + 1
<1>1. /\ q[n] = x
      /\ \A k \in DOMAIN rn : q[k] = rn[k]
      /\ \A k \in DOMAIN q : k \in DOMAIN rn \/ k = n
      /\ \A k, l \in DOMAIN q : k < l => k \in DOMAIN rn
  BY AppendFacts, Zenon
<1> HIDE DEF q, n
<1>2. Len(oc) \in 1..Len(oc)
  <2> DEFINE k == Len(oc)
  <2>1. k \in Nat /\ k > 0
    OBVIOUS
  <2> HIDE DEF k
  <2>2. k \in 1..k
    BY <2>1
  <2> QED BY <2>2 DEF k
<1>3. ASSUME NEW k \in DOMAIN q
      PROVE  /\ q[k].at \in 1..Len(oc)
             /\ oc[q[k].at].ok
             /\ oc[q[k].at].header.ThreatScore <= ThreatScoreThreshold
             /\ q[k].handler \in q[k].eligible \ {NoHandler}
  <2>1. CASE k \in DOMAIN rn
    <3>1. q[k] = rn[k]
      BY <1>1, <2>1, Zenon
    <3> QED BY <2>1, <3>1, Zenon DEF RanFor
  <2>2. CASE k = n
    BY <1>1, <1>2, <2>2, Zenon
  <2> QED BY <1>1, <2>1, <2>2, Zenon
<1>4. ASSUME NEW k \in DOMAIN q, NEW l \in DOMAIN q, k < l PROVE q[k].at < q[l].at
  <2>1. k \in DOMAIN rn /\ q[k] = rn[k]
    BY <1>1, <1>4, Zenon
  <2>2. CASE l \in DOMAIN rn
    BY <1>1, <1>4, <2>1, <2>2, Zenon DEF RanFor
  <2>3. CASE l = n
    BY <1>1, <2>1, <2>3, Zenon DEF NotYetRun
  <2> QED BY <1>1, <2>2, <2>3, Zenon
<1> QED BY <1>3, <1>4, Zenon DEF RanFor, q

\* The reader's steps keep the invariant.
LEMMA ReadStep ==
    ASSUME UepsInv, UepsTypes', ReadAndVerify \/ ReadPanics \/ ReadEnds
    PROVE  UepsInv'
<1>1. CASE ReadAndVerify
  <2>1. PICK r \in Results :
           /\ outcomes' = Append(outcomes, r)
           /\ \/ r.ok /\ pkt' = r /\ dpc' = "breaker"
                   /\ eligible' = {handlers[r.header.IntentID]}
              \/ ~r.ok /\ UNCHANGED <<pkt, dpc, eligible>>
    BY <1>1, ReadResult, Zenon DEF UepsInv
  <2>2. dpc = "read" /\ ran' = ran /\ handlers' = handlers
    BY <1>1 DEF ReadAndVerify, mapVars
  <2>3. outcomes \in Seq(Results)
    BY DEF UepsInv, UepsTypes
  <2>4. RanFor(ran', outcomes') /\ NotYetRun(ran', outcomes')
    BY <2>1, <2>2, <2>3, RanForMore DEF UepsInv
  <2>5. Len(outcomes') > 0 /\ outcomes'[Len(outcomes')] = r
    BY <2>1, <2>3
  <2>6. CASE dpc' = "breaker" /\ pkt' = r /\ eligible' = {handlers[r.header.IntentID]}
    BY <2>2, <2>4, <2>5, <2>6 DEF UepsInv
  <2>7. CASE dpc' = dpc
    BY <2>2, <2>4, <2>7 DEF UepsInv
  <2> QED BY <2>1, <2>6, <2>7, Zenon
<1>2. CASE ReadPanics \/ ReadEnds
  <2>1. dpc' \in {"ended", "panicked"} /\ UNCHANGED <<ran, outcomes>>
    BY <1>2 DEF ReadPanics, ReadEnds
  <2> QED BY <2>1 DEF UepsInv
<1> QED BY <1>1, <1>2

\* The steps of Dispatch keep the invariant.
LEMMA DispatchStep ==
    ASSUME UepsInv, UepsTypes', Breaker \/ Lookup \/ CallHandler
    PROVE  UepsInv'
<1>1. dpc \in {"breaker", "lookup", "call"} => pkt \in Results /\ pkt.ok
  BY Zenon DEF UepsInv, UepsTypes
<1>2. CASE Breaker
  <2>1. /\ dpc = "breaker" /\ UNCHANGED <<outcomes, pkt, ran, eligible, handlers>>
        /\ \/ dpc' = "read"
           \/ dpc' = "lookup" /\ ~(pkt.header.ThreatScore > ThreatScoreThreshold)
    BY <1>2 DEF Breaker, Exceeds, mapVars
  <2>2. pkt.header.ThreatScore \in Int
    BY <1>1, <2>1, ResultIsTyped, Zenon
  <2>3. dpc' = "lookup" => pkt.header.ThreatScore <= ThreatScoreThreshold
    <3> DEFINE score == pkt.header.ThreatScore
    <3>1. score \in Int /\ (dpc' = "lookup" => ~(score > ThreatScoreThreshold))
      BY <2>1, <2>2
    <3> HIDE DEF score
    <3>2. ThreatScoreThreshold \in Int
      BY UepsAssumption
    <3>3. dpc' = "lookup" => score <= ThreatScoreThreshold
      BY <3>1, <3>2
    <3> QED BY <3>3 DEF score
  <2>4. dpc' = "read" \/ dpc' = "lookup"
    BY <2>1
  <2> QED BY <2>1, <2>3, <2>4 DEF UepsInv
<1>3. CASE Lookup
  <2>1. /\ dpc = "lookup" /\ UNCHANGED <<outcomes, pkt, ran, eligible, handlers>>
        /\ found' = handlers[pkt.header.IntentID]
        /\ \/ dpc' = "read"
           \/ dpc' = "call" /\ found' # NoHandler
    BY <1>3 DEF Lookup, mapVars
  <2> QED BY <2>1 DEF UepsInv
<1>4. CASE CallHandler
  <2> DEFINE x == [at |-> Len(outcomes), handler |-> found, eligible |-> eligible]
             S == [at : Nat, handler : HandlerValues, eligible : SUBSET HandlerValues]
  <2>1. dpc = "call" /\ dpc' = "read" /\ ran' = Append(ran, x) /\ outcomes' = outcomes
    BY <1>4 DEF CallHandler
  <2>2. ran \in Seq(S) /\ outcomes \in Seq(Results) /\ x \in S
    <3>1. /\ ran \in Seq(S) /\ outcomes \in Seq(Results)
          /\ found \in HandlerValues /\ eligible \in SUBSET HandlerValues
      BY Zenon DEF UepsInv, UepsTypes
    <3>2. Len(outcomes) \in Nat
      BY <3>1
    <3> QED BY <3>1, <3>2
  <2>3. /\ x.at = Len(outcomes) /\ x.handler \in x.eligible \ {NoHandler}
        /\ Len(outcomes) \in Nat
    BY <2>1, <2>2 DEF UepsInv
  <2>4. /\ RanFor(ran, outcomes) /\ NotYetRun(ran, outcomes) /\ Len(outcomes) > 0
        /\ pkt = outcomes[Len(outcomes)]
        /\ pkt.header.ThreatScore <= ThreatScoreThreshold
    BY <2>1 DEF UepsInv
  <2>5. outcomes[Len(outcomes)].ok
    BY <1>1, <2>1, <2>4, Zenon
  <2> HIDE DEF x, S
  <2>6. RanFor(ran', outcomes')
    BY <2>1, <2>2, <2>3, <2>4, <2>5, RanForLast
  <2> QED BY <2>1, <2>6 DEF UepsInv
<1> QED BY <1>2, <1>3, <1>4

\* A registration keeps the invariant: the handler of the packet being dispatched
\* is replaced by one it may get.
LEMMA RegisterStep ==
    ASSUME UepsInv, UepsTypes', NEW g \in Registrars, RegisterHandler(g)
    PROVE  UepsInv'
<1> DEFINE r == Head(regs[g])
<1>1. r.intent \in Intents /\ handlers \in [Intents -> HandlerValues]
  BY RegisterTypes, RegistrationIsTyped DEF UepsInv, UepsTypes
<1> HIDE DEF r
<1>2. /\ handlers' = [handlers EXCEPT ![r.intent] = r.handler]
      /\ eligible' = IF dpc \in {"breaker", "lookup"} /\ pkt.header.IntentID = r.intent
                       THEN eligible \cup {r.handler} ELSE eligible
      /\ UNCHANGED <<outcomes, dpc, pkt, found, ran>>
  BY DEF RegisterHandler, dispatchVars, r
<1>3. ASSUME dpc \in {"breaker", "lookup"} PROVE handlers'[pkt.header.IntentID] \in eligible'
  <2>1. pkt \in Results /\ pkt.ok
    BY <1>3, Zenon DEF UepsInv, UepsTypes
  <2>2. pkt.header.IntentID \in Intents
    BY <2>1, ResultIsTyped, Zenon
  <2>3. handlers[pkt.header.IntentID] \in eligible
    BY <1>3 DEF UepsInv
  <2> QED BY <1>1, <1>2, <1>3, <2>2, <2>3
<1>4. eligible \subseteq eligible'
  BY <1>2
<1> QED BY <1>2, <1>3, <1>4 DEF UepsInv

\* The invariant holds throughout.
LEMMA UepsInductive == UepsSpec => []UepsInv
<1>1. UepsInit => UepsInv
  <2> SUFFICES ASSUME UepsInit PROVE UepsInv
    OBVIOUS
  <2>1. UepsTypes
    BY UepsTypesInit
  <2>2. ran = <<>> /\ dpc = "read"
    BY DEF UepsInit
  <2>3. RanFor(ran, outcomes)
    <3>1. DOMAIN ran = {}
      BY <2>2
    <3> QED BY <3>1, Zenon DEF RanFor
  <2> QED BY <2>1, <2>2, <2>3 DEF UepsInv
<1>2. UepsInv /\ [UepsNext]_uepsVars => UepsInv'
  <2> SUFFICES ASSUME UepsInv, [UepsNext]_uepsVars PROVE UepsInv'
    OBVIOUS
  <2>1. UepsTypes'
    BY UepsTypesStep DEF UepsInv
  <2>2. CASE Receive
    BY <2>1, <2>2, ReadStep, DispatchStep, Zenon DEF Receive
  <2>3. ASSUME NEW g \in Registrars, RegisterHandler(g) PROVE UepsInv'
    BY <2>1, <2>3, RegisterStep
  <2>4. CASE \/ Build \/ Cut \/ BeginIteration \/ Yield \/ EndIteration \/ UNCHANGED uepsVars
             \/ \E g \in Registrars : AwaitLock(g)
    <3>1. UNCHANGED <<outcomes, dpc, pkt, found, ran, eligible, handlers>>
      BY <2>4 DEF Build, Cut, BeginIteration, Yield, EndIteration, AwaitLock,
                  uepsVars, dispatchVars, mapVars
    <3> QED BY <2>1, <3>1 DEF UepsInv
  <2> QED BY <2>2, <2>3, <2>4 DEF UepsNext
<1> QED BY <1>1, <1>2, PTL DEF UepsSpec

\* Dispatch runs a handler only for a packet that ReadAndVerify has accepted and
\* whose threat score is within the threshold, at most once for each and in the
\* order of arrival, and only one that was registered for the packet's intent
\* while it ran: for any packets, registrations, iterations and number of bytes.
THEOREM DispatchInBounds == UepsSpec => []HandledInBounds
<1>1. UepsInv => HandledInBounds
  BY Zenon DEF UepsInv, RanFor, HandledInBounds
<1> QED BY <1>1, UepsInductive, PTL

\* What an iteration over Handlers has yielded stays registered until it ends,
\* because a registration waits for the read lock to be released.
THEOREM IterationsAreSnapshots == UepsSpec => []IterationIsSnapshot
<1>1. UepsInit => IterationIsSnapshot
  BY DEF UepsInit, IterationIsSnapshot
<1>2. IterationIsSnapshot /\ [UepsNext]_uepsVars => IterationIsSnapshot'
  <2> SUFFICES ASSUME IterationIsSnapshot, [UepsNext]_uepsVars PROVE IterationIsSnapshot'
    OBVIOUS
  <2>1. CASE BeginIteration \/ EndIteration
    BY <2>1 DEF BeginIteration, EndIteration, IterationIsSnapshot
  <2>2. CASE Yield
    <3>1. PICK i \in Unyielded : yielded' = yielded \cup {<<i, handlers[i]>>}
      BY <2>2 DEF Yield
    <3>2. iterating /\ handlers' = handlers
      BY <2>2 DEF Yield, mapVars
    <3> QED BY <3>1, <3>2 DEF IterationIsSnapshot
  <2>3. CASE \E g \in Registrars : RegisterHandler(g)
    <3>1. ~iterating /\ iterating' = iterating
      BY <2>3 DEF RegisterHandler, iterVars
    <3> QED BY <3>1, Zenon DEF IterationIsSnapshot
  <2>4. CASE \/ Build \/ Cut \/ Receive \/ UNCHANGED uepsVars
             \/ \E g \in Registrars : AwaitLock(g)
    <3>1. UNCHANGED <<handlers, iterating, yielded>>
      BY <2>4 DEF Build, Cut, Receive, ReadAndVerify, ReadPanics, ReadEnds, Breaker, Lookup,
                  CallHandler, AwaitLock, uepsVars, mapVars, iterVars
    <3> QED BY <3>1 DEF IterationIsSnapshot
  <2> QED BY <2>1, <2>2, <2>3, <2>4 DEF UepsNext
<1> QED BY <1>1, <1>2, PTL DEF UepsSpec
================================================================================
