---------------------------------- MODULE Ueps ---------------------------------
(***************************************************************************)
(* Signed UEPS packets and the intent dispatcher behind them.  A peer      *)
(* builds packets with go/ueps/packet.go; the reader of go/ueps/reader.go  *)
(* takes them from the stream tag by tag, verifies them and hands them to  *)
(* the Dispatcher of go/node/dispatcher.go, while other goroutines         *)
(* register handlers and iterate over them under the dispatcher's          *)
(* reader-writer lock.  A packet can be damaged on its way: one of its     *)
(* tags becomes any other, or one of its values another of the same        *)
(* length.  The stream can end anywhere.                                   *)
(*                                                                         *)
(* A tag-length-value triple is one element of the stream.  The MAC is     *)
(* perfect: the pair of the key and the bytes it was computed from.  A     *)
(* triple has it beside its value, whose bytes stand for any MAC.          *)
(***************************************************************************)
EXTENDS Integers, Sequences

CONSTANTS
    Registrars,  \* goroutines that register handlers
    Scenarios,   \* what happens, chosen at the start: the packets the peer builds,
                 \* the calls of RegisterHandler, how many iterations over Handlers
    Secret,      \* the secret the reader shares with the peer
    ByteValues,  \* values of a byte, 256 in the code
    MaxValue,    \* the largest length of a value, 65535 in the code
    ThreatScoreThreshold,
    NoHandler    \* no handler is registered

TagVersion == 1
TagCurrentLay == 2
TagTargetLay == 3
TagIntent == 4
TagThreatScore == 5
TagHMAC == 6
TagPayload == ByteValues - 1
UnknownTag == 7

ByteSet == 0..(ByteValues - 1)

Intents == ByteSet

\* What the builder holds: a header of bytes and a score of two bytes, a payload,
\* and for a later version of the sender triples with tags this one does not know.
\* Then which triple is damaged on the way, 0 for none, and the tag it ends up with.
Buildable(p) ==
    /\ p.header \in [Version : ByteSet, CurrentLayer : ByteSet, TargetLayer : ByteSet,
                     IntentID : Intents, ThreatScore : 0..(ByteValues * ByteValues - 1)]
    /\ p.payload \in Seq(ByteSet)
    /\ p.extra \in Seq([tag : ByteSet \ ((TagVersion..TagHMAC) \cup {TagPayload}),
                       value : Seq(ByteSet), sum : {<<>>}])
    /\ p.damaged \in Nat /\ p.tag \in ByteSet

Elements(seq) == {seq[i] : i \in DOMAIN seq}

ASSUME UepsAssumption ==
    /\ ByteValues \in Nat /\ ByteValues > UnknownTag + 1
    /\ ThreatScoreThreshold \in Nat
    /\ \A s \in Scenarios :
          /\ s.packets \in Seq({p \in Elements(s.packets) : Buildable(p)})
          /\ DOMAIN s.registrations = Registrars
          /\ \A g \in Registrars :
                s.registrations[g]
                  \in Seq({r \in Elements(s.registrations[g]) : r.intent \in Intents})

VARIABLES
    outgoing,    \* packets the peer has still to write
    wire,        \* triples written and not read
    cut,         \* the stream has ended
    dpc,         \* the reader's goroutine: "read", "breaker", "lookup", "call",
                 \* "ended", "panicked"
    pkt,         \* the packet being dispatched
    found,       \* the handler Dispatch has looked up
    handlers,    \* d.handlers
    regs,        \* calls of RegisterHandler not made yet
    waiting,     \* registrars waiting for d.mu
    iterating,   \* an iteration holds d.mu for reading
    iterations, yielded,     \* iterations to come; what the last one has yielded
    packets, outcomes,       \* history: packets written; results of ReadAndVerify
    eligible, ran            \* history: handlers the packet may get; handlers run

peerVars == <<outgoing, cut, packets>>
dispatchVars == <<dpc, pkt, found, ran>>
mapVars == <<handlers, regs, waiting>>
iterVars == <<iterating, iterations, yielded>>
uepsVars == <<peerVars, wire, outcomes, dispatchVars, eligible, mapVars, iterVars>>

--------------------------------------------------------------------------------
TLV(tag, value) == [tag |-> tag, value |-> value, sum |-> <<>>]

\* A 16-bit number, high byte first.
BigEndian(n) == <<n \div ByteValues, n % ByteValues>>

FromBigEndian(b) == b[1] * ByteValues + b[2]

\* The bytes of triples, as they are written and as they are signed.
BytesOf(tlvs) ==
    LET upTo[i \in 0..Len(tlvs)] ==
            IF i = 0 THEN <<>>
            ELSE upTo[i - 1] \o <<tlvs[i].tag>> \o BigEndian(Len(tlvs[i].value))
                             \o tlvs[i].value
    IN  upTo[Len(tlvs)]

\* HMAC over the bytes of the triples and the payload, with the key that
\* derivePacketMACKey gets from the secret.
MAC(secret, tlvs, payload) == <<[key |-> secret, data |-> BytesOf(tlvs) \o payload]>>

\* The triple of a signature, with two bytes for the 32.
SignatureTLV(sum) == [tag |-> TagHMAC, value |-> <<0, 0>>, sum |-> sum]

\* A NewBuilder packet: version, layers, intent and threat score.
NewBuilder(intent, score) ==
    [Version |-> 9 % ByteValues, CurrentLayer |-> 5, TargetLayer |-> 5,
     IntentID |-> intent, ThreatScore |-> score]

HeaderTLVs(h) ==
    <<TLV(TagVersion, <<h.Version>>), TLV(TagCurrentLay, <<h.CurrentLayer>>),
      TLV(TagTargetLay, <<h.TargetLayer>>), TLV(TagIntent, <<h.IntentID>>),
      TLV(TagThreatScore, BigEndian(h.ThreatScore))>>

\* The header, the signature and the payload, in this order.  p.extra is empty
\* for this version of the sender; a later one may sign further triples.
MarshalAndSign(p) ==
    LET head == HeaderTLVs(p.header) \o p.extra
    IN  head \o <<SignatureTLV(MAC(p.secret, head, p.payload)), TLV(TagPayload, p.payload)>>

\* A triple that has got another tag on the way, or kept its tag and got another value.
Damage(t, tag) ==
    IF tag # t.tag THEN [t EXCEPT !.tag = tag]
    ELSE TLV(tag, [i \in DOMAIN t.value |-> (t.value[i] + 1) % ByteValues])

OnTheWire(p) ==
    LET tlvs == MarshalAndSign(p)
    IN  IF p.damaged = 0 THEN tlvs
        ELSE [tlvs EXCEPT ![p.damaged] = Damage(@, p.tag)]

\* writeTLV refuses a value whose length does not fit in two bytes.
TooLarge(p) == Len(p.payload) > MaxValue

\* The peer writes a packet, if it could be built.
Build ==
    /\ outgoing # <<>> /\ ~cut
    /\ LET p == Head(outgoing)
       IN  IF TooLarge(p)
             THEN UNCHANGED <<wire, packets>>
             ELSE /\ wire' = wire \o OnTheWire(p)
                  /\ packets' = Append(packets, p)
    /\ outgoing' = Tail(outgoing)
    /\ UNCHANGED <<cut, outcomes, dispatchVars, eligible, mapVars, iterVars>>

\* The stream ends, with triples that were written lost from its end.
Cut ==
    /\ ~cut
    /\ cut' = TRUE
    /\ \E n \in 0..Len(wire) : wire' = SubSeq(wire, 1, n)
    /\ UNCHANGED <<outgoing, packets, outcomes, dispatchVars, eligible, mapVars, iterVars>>

--------------------------------------------------------------------------------
\* The last triple with a tag, which is the one the reader keeps, or what it starts
\* with.
LastTLV(tlvs, tag, initial) ==
    LET at == {i \in DOMAIN tlvs : tlvs[i].tag = tag}
    IN  IF at = {} THEN TLV(tag, initial)
        ELSE tlvs[CHOOSE i \in at : \A j \in at : i >= j]

\* The header that triples say; other tags say nothing.
ParsedHeader(tlvs) ==
    [Version      |-> LastTLV(tlvs, TagVersion, <<0>>).value[1],
     CurrentLayer |-> LastTLV(tlvs, TagCurrentLay, <<0>>).value[1],
     TargetLayer  |-> LastTLV(tlvs, TagTargetLay, <<0>>).value[1],
     IntentID     |-> LastTLV(tlvs, TagIntent, <<0>>).value[1],
     ThreatScore  |-> FromBigEndian(LastTLV(tlvs, TagThreatScore, <<0, 0>>).value)]

\* A header triple whose value has fewer bytes than the reader takes from it.
Short(t) ==
    \/ t.tag \in TagVersion..TagIntent /\ t.value = <<>>
    \/ t.tag = TagThreatScore /\ Len(t.value) < 2

\* The reader gets from one triple to the next.
Passes(t) == t.tag # TagPayload /\ ~Short(t)

MutSignedPart(tlvs) == SelectSeq(tlvs, LAMBDA t : t.tag < TagHMAC)

\* Every triple before the payload but the signature itself, unknown ones too.
SignedPart(tlvs) == SelectSeq(tlvs, LAMBDA t : t.tag # TagHMAC)

\* What ReadAndVerify makes of the triples up to the payload and of the payload.
\* The signature must be there, and be the one expected.
Verify(tlvs, payload) ==
    LET signature == LastTLV(tlvs, TagHMAC, <<>>)
    IN  IF /\ signature.value # <<>>
           /\ signature.sum = MAC(Secret, SignedPart(tlvs), payload)
          THEN [ok |-> TRUE, header |-> ParsedHeader(tlvs), payload |-> payload]
          ELSE [ok |-> FALSE]

\* A call of ReadAndVerify that gets to a payload tag in the stream takes
\* everything up to it; a packet that verifies goes to Dispatch.
ReadAndVerify ==
    /\ dpc = "read"
    /\ \E n \in DOMAIN wire :
          /\ wire[n].tag = TagPayload
          /\ \A i \in 1..(n - 1) : Passes(wire[i])
          /\ wire' = SubSeq(wire, n + 1, Len(wire))
          /\ \E result \in {Verify(SubSeq(wire, 1, n - 1), wire[n].value)} :
                /\ outcomes' = Append(outcomes, result)
                /\ IF result.ok
                     THEN /\ pkt' = result
                          /\ dpc' = "breaker"
                          /\ eligible' = {handlers[result.header.IntentID]}
                     ELSE UNCHANGED <<pkt, dpc, eligible>>
    /\ UNCHANGED <<peerVars, found, ran, mapVars, iterVars>>

\* A header triple too short for its tag: the index is out of range, and the
\* reader's goroutine panics before it has verified anything.
ReadPanics ==
    /\ dpc = "read"
    /\ \E n \in DOMAIN wire : Short(wire[n]) /\ \A i \in 1..(n - 1) : Passes(wire[i])
    /\ dpc' = "panicked"
    /\ UNCHANGED <<peerVars, wire, outcomes, pkt, found, ran, eligible, mapVars, iterVars>>

\* ReadAndVerify fails at the end of the stream, inside a packet or not.
ReadEnds ==
    /\ dpc = "read" /\ cut
    /\ \A i \in DOMAIN wire : Passes(wire[i])
    /\ dpc' = "ended"
    /\ wire' = <<>>
    /\ UNCHANGED <<peerVars, outcomes, pkt, found, ran, eligible, mapVars, iterVars>>

--------------------------------------------------------------------------------
MutExceeds(score) == score > ThreatScoreThreshold + 1

Exceeds(score) == score > ThreatScoreThreshold

\* Dispatch: the circuit breaker.
Breaker ==
    /\ dpc = "breaker"
    /\ dpc' = IF Exceeds(pkt.header.ThreatScore) THEN "read" ELSE "lookup"
    /\ UNCHANGED <<peerVars, wire, outcomes, pkt, found, ran, eligible, mapVars, iterVars>>

\* Dispatch: the handler is looked up under the read lock, which a waiting
\* writer holds off.
Lookup ==
    /\ dpc = "lookup"
    /\ waiting = {}
    /\ found' = handlers[pkt.header.IntentID]
    /\ dpc' = IF found' = NoHandler THEN "read" ELSE "call"
    /\ UNCHANGED <<peerVars, wire, outcomes, pkt, ran, eligible, mapVars, iterVars>>

\* Dispatch: the handler is called, after the lock is released.
CallHandler ==
    /\ dpc = "call"
    /\ ran' = Append(ran, [at |-> Len(outcomes), handler |-> found, eligible |-> eligible])
    /\ found' = NoHandler
    /\ dpc' = "read"
    /\ UNCHANGED <<peerVars, wire, outcomes, pkt, eligible, mapVars, iterVars>>

\* RegisterHandler asks for the write lock.
AwaitLock(g) ==
    /\ regs[g] # <<>> /\ g \notin waiting
    /\ waiting' = waiting \cup {g}
    /\ UNCHANGED <<peerVars, wire, outcomes, dispatchVars, eligible, handlers, regs, iterVars>>

MutRegister(g) ==
    /\ g \in waiting
    /\ LET r == Head(regs[g])
       IN  /\ handlers' = [handlers EXCEPT ![r.intent] = r.handler]
           /\ eligible' = IF dpc \in {"breaker", "lookup"}
                                /\ pkt.header.IntentID = r.intent
                            THEN eligible \cup {r.handler} ELSE eligible
    /\ regs' = [regs EXCEPT ![g] = Tail(@)]
    /\ waiting' = waiting \ {g}
    /\ UNCHANGED <<peerVars, wire, outcomes, dispatchVars, iterVars>>

MutRegisterKeepsLock(g) ==
    /\ g \in waiting /\ regs[g] # <<>>
    /\ ~iterating
    /\ LET r == Head(regs[g])
       IN  /\ handlers' = [handlers EXCEPT ![r.intent] = r.handler]
           /\ eligible' = IF dpc \in {"breaker", "lookup"}
                                /\ pkt.header.IntentID = r.intent
                            THEN eligible \cup {r.handler} ELSE eligible
    /\ regs' = [regs EXCEPT ![g] = Tail(@)]
    /\ UNCHANGED <<peerVars, wire, outcomes, dispatchVars, waiting, iterVars>>

\* RegisterHandler has the write lock: the intent's handler is replaced.
RegisterHandler(g) ==
    /\ g \in waiting
    /\ ~iterating
    /\ LET r == Head(regs[g])
       IN  /\ handlers' = [handlers EXCEPT ![r.intent] = r.handler]
           /\ eligible' = IF dpc \in {"breaker", "lookup"}
                                /\ pkt.header.IntentID = r.intent
                            THEN eligible \cup {r.handler} ELSE eligible
    /\ regs' = [regs EXCEPT ![g] = Tail(@)]
    /\ waiting' = waiting \ {g}
    /\ UNCHANGED <<peerVars, wire, outcomes, dispatchVars, iterVars>>

\* Handlers: an iteration takes the read lock and keeps it while it yields.
BeginIteration ==
    /\ ~iterating /\ waiting = {}
    /\ iterations > 0
    /\ iterating' = TRUE
    /\ iterations' = iterations - 1
    /\ yielded' = {}
    /\ UNCHANGED <<peerVars, wire, outcomes, dispatchVars, eligible, mapVars>>

\* The entries of the map that the iteration can still yield.
Unyielded == {i \in Intents : handlers[i] # NoHandler /\ \A e \in yielded : e[1] # i}

Yield ==
    /\ iterating
    /\ \E i \in Unyielded : yielded' = yielded \cup {<<i, handlers[i]>>}
    /\ UNCHANGED <<peerVars, wire, outcomes, dispatchVars, eligible, mapVars,
                   iterating, iterations>>

\* The loop body stops the iteration, or every entry has been yielded.
EndIteration ==
    /\ iterating
    /\ iterating' = FALSE
    /\ UNCHANGED <<peerVars, wire, outcomes, dispatchVars, eligible, mapVars,
                   iterations, yielded>>

--------------------------------------------------------------------------------
UepsInit ==
    /\ \E s \in Scenarios :
          /\ outgoing = s.packets
          /\ regs = s.registrations
          /\ iterations = s.iterations
    /\ wire = <<>> /\ cut = FALSE
    /\ dpc = "read" /\ pkt = [ok |-> FALSE] /\ found = NoHandler
    /\ handlers = [i \in Intents |-> NoHandler]
    /\ waiting = {}
    /\ iterating = FALSE /\ yielded = {}
    /\ packets = <<>> /\ outcomes = <<>>
    /\ eligible = {} /\ ran = <<>>

Receive == ReadAndVerify \/ ReadPanics \/ ReadEnds \/ Breaker \/ Lookup \/ CallHandler

UepsNext ==
    \/ Build \/ Cut
    \/ Receive
    \/ \E g \in Registrars : AwaitLock(g) \/ RegisterHandler(g)
    \/ BeginIteration \/ Yield \/ EndIteration

\* The peer's writes, the reader's goroutine, the registrars and the body of an
\* iteration all go on when they can.
UepsFairness ==
    /\ WF_uepsVars(Build)
    /\ WF_uepsVars(Receive)
    /\ \A g \in Registrars : WF_uepsVars(AwaitLock(g)) /\ WF_uepsVars(RegisterHandler(g))
    /\ WF_uepsVars(Yield \/ EndIteration)

UepsSpec == UepsInit /\ [][UepsNext]_uepsVars /\ UepsFairness

--------------------------------------------------------------------------------
\* A handler only ever runs for a verified packet whose threat score is within
\* the threshold, once and in order of arrival, and it is a handler that was
\* registered for the packet's intent while Dispatch ran.
HandledInBounds ==
    /\ \A k \in DOMAIN ran :
          /\ outcomes[ran[k].at].ok
          /\ outcomes[ran[k].at].header.ThreatScore <= ThreatScoreThreshold
          /\ ran[k].handler \in ran[k].eligible \ {NoHandler}
    /\ \A k, l \in DOMAIN ran : k < l => ran[k].at < ran[l].at

\* What an iteration over Handlers has yielded is still what is registered:
\* RegisterHandler waits for the iteration to end.
IterationIsSnapshot ==
    iterating => \A e \in yielded : handlers[e[1]] = e[2]

\* Every call of RegisterHandler returns, an iteration that is stopped early
\* notwithstanding, and the reader gets through every packet it was sent, or
\* stops at a triple that is too short for its tag.
DispatcherProgress ==
    /\ <>(\A g \in Registrars : regs[g] = <<>>)
    /\ []<>(\/ dpc \in {"read", "ended"} /\ \A i \in DOMAIN wire : Passes(wire[i])
            \/ dpc = "panicked")
================================================================================
