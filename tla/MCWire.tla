--------------------------------- MODULE MCWire --------------------------------
(***************************************************************************)
(* The two binary protocols for TLC: framed Levin packets and signed UEPS  *)
(* packets with their dispatcher.  They share no state, so a behaviour     *)
(* exercises one of them, chosen at the start.                             *)
(***************************************************************************)
EXTENDS LevinStorage, UepsReads

CONSTANTS w1, w2, g1, g2, h1, h2, h3, s1, s2

VARIABLE protocol

wireVars == <<protocol, levinVars, uepsVars>>

--------------------------------------------------------------------------------
\* Four sizes of integer in bytes of six bits: 6, 12, 18 and 24 bits.
MCWidths == <<1, 2, 3, 4>>

Empty == [name \in {} |-> 0]
Entry(name, type, v) == name :> Val(type, v)
Text(n) == [i \in 1..n |-> i % Base]
One == Entry(<<1>>, TypeUint8, 7)
Pair == Entry(<<2>>, TypeInt16, -2) @@ Entry(<<1>>, TypeString, <<33, 1>>)

\* Every type of value, each at a boundary of its size or its length; then an
\* array without an encoding, and a name that is one byte too long.
Sections == <<
    Empty,
    Entry(<<7>>, TypeString, Text(VarintMax(1))),
    Entry(<<7>>, TypeString, Text(VarintMax(1) + 1)),
    Entry(<<7>>, TypeString, Text(30)),
    Entry(<<1>>, TypeObject, Pair),
    Entry(<<1>>, ArrayFlag + TypeObject, <<One, Empty>>),
    Entry(<<>>, ArrayFlag + TypeString, << <<>>, <<9>> >>) @@ Entry(<<0>>, TypeBool, TRUE),
    Entry(<<5>>, TypeInt64, -1) @@ Entry(<<5, 0>>, TypeDouble, 77),
    Entry(<<5>>, TypeInt32, 0 - Word(3) \div 2) @@ Entry(<<6>>, TypeInt8, Word(1) \div 2 - 1),
    Entry(<<5>>, TypeUint64, Word(4) - 1) @@ Entry(<<4>>, TypeUint16, 300),
    Entry(<<5>>, ArrayFlag + TypeUint64, <<Word(4) - 1, 0>>),
    Entry(<<5>>, ArrayFlag + TypeUint32, <<Word(3) - 1>>) @@ Entry(<<6>>, TypeUint32, 70000),
    Entry(<<5>>, ArrayFlag + TypeInt8, <<1>>),
    Entry(Text(Base), TypeBool, FALSE) >>

Request(cmd, section) ==
    [kind |-> "packet", cmd |-> cmd, expectResponse |-> TRUE,
     section |-> section, payload |-> Encoded(section)]
Response(cmd, section) ==
    [kind |-> "response", cmd |-> cmd, returnCode |-> -7,
     section |-> section, payload |-> Encoded(section)]

Program(first, second) == [w \in Writers |-> IF w = w1 THEN first ELSE second]

\* Each section in a response of its own, and two goroutines that interleave.
MCPrograms ==
    {Program(<<>>, <<>>)}
      \cup {Program(<<Response(i, <<Sections[i]>>)>>, <<>>) : i \in DOMAIN Sections}
      \cup {Program(<<Request(1001, <<One>>), Response(1002, <<>>)>>,
                    <<Request(2001, <<Pair>>)>>)}

--------------------------------------------------------------------------------
Signs(intent, score, payload, secret) ==
    [header |-> NewBuilder(intent, score), payload |-> payload, secret |-> secret,
     extra |-> <<>>, damaged |-> 0, tag |-> 0]
Plain(intent) == Signs(intent, ThreatScoreThreshold, <<1>>, Secret)
Damaged(at, tag) == [Plain(1) EXCEPT !.damaged = at, !.tag = tag]

\* A tag of each kind: of one byte, of two, of the signature, of none and of the
\* payload.
Tags == {TagIntent, TagThreatScore, TagHMAC, UnknownTag, TagPayload}

\* Every triple with every tag, and with another value; a foreign secret; a score
\* above the threshold; an intent nobody handles; a payload that is too large; a
\* packet with a triple this version does not know.
Odd == {Damaged(at, tag) : at \in 1..7, tag \in Tags}
         \cup {Damaged(at, at) : at \in 1..3}
         \cup {Signs(1, 0, <<3>>, s2), Signs(1, ThreatScoreThreshold + 1, <<>>, Secret),
               Signs(2, 0, <<>>, Secret), Signs(1, 0, Text(MaxValue + 1), Secret),
               [Plain(1) EXCEPT !.extra = <<TLV(UnknownTag, <<2, 0>>)>>]}

Registration(intent, handler) == [intent |-> intent, handler |-> handler]
Scenario(sends, first, second, n) ==
    [packets |-> sends, iterations |-> n,
     registrations |-> [g \in Registrars |-> IF g = g1 THEN first ELSE second]]

MCScenarios ==
    {Scenario(<<>>, <<>>, <<>>, 0)}
      \cup {Scenario(<<p, Plain(1), Plain(2)>>, <<Registration(1, h1)>>, <<>>, 0) : p \in Odd}
      \cup {Scenario(<<Plain(1), Plain(2), Plain(1)>>,
                     <<Registration(1, h1), Registration(2, h2)>>,
                     <<Registration(1, h3)>>, 1)}

--------------------------------------------------------------------------------
WireInit ==
    /\ protocol \in {"levin", "ueps"}
    /\ LevinInit
    /\ UepsInit
    /\ protocol = "levin" => outgoing = <<>>
    /\ protocol = "ueps" => \A w \in Writers : calls[w] = <<>>

WireNext ==
    \/ protocol = "levin" /\ LevinNext /\ UNCHANGED <<protocol, uepsVars>>
    \/ protocol = "ueps" /\ UepsNext /\ UNCHANGED <<protocol, levinVars>>

WireSpec ==
    WireInit /\ [][WireNext]_wireVars /\ LevinFairness /\ UepsFairness
================================================================================
