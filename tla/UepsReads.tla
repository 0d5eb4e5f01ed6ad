-------------------------------- MODULE UepsReads ------------------------------
(***************************************************************************)
(* What ReadAndVerify (go/ueps/reader.go) should make of a stream, stated  *)
(* over whole packets: the reference its results are compared with.        *)
(***************************************************************************)
EXTENDS Ueps, SequencesExt

Intact(p) == OnTheWire(p) = MarshalAndSign(p)

\* A packet whose payload tag is damaged does not end where it should.
RunsOn(p) == Last(OnTheWire(p)).tag # TagPayload

\* Packet i of packets in a row must be accepted: it arrives as it was signed, with
\* the shared secret, and the one before it ends where it should.
Due(ps, i) ==
    /\ Intact(ps[i]) /\ ps[i].secret = Secret
    /\ i > 1 => ~RunsOn(ps[i - 1])

\* What the reader should accept of packets in a row.
Expected(ps) ==
    LET due == SetToSortSeq({i \in DOMAIN ps : Due(ps, i)}, <)
    IN  [k \in DOMAIN due |->
            [ok |-> TRUE, header |-> ps[due[k]].header, payload |-> ps[due[k]].payload]]

\* The reader waits for more: what is left in the stream is no complete packet.
Waiting == dpc = "read" /\ ~cut /\ \A i \in DOMAIN wire : Passes(wire[i])

\* ReadAndVerify accepts the packets that arrive as they were signed, in order and
\* each with exactly its header and payload, and accepts nothing else.  However
\* many errors the damaged ones cause, they cost no packet but the one a damaged
\* payload tag runs into: when the reader waits for more, it has accepted all.
ReadsMatchPackets ==
    LET accepted == SelectSeq(outcomes, LAMBDA r : r.ok)
    IN  /\ IsPrefix(accepted, Expected(packets))
        /\ Waiting => accepted = Expected(packets)
================================================================================
