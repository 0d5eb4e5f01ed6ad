--------------------------------- MODULE Levin ---------------------------------
(***************************************************************************)
(* A levin.Connection (go/node/levin/connection.go): goroutines that call  *)
(* WritePacket and WriteResponse on one end of a byte stream, and one that *)
(* calls ReadPacket on the other.  A frame is two writes to the network    *)
(* under the write lock, and each write can fail after any number of       *)
(* bytes; a read can time out after any number of bytes.  Neither closes   *)
(* the connection: the next call goes on where the stream was left.        *)
(*                                                                         *)
(* A packet goes the whole way down to bytes and back: its header as in    *)
(* LevinHeader, its payload as the application has encoded it              *)
(* (LevinStorage).                                                         *)
(***************************************************************************)
EXTENDS LevinHeader

CONSTANTS
    Writers,         \* goroutines that write
    Programs,        \* the calls they make, one program chosen at the start;
                     \* a call's payload is what encoding it gave: bytes or a failure
    ConnMaxPayload,  \* the reading connection's own MaxPayloadSize
    Cuts,            \* bound: after how many bytes a write or a read may stop
    Free             \* the write lock is free

VARIABLES
    calls,     \* calls each writer has not returned from
    wpc,       \* where each writer is: "call", or in writeFrame "header", "payload"
    writeMu,   \* holder of the write lock
    open,      \* the writing end is open
    stream,    \* bytes written and not read yet
    rpc,       \* what ReadPacket reads next, "header" or "payload"
    hdr,       \* the header whose payload ReadPacket reads
    sent,      \* history: calls whose frame is in the stream whole, before any tear
    torn, returned, lost  \* history, as in FrameChannel

writerVars == <<calls, wpc, writeMu, open, sent, torn>>
readerVars == <<rpc, hdr, returned, lost>>
levinVars == <<writerVars, stream, readerVars>>

FlagRequest == 1
FlagResponse == 2
LevinProtocolVersion == 1
ReturnOK == 0

AllCalls ==
    UNION {UNION {{p[w][i] : i \in DOMAIN p[w]} : w \in Writers} : p \in Programs}

\* The arguments of a call are of the types WritePacket and WriteResponse take.
Callable(call) ==
    /\ call.kind \in {"packet", "response"}
    /\ call.cmd \in 0..(Word(Widths[3]) - 1)
    /\ call.kind = "packet" => call.expectResponse \in BOOLEAN
    /\ call.kind = "response" => call.returnCode \in SignedWord(Widths[3])
    /\ call.payload.ok => /\ call.payload.bytes \in Seq(ByteRange)
                          /\ Len(call.payload.bytes) < Word(Widths[4])

ASSUME LevinAssumption ==
    /\ Programs \subseteq [Writers -> Seq(AllCalls)]
    /\ \A call \in AllCalls : Callable(call)
    /\ ConnMaxPayload \in Nat
    /\ Cuts \subseteq Nat
    /\ Free \notin Writers

NoHeader == [PayloadSize |-> 0]

--------------------------------------------------------------------------------
\* The header that WritePacket or WriteResponse builds for a call.
HeaderOf(call) ==
    [PayloadSize     |-> Len(call.payload.bytes),
     ExpectResponse  |-> call.kind = "packet" /\ call.expectResponse,
     Command         |-> call.cmd,
     ReturnCode      |-> IF call.kind = "packet" THEN ReturnOK ELSE call.returnCode,
     Flags           |-> IF call.kind = "packet" THEN FlagRequest ELSE FlagResponse,
     ProtocolVersion |-> LevinProtocolVersion]

LevinInit ==
    /\ calls \in Programs
    /\ wpc = [w \in Writers |-> "call"]
    /\ writeMu = Free
    /\ open = TRUE
    /\ stream = <<>>
    /\ rpc = "header"
    /\ hdr = NoHeader
    /\ sent = <<>> /\ returned = <<>>
    /\ torn = FALSE /\ lost = FALSE

--------------------------------------------------------------------------------
Call(w) == Head(calls[w])

\* The call returns.
Return(w) ==
    /\ calls' = [calls EXCEPT ![w] = Tail(@)]
    /\ wpc' = [wpc EXCEPT ![w] = "call"]

\* The section cannot be encoded: there is nothing to write.
Unencodable(w) ==
    /\ wpc[w] = "call" /\ calls[w] # <<>>
    /\ ~Call(w).payload.ok
    /\ Return(w)
    /\ UNCHANGED <<writeMu, open, sent, torn, stream, readerVars>>

MutLock(w) ==
    /\ wpc[w] = "call" /\ calls[w] # <<>>
    /\ Call(w).payload.ok
    /\ wpc' = [wpc EXCEPT ![w] = "header"]
    /\ UNCHANGED <<calls, writeMu, open, sent, torn, stream, readerVars>>

\* c.writeMu.Lock()
Lock(w) ==
    /\ wpc[w] = "call" /\ calls[w] # <<>>
    /\ Call(w).payload.ok
    /\ writeMu = Free
    /\ writeMu' = w
    /\ wpc' = [wpc EXCEPT ![w] = "header"]
    /\ UNCHANGED <<calls, open, sent, torn, stream, readerVars>>

\* What the writer hands to the network at its step.
Buffer(w) ==
    IF wpc[w] = "header" THEN EncodeHeader(HeaderOf(Call(w))) ELSE Call(w).payload.bytes

\* c.conn.Write takes the whole buffer.  The frame is complete with the payload,
\* or with the header when there is no payload.
Write(w) ==
    /\ wpc[w] \in {"header", "payload"}
    /\ open
    /\ stream' = stream \o Buffer(w)
    /\ IF wpc[w] = "header" /\ Call(w).payload.bytes # <<>>
         THEN /\ wpc' = [wpc EXCEPT ![w] = "payload"]
              /\ UNCHANGED <<calls, writeMu, sent>>
         ELSE /\ Return(w)
              /\ writeMu' = Free
              /\ sent' = IF torn THEN sent ELSE Append(sent, Call(w))
    /\ UNCHANGED <<open, torn, readerVars>>

MutWriteFails(w) ==
    /\ wpc[w] \in {"header", "payload"}
    /\ \E n \in Cuts \cap 0..(Len(Buffer(w)) - 1) :
          /\ ~open => n = 0
          /\ stream' = stream \o SubSeq(Buffer(w), 1, n)
          /\ torn' = (torn \/ wpc[w] = "payload" \/ n > 0)
    /\ Return(w)
    /\ UNCHANGED <<writeMu, open, sent, readerVars>>

\* c.conn.Write fails, at the deadline after some of the buffer or because the
\* connection is closed; writeFrame returns and the lock is released.
WriteFails(w) ==
    /\ wpc[w] \in {"header", "payload"}
    /\ \E n \in Cuts \cap 0..(Len(Buffer(w)) - 1) :
          /\ ~open => n = 0
          /\ stream' = stream \o SubSeq(Buffer(w), 1, n)
          /\ torn' = (torn \/ wpc[w] = "payload" \/ n > 0)
    /\ Return(w)
    /\ writeMu' = Free
    /\ UNCHANGED <<open, sent, readerVars>>

\* Close on the writing end.
Close ==
    /\ open
    /\ open' = FALSE
    /\ UNCHANGED <<calls, wpc, writeMu, sent, torn, stream, readerVars>>

--------------------------------------------------------------------------------
\* readPacketResult
Packet(header, payload) == [ok |-> TRUE, Header |-> header, Payload |-> payload]

\* h.PayloadSize > c.MaxPayloadSize
TooBig(h) == h.PayloadSize > ConnMaxPayload

\* ReadPacket has its 33 bytes.  A header it refuses, for its signature or for
\* the size it announces, ends the call with nothing more read.
ReadHeader ==
    /\ rpc = "header"
    /\ Len(stream) >= HeaderSize
    /\ stream' = From(stream, HeaderSize)
    /\ LET h == DecodeHeader(SubSeq(stream, 1, HeaderSize))
       IN  \/ /\ h.ok => TooBig(h.val)
              /\ returned' = Append(returned, Fail)
              /\ lost' = (lost \/ SubSeq(stream, 1, Len(Signature)) = Signature)
              /\ UNCHANGED <<rpc, hdr>>
           \/ /\ h.ok /\ ~TooBig(h.val) /\ h.val.PayloadSize = 0
              /\ returned' = Append(returned, Packet(h.val, <<>>))
              /\ UNCHANGED <<rpc, hdr, lost>>
           \/ /\ h.ok /\ ~TooBig(h.val) /\ h.val.PayloadSize > 0
              /\ rpc' = "payload"
              /\ hdr' = h.val
              /\ UNCHANGED <<returned, lost>>
    /\ UNCHANGED writerVars

\* ReadPacket has the payload its header announced.
ReadPayload ==
    /\ rpc = "payload"
    /\ Len(stream) >= hdr.PayloadSize
    /\ returned' = Append(returned, Packet(hdr, SubSeq(stream, 1, hdr.PayloadSize)))
    /\ stream' = From(stream, hdr.PayloadSize)
    /\ rpc' = "header"
    /\ hdr' = NoHeader
    /\ UNCHANGED <<writerVars, lost>>

\* The read deadline passes, or the other end has closed, when ReadPacket has
\* some of the bytes it waits for; those are gone.  (Bytes that were written
\* may still be on their way.)
ReadFails ==
    /\ LET need == IF rpc = "header" THEN HeaderSize ELSE hdr.PayloadSize
       IN  \E n \in Cuts :
              /\ n <= Len(stream) /\ n < need
              /\ stream' = From(stream, n)
              /\ lost' = (lost \/ rpc = "payload" \/ n > 0)
    /\ rpc' = "header"
    /\ hdr' = NoHeader
    /\ UNCHANGED <<writerVars, returned>>

WriterStep(w) == Unencodable(w) \/ Lock(w) \/ Write(w) \/ WriteFails(w)

LevinNext ==
    \/ \E w \in Writers : WriterStep(w)
    \/ Close
    \/ ReadHeader
    \/ ReadPayload
    \/ ReadFails

\* A write returns by its deadline, and a reader that has the bytes it waits
\* for goes on.
LevinFairness ==
    /\ \A w \in Writers : WF_levinVars(WriterStep(w))
    /\ WF_levinVars(ReadHeader)
    /\ WF_levinVars(ReadPayload)

LevinSpec == LevinInit /\ [][LevinNext]_levinVars /\ LevinFairness

--------------------------------------------------------------------------------
\* What a call asks ReadPacket to return.
Meant(call) == Packet(HeaderOf(call), call.payload.bytes)

\* The packets whose header is in the stream: those written whole, and the one
\* whose payload is being written.
Begun ==
    LET writing == {w \in Writers : wpc[w] = "payload"}
    IN  IF torn \/ writing = {} THEN sent
        ELSE Append(sent, Call(CHOOSE w \in writing : TRUE))

FitsReader(packet) ==
    ~(packet.Header.PayloadSize > MaxPayloadSize) /\ ~TooBig(packet.Header)

\* The packets that ReadPacket is to return for them.
Promised == [i \in DOMAIN Begun |-> Meant(Begun[i])]

Channel == INSTANCE FrameChannel
             WITH Fits <- FitsReader, Refused <- Fail, sent <- Promised

\* Whatever the goroutines write, and wherever writes and reads stop, the
\* connection is a channel of whole packets: the write lock keeps header and
\* payload together, and the header's bytes carry every field over unchanged.
FramesArriveWhole == Channel!ChanSpec

\* Every call of WritePacket and WriteResponse returns, after failures of
\* others too, and every packet that is in the stream whole is returned by
\* ReadPacket unless a read gave up inside a packet before.
WrittenIsReturned ==
    /\ <>(\A w \in Writers : calls[w] = <<>>)
    /\ []<>(lost \/ Len(returned) >= Len(sent))
================================================================================
