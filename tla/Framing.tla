------------------------------- MODULE Framing -------------------------------
(***************************************************************************)
(* RabbitMqStreamCodec in the two halves of a tokio Framed: what the broker *)
(* writes reaches the client in pieces of any size, out of which the codec *)
(* takes whole responses; what the client sends is put into the write      *)
(* buffer and flushed, and the broker takes it apart by the frames'        *)
(* lengths.                                                                *)
(***************************************************************************)
EXTENDS Integers, Sequences

\* The codec, and the bound: Wire has the codec of the protocol crate.
CONSTANTS
    Conversations,   \* what broker and client have to say to one another, each a record
                     \* of the responses and of the requests, in their order
    Frame(_),        \* the bytes of a response
    Decoded(_),      \* what Response::decode makes of the read buffer
    Encoded(_),      \* what Request::encode makes of a request
    FirstFrame(_),   \* how long the first frame of these bytes is, 0 if it is not whole
    Understood(_),   \* the request that a frame stands for
    Sliced(_)        \* has the response a string or a byte array, cut off by its length?

IsSequence(s) == s \in Seq({s[i] : i \in 1 .. Len(s)})

ASSUME FramingAssumption ==
    \A c \in Conversations : IsSequence(c.responses) /\ IsSequence(c.requests)

VARIABLES
    talk,         \* the conversation of this behaviour
    sent,         \* the responses the broker has written
    wire,         \* bytes on their way to the client
    buffer,       \* the read buffer of Framed
    reader,       \* what Framed does next: "read", "decode", or how it ended
    received,     \* the responses the stream has yielded
    calls,        \* calls of ChannelSender::send so far
    requested,    \* the requests whose send returned Ok
    outbox,       \* the write buffer of Framed
    uplink,       \* bytes on their way to the broker
    understood,   \* what the broker has made of them
    up            \* the connection stands

vars == <<talk, sent, wire, buffer, reader, received,
          calls, requested, outbox, uplink, understood, up>>

reading == <<sent, wire, buffer, reader, received>>
writing == <<calls, requested, outbox, uplink, understood>>

Readers == {"read", "decode", "failed", "panicked", "ended"}

Init ==
    /\ talk \in Conversations
    /\ sent = <<>> /\ wire = <<>> /\ buffer = <<>> /\ received = <<>>
    /\ reader = "read"
    /\ calls = 0 /\ requested = <<>> /\ outbox = <<>> /\ uplink = <<>>
    /\ understood = <<>>
    /\ up = TRUE

-----------------------------------------------------------------------------
(* From the broker to the client.                                          *)

\* External: the broker writes a response.
BrokerSend ==
    /\ up
    /\ Len(sent) < Len(talk.responses)
    /\ sent' = SubSeq(talk.responses, 1, Len(sent) + 1)
    /\ wire' = wire \o Frame(talk.responses[Len(sent) + 1])
    /\ UNCHANGED <<buffer, reader, received, writing, talk, up>>

\* External: Framed asks the socket for more and gets the next n bytes.
Read(n) ==
    /\ reader = "read"
    /\ buffer' = buffer \o SubSeq(wire, 1, n)
    /\ wire' = SubSeq(wire, n + 1, Len(wire))
    /\ reader' = "decode"
    /\ UNCHANGED <<sent, received, writing, talk, up>>

\* Mutant of DecodeFrame: one response for each read of the socket.
DecodeFrameOnce ==
    LET d == Decoded(buffer)
    IN  /\ reader = "decode"
        /\ d.res = "ok"
        /\ received' = Append(received, d.value)
        /\ buffer' = d.rest
        /\ reader' = "read"
        /\ UNCHANGED <<sent, wire, writing, talk, up>>

\* RabbitMqStreamCodec::decode yields a response and is called again.
DecodeFrame ==
    LET d == Decoded(buffer)
    IN  /\ reader = "decode"
        /\ d.res = "ok"
        /\ received' = Append(received, d.value)
        /\ buffer' = d.rest
        /\ UNCHANGED <<sent, wire, reader, writing, talk, up>>

\* DecodeError::Incomplete: Framed reads on.
DecodeNone ==
    /\ reader = "decode"
    /\ Decoded(buffer).res = "incomplete"
    /\ reader' = "read"
    /\ UNCHANGED <<sent, wire, buffer, received, writing, talk, up>>

\* Any other error ends the stream, a panic the task that reads it.
DecodeFails ==
    LET res == Decoded(buffer).res
    IN  /\ reader = "decode"
        /\ res \in {"error", "panic"}
        /\ reader' = IF res = "panic" THEN "panicked" ELSE "failed"
        /\ UNCHANGED <<sent, wire, buffer, received, writing, talk, up>>

\* External: the connection breaks and may take bytes with it.
Disconnect ==
    /\ up
    /\ up' = FALSE
    /\ \E n \in 0 .. Len(wire) : wire' = SubSeq(wire, 1, n)
    /\ UNCHANGED <<sent, buffer, reader, received, writing, talk>>

\* The default decode_eof: nothing more can be decoded, so bytes left over are an error.
ReadEof ==
    /\ reader = "read" /\ ~up /\ wire = <<>>
    /\ reader' = IF buffer = <<>> THEN "ended" ELSE "failed"
    /\ UNCHANGED <<sent, wire, buffer, received, writing, talk, up>>

-----------------------------------------------------------------------------
(* From the client to the broker.                                          *)

\* Mutant of ClientSend: what is flushed stays in the write buffer.
ClientSendKeeps ==
    LET q == talk.requests[calls + 1]
        e == Encoded(q)
    IN  /\ up
        /\ calls < Len(talk.requests)
        /\ calls' = calls + 1
        /\ outbox' = outbox \o e.bytes
        /\ IF e.ok
           THEN uplink' = uplink \o outbox \o e.bytes /\ requested' = Append(requested, q)
           ELSE UNCHANGED <<uplink, requested>>
        /\ UNCHANGED <<reading, understood, talk, up>>

\* ChannelSender::send, under the mutex of the sink: encode into the write buffer, and
\* flush it if that went well.
ClientSend ==
    LET q == talk.requests[calls + 1]
        e == Encoded(q)
    IN  /\ up
        /\ calls < Len(talk.requests)
        /\ calls' = calls + 1
        /\ \/ /\ e.ok
              /\ uplink' = uplink \o outbox \o e.bytes
              /\ outbox' = <<>>
              /\ requested' = Append(requested, q)
           \/ /\ ~e.ok
              /\ outbox' = outbox \o e.bytes
              /\ UNCHANGED <<uplink, requested>>
        /\ UNCHANGED <<reading, understood, talk, up>>

\* External: the broker takes the next frame.
BrokerTake ==
    LET n == FirstFrame(uplink)
    IN  /\ up
        /\ n > 0
        /\ understood' = Append(understood, Understood(SubSeq(uplink, 1, n)))
        /\ uplink' = SubSeq(uplink, n + 1, Len(uplink))
        /\ UNCHANGED <<reading, calls, requested, outbox, talk, up>>

Next ==
    \/ BrokerSend
    \/ \E n \in 1 .. Len(wire) : Read(n)
    \/ DecodeFrame
    \/ DecodeNone
    \/ DecodeFails
    \/ Disconnect
    \/ ReadEof
    \/ ClientSend
    \/ BrokerTake

Spec == Init /\ [][Next]_vars

-----------------------------------------------------------------------------
(* Properties.                                                             *)

\* A response cut in two is waited for (DecodeError::Incomplete => Ok(None)): it neither
\* panics in a decoder nor is taken for a malformed one.
PartialFrameWaits == reader = "panicked" \/ reader = "failed" => ~up

Prefix(s, t) == Len(s) <= Len(t) /\ s = SubSeq(t, 1, Len(s))

\* However the socket cuts the stream into pieces, RabbitMqStreamCodec::decode yields the
\* broker's responses, in their order, none twice, none changed and none left out; a
\* reader that waits for more bytes has yielded all that arrived, with nothing left in the
\* buffer; and only a response with a string or a byte array in it can fail for being cut
\* in two: integers, lists and the messages of a chunk are waited for.
ReceivedIsSent ==
    /\ Prefix(received, sent)
    /\ reader = "read" /\ up /\ wire = <<>> => received = sent /\ buffer = <<>>
    /\ reader \in {"panicked", "failed"} /\ up => Sliced(sent[Len(received) + 1])

\* How many requests are encoded before one is refused.
Accepted(c) ==
    CHOOSE n \in 0 .. Len(c.requests) :
        /\ \A k \in 1 .. n : Encoded(c.requests[k]).ok
        /\ n < Len(c.requests) => ~Encoded(c.requests[n + 1]).ok

\* A request was sent with Ok after another was refused, whose length and header, left in
\* the write buffer, have gone out in front of it.
Spoiled == Len(requested) > Accepted(talk)

\* The requests sent with Ok before the first that was refused.
Intact == IF Spoiled THEN SubSeq(requested, 1, Accepted(talk)) ELSE requested

\* The broker understands the requests whose send returned Ok, as what they were, in the
\* order they were sent, and is left with no bytes it cannot place.  The exception is a
\* request sent after one that Request::encode refused: nothing is said of it and of those
\* behind it, and all before it still arrive; a refused request that no other follows does
\* no harm.
RequestsUnderstood ==
    /\ Prefix(understood, Intact) \/ (Spoiled /\ Prefix(Intact, understood))
    /\ up /\ FirstFrame(uplink) = 0
         => Prefix(Intact, understood) /\ (Spoiled \/ uplink = <<>>)

-----------------------------------------------------------------------------
(* What a stream of frames asks of a codec.                                *)

\* The frames one behind the other, and where each of them ends.
Stream(frames) ==
    LET Upto[k \in 0 .. Len(frames)] == IF k = 0 THEN <<>> ELSE Upto[k - 1] \o frames[k]
    IN  Upto[Len(frames)]

Ends(frames) ==
    LET End[k \in 0 .. Len(frames)] == IF k = 0 THEN 0 ELSE End[k - 1] + Len(frames[k])
    IN  End

\* Between two ends lies a frame.
Laid(frames) ==
    LET s == Stream(frames)
        end == Ends(frames)
    IN  /\ s \in Seq(0 .. 255) /\ end \in [0 .. Len(frames) -> 0 .. Len(s)]
        /\ end[0] = 0 /\ end[Len(frames)] = Len(s)
        /\ \A j, k \in 0 .. Len(frames) : j < k => end[j] < end[k]
        /\ \A k \in 1 .. Len(frames) : frames[k] = SubSeq(s, end[k - 1] + 1, end[k])

Downlink(c) == [i \in 1 .. Len(c.responses) |-> Frame(c.responses[i])]

\* Cut anywhere, the stream gives the next response and exactly its bytes, or none: then
\* the decoder asks for more, unless it was about to slice.
DecodesAnyCut(c) ==
    LET s   == Stream(Downlink(c))
        end == Ends(Downlink(c))
        n   == Len(c.responses)
    IN  \A k \in 0 .. n : \A b \in end[k] .. end[n] :
            LET d == Decoded(SubSeq(s, end[k] + 1, b))
            IN  IF k < n /\ b >= end[k + 1]
                THEN /\ d.res = "ok" /\ d.value = c.responses[k + 1]
                     /\ d.rest = SubSeq(s, end[k + 1] + 1, b)
                ELSE \/ d.res = "incomplete"
                     \/ d.res \in {"error", "panic"} /\ end[k] < b /\ Sliced(c.responses[k + 1])

\* The bytes of the requests one behind the other, those of the refused ones included:
\* ClientSend keeps them in the write buffer.
Uplink(c) == [i \in 1 .. Len(c.requests) |-> Encoded(c.requests[i]).bytes]

\* Up to the first refused request, the length that is written leads to the end of the
\* frame, and the frame to the request, whatever has been written behind it.
UnderstoodAnywhere(c) ==
    LET s   == Stream(Uplink(c))
        end == Ends(Uplink(c))
    IN  /\ FirstFrame(<<>>) = 0
        /\ \A j \in 0 .. Accepted(c) - 1 :
              /\ \A k \in j + 1 .. Len(c.requests) :
                    FirstFrame(SubSeq(s, end[j] + 1, end[k])) = end[j + 1] - end[j]
              /\ Understood(SubSeq(s, end[j] + 1, end[j + 1])) = c.requests[j + 1]

Fits(c) ==
    /\ Laid(Downlink(c)) /\ DecodesAnyCut(c)
    /\ Laid(Uplink(c)) /\ UnderstoodAnywhere(c)

\* What the codec has to do for every conversation.
CodecFits == \A c \in Conversations : Fits(c)

\* Whatever the fields, Response::decode gives back what the broker encoded and takes
\* exactly its bytes, whichever bytes follow, and never takes a part of a response for the
\* whole; the length, the header and the fields that Request::encode writes are those of
\* one frame, even with other bytes behind it.  Every conversation begins somewhere, so
\* this is CodecFits.
ConversationFits == up /\ sent = <<>> /\ calls = 0 => Fits(talk)
=============================================================================
