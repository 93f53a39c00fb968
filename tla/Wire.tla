-------------------------------- MODULE Wire --------------------------------
(***************************************************************************)
(* The wire format (protocol/src): how the fields of a command are written *)
(* and read, which fields each command has, and how a frame is put         *)
(* together.  Bytes are numbers; a command is the sequence of its fields'  *)
(* values; a string, an Option<String> and a message are byte sequences    *)
(* (an empty string and None are the same two bytes on the wire).          *)
(***************************************************************************)
EXTENDS Bytes

CONSTANT MaxReference    \* longest reference or publisher name (255 in the code)

ASSUME ReferenceAssumption == MaxReference \in Nat \ {0}

-----------------------------------------------------------------------------
(* Field types.                                                            *)

U8  == [is |-> "int", width |-> 1]
U16 == [is |-> "int", width |-> 2]
U32 == [is |-> "int", width |-> 4]
U64 == [is |-> "int", width |-> 8]

Code   == [is |-> "code"]        \* ResponseCode
Text   == [is |-> "string"]      \* written as &str, read as Option and unwrapped
Option == [is |-> "option"]      \* Option<String>
Name   == [is |-> "reference"]   \* a string of at most MaxReference bytes
Octets == [is |-> "bytes"]       \* Vec<u8>, read by slicing
Blob   == [is |-> "blob"]        \* a message, read by read_vec::<u8>
Offset == [is |-> "offset"]      \* OffsetSpecification

List(fields) == [is |-> "list", of |-> fields, full |-> FALSE]

\* Vec<String> and HashMap<String, String>: entries that lack a part are dropped.
Texts    == [is |-> "list", of |-> <<Option>>, full |-> TRUE]
TextMap  == [is |-> "list", of |-> <<Option, Option>>, full |-> TRUE]

\* As many entries as an earlier field says.
Counted(field, fields) == [is |-> "counted", by |-> field, of |-> fields]

\* Only there when the response code before it is Ok.
IfOk(f) == [is |-> "ifok", of |-> f]

ResponseCodes == 1 .. 19
CodeOk        == 1

-----------------------------------------------------------------------------
(* Writing.                                                                *)

EncodeText(s) == BigEndian(2, Len(s)) \o s

EncodeBytes(s) == BigEndian(4, Len(s)) \o s

EncodeOffset(v) == BigEndian(2, v[1]) \o (IF Len(v) = 2 THEN BigEndian(8, v[2]) ELSE <<>>)

RECURSIVE Encode(_, _, _)

EncodeAll(fields, values) ==
    FlattenSeq([i \in 1 .. Len(fields) |-> Encode(fields[i], values[i], values)])

EncodeEntries(fields, entries) ==
    FlattenSeq([i \in 1 .. Len(entries) |-> EncodeAll(fields, entries[i])])

Encode(f, v, values) ==
    CASE f.is = "int"     -> BigEndian(f.width, v)
      [] f.is = "code"    -> BigEndian(2, v)
      [] f.is \in {"string", "option", "reference"} -> EncodeText(v)
      [] f.is \in {"bytes", "blob"} -> EncodeBytes(v)
      [] f.is = "offset"  -> EncodeOffset(v)
      [] f.is = "list"    -> BigEndian(4, Len(v)) \o EncodeEntries(f.of, v)
      [] f.is = "counted" -> EncodeEntries(f.of, v)
      [] f.is = "ifok"    -> IF values[2] = CodeOk THEN Encode(f.of, v, values) ELSE <<>>

-----------------------------------------------------------------------------
(* encoded_size.                                                           *)

\* Mutant of SizeText: the length is left out.
SizeTextBare(s) == Len(s)

SizeText(s) == 2 + Len(s)

RECURSIVE Size(_, _)

SizeAll(fields, values) ==
    Total([i \in 1 .. Len(fields) |-> Size(fields[i], values[i])])

Size(f, v) ==
    CASE f.is = "int"    -> f.width
      [] f.is = "code"   -> 2
      [] f.is \in {"string", "option", "reference"} -> SizeText(v)
      [] f.is \in {"bytes", "blob"} -> 4 + Len(v)
      [] f.is = "offset" -> IF Len(v) = 2 THEN 2 + 8 ELSE 2
      [] f.is = "list"   -> 4 + Total([i \in 1 .. Len(v) |-> SizeAll(f.of, v[i])])

-----------------------------------------------------------------------------
(* Reading.                                                                *)

\* The length is an i16: as a usize a negative one is past the end of any input.
DecodeText(input) ==
    AndThen(DecodeSigned(2, input), LAMBDA d :
        IF d.value < 0 THEN Stop("panic") ELSE SplitAt(d.value, d.rest))

DecodeOctets(input) ==
    AndThen(DecodeInt(4, input), LAMBDA d : SplitAt(d.value, d.rest))

\* read_vec::<u8> reads byte by byte, each with check_len.
DecodeBlob(input) ==
    AndThen(DecodeInt(4, input),
            LAMBDA d : IF Len(d.rest) < d.value THEN Stop("incomplete")
                                                ELSE SplitAt(d.value, d.rest))

DecodeCode(input) ==
    AndThen(DecodeInt(2, input),
            LAMBDA d : IF d.value \in ResponseCodes THEN d ELSE Stop("error"))

DecodeOffset(input) ==
    AndThen(DecodeInt(2, input), LAMBDA d :
        CASE d.value \in {1, 2, 3} -> Yield(d.rest, <<d.value>>)
          [] d.value \in {4, 5} ->
                AndThen(DecodeInt(8, d.rest),
                        LAMBDA n : Yield(n.rest, <<d.value, n.value>>))
          [] OTHER -> Stop("panic"))

\* A command is built of its fields: the strings among them are unwrapped, the
\* references checked.
Build(fields, input, values) ==
    IF \E i \in 1 .. Len(fields) :
          fields[i].is = "reference" /\ Len(values[i]) \notin 1 .. MaxReference
    THEN Stop("error")
    ELSE IF \E i \in 1 .. Len(fields) : fields[i].is = "string" /\ values[i] = <<>>
    THEN Stop("panic")
    ELSE Yield(input, values)

IsFull(entry) == \A i \in 1 .. Len(entry) : entry[i] # <<>>

RECURSIVE Decode(_, _, _)
RECURSIVE DecodeAll(_, _, _)
RECURSIVE DecodeEntries(_, _, _, _)

\* One field after the other; values are the ones already read.
DecodeAll(fields, input, values) ==
    IF Len(values) = Len(fields)
    THEN Build(fields, input, values)
    ELSE AndThen(Decode(fields[Len(values) + 1], input, values),
                 LAMBDA d : DecodeAll(fields, d.rest, Append(values, d.value)))

DecodeEntries(fields, n, input, entries) ==
    IF Len(entries) = n
    THEN Yield(input, entries)
    ELSE AndThen(DecodeAll(fields, input, <<>>),
                 LAMBDA d : DecodeEntries(fields, n, d.rest, Append(entries, d.value)))

Decode(f, input, values) ==
    CASE f.is = "int"     -> DecodeInt(f.width, input)
      [] f.is = "code"    -> DecodeCode(input)
      [] f.is \in {"string", "option", "reference"} -> DecodeText(input)
      [] f.is = "bytes"   -> DecodeOctets(input)
      [] f.is = "blob"    -> DecodeBlob(input)
      [] f.is = "offset"  -> DecodeOffset(input)
      [] f.is = "list"    ->
            AndThen(AndThen(DecodeInt(4, input),
                            LAMBDA d : DecodeEntries(f.of, d.value, d.rest, <<>>)),
                    LAMBDA d : IF f.full
                               THEN Yield(d.rest, SelectSeq(d.value, IsFull))
                               ELSE d)
      [] f.is = "counted" -> DecodeEntries(f.of, values[f.by], input, <<>>)
      [] f.is = "ifok"    -> IF values[2] = CodeOk THEN Decode(f.of, input, values)
                                                   ELSE Yield(input, <<>>)

-----------------------------------------------------------------------------
(* The commands, by the fields they are made of.  Each layout is both the  *)
(* order of encode and decode and the sum of encoded_size.  The one        *)
(* exception is PublishedMessageV2, which is the order of encode:          *)
(* decode_version_2 reads the body before the filter value, but nothing    *)
(* calls it, and the broker reads what encode writes.                      *)

PeerPropertiesCommand          == <<U32, TextMap>>
PeerPropertiesResponse         == <<U32, Code, TextMap>>
SaslHandshakeCommand           == <<U32>>
SaslHandshakeResponse          == <<U32, Code, Texts>>
SaslAuthenticateCommand        == <<U32, Text, Octets>>
TunesCommand                   == <<U32, U32>>
OpenCommand                    == <<U32, Text>>
OpenResponse                   == <<U32, Code, IfOk(TextMap)>>
CloseRequest                   == <<U32, Code, Text>>
CloseResponse                  == <<U32, Code>>
HeartBeatCommand               == <<>>
HeartbeatResponse              == <<>>
GenericResponse                == <<U32, Code>>

CreateStreamCommand            == <<U32, Text, TextMap>>
Delete                         == <<U32, Text>>
MetadataCommand                == <<U32, Texts>>
Broker                         == <<U16, Text, U32>>
StreamMetadata                 == <<Text, Code, U16, List(<<U16>>)>>
MetadataResponse               == <<U32, List(Broker), List(StreamMetadata)>>
MetadataUpdateCommand          == <<Code, Text>>
CreateSuperStreamCommand       == <<U32, Text, Texts, Texts, TextMap>>
DeleteSuperStreamCommand       == <<U32, Text>>
SuperStreamPartitionsRequest   == <<U32, Text>>
SuperStreamPartitionsResponse  == <<U32, Code, Texts>>
SuperStreamRouteRequest        == <<U32, Text, Text>>
SuperStreamRouteResponse       == <<U32, Code, Texts>>

DeclarePublisherCommand        == <<U32, U8, Option, Text>>
DeletePublisherCommand         == <<U32, U8>>
PublishedMessage               == <<U64, Blob>>
PublishedMessageV2             == <<U64, Option, Blob>>
PublishCommand                 == <<U8, List(PublishedMessage)>>
PublishCommandV2               == <<U8, List(PublishedMessageV2)>>
PublishConfirm                 == <<U8, List(<<U64>>)>>
PublishingError                == <<U64, Code>>
PublishErrorResponse           == <<U8, List(PublishingError)>>
QueryPublisherRequest          == <<U32, Name, Text>>
QueryPublisherResponse         == <<U32, Code, U64>>

SubscribeCommand               == <<U32, U8, Text, Offset, U16, TextMap>>
UnSubscribeCommand             == <<U32, U8>>
CreditCommand                  == <<U8, U16>>
CreditResponse                 == <<Code, U8>>
StoreOffset                    == <<Name, Text, U64>>
QueryOffsetRequest             == <<U32, Name, Text>>
QueryOffsetResponse            == <<U32, Code, U64>>
ConsumerUpdateCommand          == <<U32, U8, U8>>
ConsumerUpdateRequestCommand   == <<U32, U16, Offset>>

\* subscription id, magic version, chunk type, entries, records, timestamp, epoch,
\* first offset, crc, data length, trailer length, reserved, then the records.
DeliverCommand ==
    <<U8, U8, U8, U16, U32, U64, U64, U64, U32, U32, U32, U32, Counted(5, <<Blob>>)>>

ExchangeCommandVersion          == <<U16, U16, U16>>
ExchangeCommandVersionsRequest  == <<U32, List(ExchangeCommandVersion)>>
ExchangeCommandVersionsResponse == <<U32, Code, List(ExchangeCommandVersion)>>

-----------------------------------------------------------------------------
(* The command keys.                                                       *)

Key == [
    DECLARE_PUBLISHER |-> 1, PUBLISH |-> 2, PUBLISH_CONFIRM |-> 3,
    PUBLISH_ERROR |-> 4, QUERY_PUBLISHER_SEQUENCE |-> 5,
    DELETE_PUBLISHER |-> 6, SUBSCRIBE |-> 7, DELIVER |-> 8, CREDIT |-> 9,
    STORE_OFFSET |-> 10, QUERY_OFFSET |-> 11, UNSUBSCRIBE |-> 12,
    CREATE_STREAM |-> 13, DELETE_STREAM |-> 14, METADATA |-> 15,
    METADATA_UPDATE |-> 16, PEER_PROPERTIES |-> 17, SASL_HANDSHAKE |-> 18,
    SASL_AUTHENTICATE |-> 19, TUNE |-> 20, OPEN |-> 21, CLOSE |-> 22,
    HEARTBEAT |-> 23, ROUTE |-> 24, PARTITIONS |-> 25, CONSUMER_UPDATE |-> 26,
    EXCHANGE_COMMAND_VERSIONS |-> 27, CREATE_SUPER_STREAM |-> 29,
    DELETE_SUPER_STREAM |-> 30, CONSUMER_UPDATE_REQUEST |-> 32794]

ResponseBit == 32768

\* The match of Response::decode.
ResponseKinds ==
       Key.OPEN             :> OpenResponse
    @@ Key.CLOSE            :> CloseResponse
    @@ Key.PEER_PROPERTIES  :> PeerPropertiesResponse
    @@ Key.SASL_HANDSHAKE   :> SaslHandshakeResponse
    @@ [k \in {Key.DECLARE_PUBLISHER, Key.DELETE_PUBLISHER, Key.SASL_AUTHENTICATE,
               Key.SUBSCRIBE, Key.UNSUBSCRIBE, Key.CREATE_STREAM,
               Key.CREATE_SUPER_STREAM, Key.DELETE_SUPER_STREAM,
               Key.CONSUMER_UPDATE_REQUEST, Key.DELETE_STREAM} |-> GenericResponse]
    @@ Key.TUNE             :> TunesCommand
    @@ Key.DELIVER          :> DeliverCommand
    @@ Key.HEARTBEAT        :> HeartbeatResponse
    @@ Key.METADATA         :> MetadataResponse
    @@ Key.METADATA_UPDATE  :> MetadataUpdateCommand
    @@ Key.PUBLISH_CONFIRM  :> PublishConfirm
    @@ Key.PUBLISH_ERROR    :> PublishErrorResponse
    @@ Key.QUERY_OFFSET     :> QueryOffsetResponse
    @@ Key.CREDIT           :> CreditResponse
    @@ Key.QUERY_PUBLISHER_SEQUENCE  :> QueryPublisherResponse
    @@ Key.EXCHANGE_COMMAND_VERSIONS :> ExchangeCommandVersionsResponse
    @@ Key.PARTITIONS       :> SuperStreamPartitionsResponse
    @@ Key.ROUTE            :> SuperStreamRouteResponse
    @@ Key.CONSUMER_UPDATE  :> ConsumerUpdateCommand

\* The match of RequestKind::encode, by the key of the command.
RequestKinds ==
       Key.PEER_PROPERTIES   :> PeerPropertiesCommand
    @@ Key.SASL_HANDSHAKE    :> SaslHandshakeCommand
    @@ Key.SASL_AUTHENTICATE :> SaslAuthenticateCommand
    @@ Key.TUNE              :> TunesCommand
    @@ Key.OPEN              :> OpenCommand
    @@ Key.CLOSE             :> CloseRequest
    @@ Key.DELETE_STREAM     :> Delete
    @@ Key.CREATE_STREAM     :> CreateStreamCommand
    @@ Key.SUBSCRIBE         :> SubscribeCommand
    @@ Key.CREDIT            :> CreditCommand
    @@ Key.METADATA          :> MetadataCommand
    @@ Key.DECLARE_PUBLISHER :> DeclarePublisherCommand
    @@ Key.DELETE_PUBLISHER  :> DeletePublisherCommand
    @@ Key.HEARTBEAT         :> HeartBeatCommand
    @@ Key.PUBLISH           :> PublishCommand
    @@ Key.QUERY_OFFSET      :> QueryOffsetRequest
    @@ Key.QUERY_PUBLISHER_SEQUENCE :> QueryPublisherRequest
    @@ Key.STORE_OFFSET      :> StoreOffset
    @@ Key.UNSUBSCRIBE       :> UnSubscribeCommand
    @@ Key.EXCHANGE_COMMAND_VERSIONS :> ExchangeCommandVersionsRequest
    @@ Key.CREATE_SUPER_STREAM :> CreateSuperStreamCommand
    @@ Key.DELETE_SUPER_STREAM :> DeleteSuperStreamCommand
    @@ Key.PARTITIONS        :> SuperStreamPartitionsRequest
    @@ Key.ROUTE             :> SuperStreamRouteRequest
    @@ Key.CONSUMER_UPDATE_REQUEST :> ConsumerUpdateRequestCommand

\* The filter value only travels in version 2 of publish.
RequestLayout(key, version) ==
    IF key = Key.PUBLISH /\ version = 2 THEN PublishCommandV2 ELSE RequestKinds[key]

-----------------------------------------------------------------------------
(* A frame: the length of what follows, key, version, fields.              *)

\* Header::decode.
ReadHeader(input) ==
    AndThen(DecodeInt(2, input), LAMBDA k :
        AndThen(DecodeInt(2, k.rest), LAMBDA v :
            Yield(v.rest, [key |-> k.value % ResponseBit, version |-> v.value])))

\* Response::decode reads the length of the frame and does not use it.
DecodeResponse(input) ==
    AndThen(DecodeInt(4, input), LAMBDA n :
        AndThen(ReadHeader(n.rest), LAMBDA h :
            IF h.value.key \notin DOMAIN ResponseKinds
            THEN Stop("error")
            ELSE AndThen(DecodeAll(ResponseKinds[h.value.key], h.rest, <<>>),
                         LAMBDA d : Yield(d.rest, [key     |-> h.value.key,
                                                   version |-> h.value.version,
                                                   values  |-> d.value]))))

HeaderSize == 2 + 2

\* StoreOffset, QueryOffsetRequest and QueryPublisherRequest refuse a long reference,
\* before they write anything (EncodeError::MaxSizeError).
MaxSizeError(fields, values) ==
    \E i \in 1 .. Len(fields) : fields[i].is = "reference" /\ Len(values[i]) > MaxReference

\* Request::encode: length and header are written before the command may fail.
EncodeRequest(q) ==
    LET fields == RequestLayout(q.key, q.version)
        failed == MaxSizeError(fields, q.values)
    IN  [ok    |-> ~failed,
         bytes |-> BigEndian(4, HeaderSize + SizeAll(fields, q.values))
                     \o BigEndian(2, q.key) \o BigEndian(2, q.version)
                     \o (IF failed THEN <<>> ELSE EncodeAll(fields, q.values))]

-----------------------------------------------------------------------------
(* The broker at the other end (external).                                 *)

\* The commands the broker starts a conversation with carry no response bit.
Pushes == {Key.TUNE, Key.DELIVER, Key.HEARTBEAT, Key.METADATA_UPDATE,
           Key.PUBLISH_CONFIRM, Key.PUBLISH_ERROR, Key.CONSUMER_UPDATE}

\* The broker's encoder.
FrameOf(r) ==
    LET body == BigEndian(2, IF r.key \in Pushes THEN r.key ELSE r.key + ResponseBit)
                  \o BigEndian(2, r.version)
                  \o EncodeAll(ResponseKinds[r.key], r.values)
    IN  BigEndian(4, Len(body)) \o body

\* The broker goes by the length of a frame.
FrameLength(input) ==
    LET n == 4 + Number(SubSeq(input, 1, 4))
    IN  IF Len(input) >= 4 /\ Len(input) >= n THEN n ELSE 0

Garbled == [key |-> 0, version |-> 0, values |-> <<>>]

\* A broker that reads the same fields as the client writes.
Meaning(frame) ==
    LET key     == Number(SubSeq(frame, 5, 6))
        version == Number(SubSeq(frame, 7, 8))
        d       == DecodeAll(RequestLayout(key, version), From(9, frame), <<>>)
    IN  IF /\ Len(frame) >= 4 + HeaderSize
           /\ key \in DOMAIN RequestKinds /\ d.res = "ok" /\ d.rest = <<>>
        THEN [key |-> key, version |-> version, values |-> d.value]
        ELSE Garbled

\* The strings and byte arrays of a layout, which their decoders cut off by a length.
RECURSIVE HasSlices(_)
HasSlices(fields) ==
    \E f \in Range(fields) :
        \/ f.is \in {"string", "option", "reference", "bytes"}
        \/ f.is \in {"list", "counted"} /\ HasSlices(f.of)
        \/ f.is = "ifok" /\ HasSlices(<<f.of>>)

SlicedResponse(r) == HasSlices(ResponseKinds[r.key])

=============================================================================
