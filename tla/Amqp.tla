--------------------------------- MODULE Amqp ---------------------------------
(***************************************************************************)
(* A message on its way: put together with MessageBuilder or received from *)
(* another client, encoded into a publish command, stored, delivered and   *)
(* decoded section by section, perhaps sent on.                            *)
(***************************************************************************)
EXTENDS AmqpCodec

CONSTANTS
    Bodies,        \* inputs of MessageBuilder: bodies,
    Settings,      \*   <<position, value>> of a property,
    Annotations,   \*   <<key, value>> of a message annotation,
    Applications,  \*   <<key, value>> of an application property
    Others,        \* the messages of other clients
    MaxCalls       \* bound: calls of the builder for one message

ASSUME AmqpAssumption ==
    /\ MaxCalls \in Nat
    /\ \A m \in Others : DOMAIN m = Sections

VARIABLES
    message,   \* what is sent
    by,        \* who encodes it: "us", or another client in one of its Styles
    calls,     \* calls of the builder so far
    phase,     \* "build", "wire", or how decoding ended
    size,      \* encoded_size, which stands before the message in a publish command
    bytes,     \* the encoded message
    input,     \* what is left to decode
    got        \* the message decoded so far

vars == <<message, by, calls, phase, size, bytes, input, got>>

\* An AMQP 1.0 client may write the shortest form of everything and leave trailing
\* defaults out, write null for a default, or write the widest form of everything.
Styles == {"short", "null", "wide"}

Phases == {"build", "wire", "read", "failed", "stalled"}

Init ==
    /\ \/ message = EmptyMessage /\ by = "us"
       \/ message \in Others /\ by \in Styles
    /\ calls = 0
    /\ phase = "build"
    /\ size = 0 /\ bytes = <<>> /\ input = <<>>
    /\ got = EmptyMessage

-----------------------------------------------------------------------------
(* MessageBuilder.                                                         *)

Built(m) ==
    /\ phase = "build" /\ by = "us" /\ calls < MaxCalls
    /\ message' = m
    /\ calls' = calls + 1
    /\ UNCHANGED <<by, phase, size, bytes, input, got>>

\* set_data replaces all data sections by one.
SetBody(body) == Built([message EXCEPT !["data"] = <<Value("binary", body)>>])

\* The properties are there once one is set.
SetProperty(i, x) ==
    LET old == IF message["properties"] = <<>> THEN PropertiesDefault
                                               ELSE message["properties"][1].v
    IN  Built([message EXCEPT !["properties"] = <<Value("properties", [old EXCEPT ![i] = x])>>])

InsertInto(s, key, x) ==
    LET old == IF message[s] = <<>> THEN {} ELSE message[s][1].v
    IN  Built([message EXCEPT ![s] = <<Value("map", Insert(old, key, x))>>])

-----------------------------------------------------------------------------
(* Encoding.                                                               *)

\* The announced size and the bytes.  What is read back below is the bytes, whatever size
\* was announced; a broker takes as many as announced, so a message arrives as it was when
\* both RoundTrip and SizeIsLength hold of it.
Written(n, b) ==
    /\ phase = "build"
    /\ size' = n /\ bytes' = b /\ input' = b
    /\ phase' = "wire"
    /\ got' = EmptyMessage
    /\ UNCHANGED <<message, by, calls>>

\* PublishedMessage::encode: encoded_size, then the message.
EncodeOurs == by = "us" /\ Written(SizeMessage(message), EncodeMessage(message))

RECURSIVE Foreign(_, _)

\* External: AMQP 1.0 as another client writes it.
ForeignItems(style, items) == FlattenSeq([i \in 1 .. Len(items) |-> Foreign(style, items[i])])

ForeignPairs(style, pairs) ==
    FlattenSeq([i \in 1 .. Len(pairs) |-> ForeignItems(style, pairs[i])])

ForeignCompound(style, short, long, count, content) ==
    IF style = "wide" \/ Len(content) + 1 > 255
    THEN <<long>> \o BigEndian(4, Len(content) + 4) \o BigEndian(4, count) \o content
    ELSE <<short>> \o BigEndian(1, Len(content) + 1) \o BigEndian(1, count) \o content

ForeignList(style, items) ==
    IF items = <<>> /\ style # "wide"
    THEN <<TypeCode.List0>>
    ELSE ForeignCompound(style, TypeCode.List8, TypeCode.List32, Len(items),
                         ForeignItems(style, items))

\* Fields that have their default are left out at the end, or null.
ForeignFields(style, items, default) ==
    LET last == CHOOSE n \in 0 .. Len(items) :
                    /\ n = 0 \/ items[n] # default[n]
                    /\ \A i \in n + 1 .. Len(items) : items[i] = default[i]
        nulls == [i \in 1 .. Len(items) |-> IF items[i] = default[i] THEN Null ELSE items[i]]
    IN  ForeignList(style, CASE style = "short" -> SubSeq(items, 1, last)
                             [] style = "null"  -> nulls
                             [] style = "wide"  -> items)

Foreign(style, x) ==
    CASE style = "wide" /\ x.is = "bool" -> <<TypeCode.Boolean, IF x.v THEN 1 ELSE 0>>
      [] style = "wide" /\ x.is \in DOMAIN Sized ->
            <<Sized[x.is].wide>> \o BigEndian(Sized[x.is].width, x.v)
      [] style = "wide" /\ x.is \in DOMAIN Lengthy ->
            <<Lengthy[x.is].long>> \o BigEndian(4, Len(x.v)) \o x.v
      [] x.is = "list"       -> ForeignList(style, x.v)
      [] x.is = "header"     -> ForeignFields(style, x.v, HeaderDefault)
      [] x.is = "properties" -> ForeignFields(style, x.v, PropertiesDefault)
      [] x.is = "map" ->
            ForeignCompound(style, TypeCode.Map8, TypeCode.Map32, 2 * Len(SetToSeq(x.v)),
                            ForeignPairs(style, SetToSeq(x.v)))
      [] x.is = "described" ->
            <<TypeCode.Described>> \o Foreign(style, x.v[1]) \o Foreign(style, x.v[2])
      [] OTHER -> Encode(x)

ForeignSection(style, s, x) ==
    <<TypeCode.Described>> \o Foreign(style, Value("ulong", SectionNumber[s])) \o Foreign(style, x)

ForeignMessage(style, m) ==
    FlattenSeq([i \in 1 .. Len(Order) |->
        FlattenSeq([k \in 1 .. Len(m[Order[i]]) |-> ForeignSection(style, Order[i], m[Order[i]][k])])])

EncodeTheirs ==
    /\ by \in Styles
    /\ LET b == ForeignMessage(by, message) IN Written(Len(b), b)

-----------------------------------------------------------------------------
(* Message::decode, which DeliverCommand::decode calls for every record.   *)

\* Mutant of StoreSection: every data section replaces the one before.
StoreSectionOnce(m, s, x) == [m EXCEPT ![s] = <<x>>]

StoreSection(m, s, x) == [m EXCEPT ![s] = IF s \in Repeated THEN Append(@, x) ELSE <<x>>]

ReadSection ==
    LET d == DecodeSection(input)
    IN  /\ phase = "wire"
        /\ input # <<>>
        /\ d.res = "ok"
        /\ got' = StoreSection(got, d.value.section, d.value.content)
        /\ input' = d.rest
        /\ UNCHANGED <<message, by, calls, phase, size, bytes>>

ReadEnd ==
    /\ phase = "wire"
    /\ input = <<>>
    /\ phase' = "read"
    /\ UNCHANGED <<message, by, calls, size, bytes, input, got>>

\* The error ends the connection; Incomplete passes for an incomplete frame, and the codec
\* waits for the rest of it.
ReadFails ==
    LET res == DecodeSection(input).res
    IN  /\ phase = "wire"
        /\ input # <<>>
        /\ res # "ok"
        /\ phase' = IF res = "incomplete" THEN "stalled" ELSE "failed"
        /\ UNCHANGED <<message, by, calls, size, bytes, input, got>>

\* The application publishes a message it has received.
SendOn ==
    /\ phase = "read"
    /\ by # "us"
    /\ message' = got
    /\ by' = "us"
    /\ calls' = MaxCalls
    /\ phase' = "build"
    /\ UNCHANGED <<size, bytes, input, got>>

Next ==
    \/ \E b \in Bodies : SetBody(b)
    \/ \E p \in Settings : SetProperty(p[1], p[2])
    \/ \E p \in Annotations : InsertInto("message_annotations", p[1], p[2])
    \/ \E p \in Applications : InsertInto("application_properties", p[1], p[2])
    \/ EncodeOurs
    \/ EncodeTheirs
    \/ ReadSection
    \/ ReadEnd
    \/ ReadFails
    \/ SendOn

Spec == Init /\ [][Next]_vars

-----------------------------------------------------------------------------
(* Properties.                                                             *)

RECURSIVE PartsOf(_)
PartsOf(x) ==
    {x} \cup CASE x.is \in {"list", "header", "properties", "described"} ->
                     UNION {PartsOf(x.v[i]) : i \in 1 .. Len(x.v)}
               [] x.is = "map" -> UNION {PartsOf(p[1]) \cup PartsOf(p[2]) : p \in x.v}
               [] OTHER -> {}

Parts(m) == UNION {UNION {PartsOf(m[s][k]) : k \in 1 .. Len(m[s])} : s \in Sections}

\* An int the short form of which has its sign.
SmallNegative(x) == x.is = "int" /\ x.v \in -128 .. -1

\* A list that has no room in the short form.
LongList(x) == x.is \in {"list", "properties"} /\ ContentSize(x) + 1 > 255

BelowMillis(x) == x.is = "timestamp" /\ x.v[2] # 0

\* What type_encode_decode_test asserts of any value: it decodes, to what was encoded, with
\* nothing left, and encoded_size is the number of bytes encode writes.
EncodeDecode ==
    by = "us" =>
        /\ phase \notin {"failed", "stalled"}
        /\ phase = "read" => got = message
        /\ phase # "build" => size = Len(bytes)

\* What holds of it: a message of ours, built or sent on, is read back as it was unless it
\* has an int from -128 to -1, a list or properties of more than 254 bytes, or a time with
\* a fraction of a millisecond.  An empty section comes back as an empty section.
RoundTrip ==
    by = "us" /\ (\A x \in Parts(message) : ~SmallNegative(x) /\ ~LongList(x) /\ ~BelowMillis(x)) =>
        /\ phase \notin {"failed", "stalled"}
        /\ phase = "read" => got = message

\* The size before a message leads the broker to its end, unless it has a long from -128 to
\* 127, or properties of 253 or 254 bytes.
SizeIsLength ==
    phase # "build" /\ (\A x \in Parts(message) :
                           /\ ~(x.is = "long" /\ IsSmall("long", x.v))
                           /\ ~(x.is = "properties" /\ ContentSize(x) \in 253 .. 254)) =>
        size = Len(bytes)

\* Whatever forms another AMQP 1.0 client picks, its message is read as what it is, unless
\* it has a described value, an int from -128 to -1 in its short form, or a header that
\* says null for no deliveries.
OthersUnderstood ==
    by # "us" /\ (\A x \in Parts(message) :
                     /\ x.is # "described"
                     /\ SmallNegative(x) => by = "wide"
                     /\ x.is = "header" => by # "null" \/ x.v[5].v # 0) =>
        /\ phase \notin {"failed", "stalled"}
        /\ phase = "read" => got = message

=============================================================================
