------------------------------ MODULE AmqpCodec ------------------------------
(***************************************************************************)
(* The encoding of AMQP 1.0 values and messages (protocol/src/message/amqp): *)
(* encoded_size, encode and decode of every type and section.              *)
(*                                                                         *)
(* A value is a record of its type and its content: a number, a Boolean,   *)
(* bytes (strings, floats and uuids are their bytes), a sequence of values *)
(* (list), a set of pairs (map), <<descriptor, value>> (described),        *)
(* <<milliseconds, nanoseconds>> (timestamp).                              *)
(***************************************************************************)
EXTENDS Bytes

CONSTANT MaxMillis    \* the milliseconds chrono takes for a timestamp

ASSUME MillisAssumption == MaxMillis \in Nat

-----------------------------------------------------------------------------
(* Types and their codes.                                                  *)

TypeCode == [
    Described |-> 0, Null |-> 64, BooleanTrue |-> 65, BooleanFalse |-> 66, UInt0 |-> 67,
    ULong0 |-> 68, List0 |-> 69, UByte |-> 80, Byte |-> 81, UIntSmall |-> 82,
    ULongSmall |-> 83, IntSmall |-> 84, LongSmall |-> 85, Boolean |-> 86, UShort |-> 96,
    Short |-> 97, UInt |-> 112, Int |-> 113, Float |-> 114, Char |-> 115, ULong |-> 128,
    Long |-> 129, Double |-> 130, Timestamp |-> 131, Uuid |-> 152, Binary8 |-> 160,
    String8 |-> 161, Symbol8 |-> 163, Binary32 |-> 176, String32 |-> 177,
    Symbol32 |-> 179, List8 |-> 192, Map8 |-> 193, List32 |-> 208, Map32 |-> 209,
    Array8 |-> 224, Array32 |-> 240]

\* Numbers of one width.
Fixed == [
    ubyte     |-> [code |-> TypeCode.UByte,     width |-> 1],
    ushort    |-> [code |-> TypeCode.UShort,    width |-> 2],
    byte      |-> [code |-> TypeCode.Byte,      width |-> 1],
    short     |-> [code |-> TypeCode.Short,     width |-> 2],
    char      |-> [code |-> TypeCode.Char,      width |-> 4],
    timestamp |-> [code |-> TypeCode.Timestamp, width |-> 8]]

\* Kept as bytes.
Raw == [
    float  |-> [code |-> TypeCode.Float,  width |-> 4],
    double |-> [code |-> TypeCode.Double, width |-> 8],
    uuid   |-> [code |-> TypeCode.Uuid,   width |-> 16]]

\* Numbers whose small values have a short form.
Sized == [
    uint  |-> [small |-> TypeCode.UIntSmall,  wide |-> TypeCode.UInt,  width |-> 4],
    ulong |-> [small |-> TypeCode.ULongSmall, wide |-> TypeCode.ULong, width |-> 8],
    int   |-> [small |-> TypeCode.IntSmall,   wide |-> TypeCode.Int,   width |-> 4],
    long  |-> [small |-> TypeCode.LongSmall,  wide |-> TypeCode.Long,  width |-> 8]]

\* Bytes after their length, which is one byte or four.
Lengthy == [
    binary |-> [short |-> TypeCode.Binary8, long |-> TypeCode.Binary32],
    string |-> [short |-> TypeCode.String8, long |-> TypeCode.String32],
    symbol |-> [short |-> TypeCode.Symbol8, long |-> TypeCode.Symbol32]]

Simple ==
    {"null", "bool"} \cup DOMAIN Fixed \cup DOMAIN Raw \cup DOMAIN Sized \cup DOMAIN Lengthy

AnyValue      == Simple \cup {"list", "map", "described"}
MessageId     == {"ulong", "long", "uuid", "binary", "string"}
AnnonationKey == {"symbol", "ulong", "long"}

\* The matches of SimpleValue::decode and Value::decode.
TypeOf ==
       TypeCode.Null :> "null"
    @@ [c \in {TypeCode.Boolean, TypeCode.BooleanTrue, TypeCode.BooleanFalse} |-> "bool"]
    @@ [c \in {TypeCode.UInt0, TypeCode.UIntSmall, TypeCode.UInt} |-> "uint"]
    @@ [c \in {TypeCode.ULong0, TypeCode.ULongSmall, TypeCode.ULong} |-> "ulong"]
    @@ [c \in {TypeCode.IntSmall, TypeCode.Int} |-> "int"]
    @@ [c \in {TypeCode.LongSmall, TypeCode.Long} |-> "long"]
    @@ TypeCode.UByte :> "ubyte" @@ TypeCode.UShort :> "ushort"
    @@ TypeCode.Byte :> "byte" @@ TypeCode.Short :> "short"
    @@ TypeCode.Float :> "float" @@ TypeCode.Double :> "double"
    @@ TypeCode.Char :> "char" @@ TypeCode.Timestamp :> "timestamp"
    @@ TypeCode.Uuid :> "uuid"
    @@ [c \in {TypeCode.Binary8, TypeCode.Binary32} |-> "binary"]
    @@ [c \in {TypeCode.String8, TypeCode.String32} |-> "string"]
    @@ [c \in {TypeCode.Symbol8, TypeCode.Symbol32} |-> "symbol"]
    @@ [c \in {TypeCode.List0, TypeCode.List8, TypeCode.List32} |-> "list"]
    @@ [c \in {TypeCode.Map8, TypeCode.Map32} |-> "map"]
    @@ [c \in {TypeCode.Array8, TypeCode.Array32} |-> "array"]
    @@ TypeCode.Described :> "described"

Value(type, content) == [is |-> type, v |-> content]

Null == Value("null", <<>>)

-----------------------------------------------------------------------------
(* encoded_size.                                                           *)

\* The numbers that get the short form.
IsSmall(type, n) == n \in (IF type \in {"uint", "ulong"} THEN 0 .. 255 ELSE -128 .. 127)

\* Mutant of SizeSized: zero has no form of its own.
SizeSizedNoZero(type, n) == IF IsSmall(type, n) THEN 2 ELSE 1 + Sized[type].width

\* The size of a small long is one too many.
SizeSized(type, n) ==
    IF type \in {"uint", "ulong"} /\ n = 0 THEN 1
    ELSE IF IsSmall(type, n) THEN (IF type = "long" THEN 3 ELSE 2)
    ELSE 1 + Sized[type].width

RECURSIVE Size(_)

SizeItems(items) == Total([i \in 1 .. Len(items) |-> Size(items[i])])

SizePairs(pairs) == Total([i \in 1 .. Len(pairs) |-> SizeItems(pairs[i])])

\* content_size of a list, a map, Header and Properties.
ContentSize(x) == IF x.is = "map" THEN SizePairs(SetToSeq(x.v)) ELSE SizeItems(x.v)

SectionDescriptorSize == 3

\* Without the descriptor of a section.
Size(x) ==
    CASE x.is \in {"null", "bool"}  -> 1
      [] x.is \in DOMAIN Fixed      -> 1 + Fixed[x.is].width
      [] x.is \in DOMAIN Raw        -> 1 + Raw[x.is].width
      [] x.is \in DOMAIN Sized      -> SizeSized(x.is, x.v)
      [] x.is \in DOMAIN Lengthy    -> (IF Len(x.v) > 255 THEN 5 ELSE 2) + Len(x.v)
      [] x.is \in {"list", "map"}   -> (IF ContentSize(x) + 1 > 255 THEN 9 ELSE 3) + ContentSize(x)
      [] x.is \in {"header", "properties"} ->
            (IF SectionDescriptorSize + ContentSize(x) > 255 THEN 9 ELSE 3) + ContentSize(x)
      [] x.is = "described"         -> 1 + (1 + Size(x.v[1])) + Size(x.v[2])

-----------------------------------------------------------------------------
(* encode.                                                                 *)

EncodeSized(type, n) ==
    IF type \in {"uint", "ulong"} /\ n = 0
    THEN <<IF type = "uint" THEN TypeCode.UInt0 ELSE TypeCode.ULong0>>
    ELSE IF IsSmall(type, n)
    THEN <<Sized[type].small>> \o BigEndian(1, n)
    ELSE <<Sized[type].wide>> \o BigEndian(Sized[type].width, n)

\* A timestamp is written in milliseconds.
EncodeFixed(type, v) ==
    <<Fixed[type].code>> \o BigEndian(Fixed[type].width, IF type = "timestamp" THEN v[1] ELSE v)

EncodeLengthy(type, bytes) ==
    (IF Len(bytes) > 255
     THEN <<Lengthy[type].long>> \o BigEndian(4, Len(bytes))
     ELSE <<Lengthy[type].short>> \o BigEndian(1, Len(bytes))) \o bytes

\* Descriptor::encode writes the mark of a described type itself.
EncodeDescriptor(d) ==
    <<TypeCode.Described>> \o
        (IF d.is = "ulong" THEN EncodeSized("ulong", d.v) ELSE EncodeLengthy("symbol", d.v))

\* Code, size and count; a long list keeps the code of a short one.
EncodeListHead(content, count) ==
    <<TypeCode.List8>> \o
        (IF content + 1 > 255
         THEN BigEndian(4, content + 4) \o BigEndian(4, count)
         ELSE BigEndian(1, content + 1) \o BigEndian(1, count))

\* The size of a header is three too many.
EncodeHeaderHead(content, count) ==
    <<TypeCode.List8>> \o
        (IF content + SectionDescriptorSize > 255
         THEN BigEndian(4, content + 4) \o BigEndian(4, count)
         ELSE BigEndian(1, content + 4) \o BigEndian(1, count))

\* Mutant of EncodeMapHead: the count is of entries, not of keys and values.
EncodeMapHeadEntries(content, entries) ==
    IF content + 1 > 255
    THEN <<TypeCode.Map32>> \o BigEndian(4, content + 4) \o BigEndian(4, entries)
    ELSE <<TypeCode.Map8>> \o BigEndian(1, content + 1) \o BigEndian(1, entries)

EncodeMapHead(content, entries) ==
    IF content + 1 > 255
    THEN <<TypeCode.Map32>> \o BigEndian(4, content + 4) \o BigEndian(4, 2 * entries)
    ELSE <<TypeCode.Map8>> \o BigEndian(1, content + 1) \o BigEndian(1, 2 * entries)

RECURSIVE Encode(_)

EncodeItems(items) == FlattenSeq([i \in 1 .. Len(items) |-> Encode(items[i])])

EncodePairs(pairs) == FlattenSeq([i \in 1 .. Len(pairs) |-> EncodeItems(pairs[i])])

\* None is written as null; a map in the order its HashMap has.
Encode(x) ==
    CASE x.is = "null" -> <<TypeCode.Null>>
      [] x.is = "bool" -> <<IF x.v THEN TypeCode.BooleanTrue ELSE TypeCode.BooleanFalse>>
      [] x.is \in DOMAIN Fixed   -> EncodeFixed(x.is, x.v)
      [] x.is \in DOMAIN Raw     -> <<Raw[x.is].code>> \o x.v
      [] x.is \in DOMAIN Sized   -> EncodeSized(x.is, x.v)
      [] x.is \in DOMAIN Lengthy -> EncodeLengthy(x.is, x.v)
      [] x.is \in {"list", "properties"} ->
            EncodeListHead(ContentSize(x), Len(x.v)) \o EncodeItems(x.v)
      [] x.is = "header" ->
            EncodeHeaderHead(ContentSize(x), Len(x.v)) \o EncodeItems(x.v)
      [] x.is = "map" ->
            EncodeMapHead(ContentSize(x), Len(SetToSeq(x.v))) \o EncodePairs(SetToSeq(x.v))
      [] x.is = "described" ->
            <<TypeCode.Described>> \o EncodeDescriptor(x.v[1]) \o Encode(x.v[2])

-----------------------------------------------------------------------------
(* decode.  Each decoder takes the types its Rust type allows.             *)

\* String::from_utf8; the strings of an instance are ASCII.
IsUtf8(bytes) == \A i \in 1 .. Len(bytes) : bytes[i] < 128

IsChar(n) == n \in 0 .. 55295 \/ n \in 57344 .. 1114111

\* IntSmall is read as an unsigned byte.
DecodeSized(type, code, input) ==
    LET unsigned == type \in {"uint", "ulong"}
        width    == Sized[type].width
    IN  CASE code \in {TypeCode.UInt0, TypeCode.ULong0} -> Yield(input, 0)
          [] code = Sized[type].small ->
                IF unsigned \/ type = "int" THEN DecodeInt(1, input) ELSE DecodeSigned(1, input)
          [] OTHER -> IF unsigned THEN DecodeInt(width, input) ELSE DecodeSigned(width, input)

DecodeFixed(type, input) ==
    AndThen(IF type \in {"ubyte", "ushort", "char"}
            THEN DecodeInt(Fixed[type].width, input)
            ELSE DecodeSigned(Fixed[type].width, input),
            LAMBDA d : IF \/ type = "char" /\ ~IsChar(d.value)
                          \/ type = "timestamp" /\ d.value \notin -MaxMillis .. MaxMillis
                       THEN Stop("error")
                       ELSE IF type = "timestamp" THEN Yield(d.rest, <<d.value, 0>>) ELSE d)

DecodeLengthy(type, code, input) ==
    AndThen(AndThen(DecodeInt(IF code = Lengthy[type].short THEN 1 ELSE 4, input),
                    LAMBDA n : Take(n.value, n.rest)),
            LAMBDA d : IF type = "binary" \/ IsUtf8(d.value) THEN d ELSE Stop("error"))

DecodeBoolean(code, input) ==
    IF code = TypeCode.Boolean
    THEN AndThen(DecodeInt(1, input), LAMBDA d : Yield(d.rest, d.value # 0))
    ELSE Yield(input, code = TypeCode.BooleanTrue)

\* The size is skipped, the count is what the elements are read by.
DecodeCount(code, input) ==
    LET width == IF code \in {TypeCode.List8, TypeCode.Map8} THEN 1 ELSE 4
    IN  IF code = TypeCode.List0
        THEN Yield(input, 0)
        ELSE AndThen(DecodeInt(width, input), LAMBDA d : DecodeInt(width, d.rest))

Typed(type, d) == IF d.res = "ok" THEN Yield(d.rest, Value(type, d.value)) ELSE d

\* HashMap::insert.
Insert(map, key, x) == {p \in map : p[1] # key} \cup {<<key, x>>}

RECURSIVE HasMap(_)
HasMap(x) ==
    CASE x.is = "map" -> TRUE
      [] x.is \in {"list", "described"} -> \E i \in 1 .. Len(x.v) : HasMap(x.v[i])
      [] OTHER -> FALSE

RECURSIVE DecodeAny(_, _)
RECURSIVE DecodeItems(_, _, _)
RECURSIVE DecodePairs(_, _, _, _, _)

DecodeItems(count, input, items) ==
    IF Len(items) = count
    THEN Yield(input, items)
    ELSE AndThen(DecodeAny(AnyValue, input),
                 LAMBDA d : DecodeItems(count, d.rest, Append(items, d.value)))

\* Two elements an entry; an odd count underflows, a panic or (in a release build) a reader
\* that runs off the end of the message.  A map cannot be hashed (unimplemented!).
DecodePairs(keys, values, count, input, map) ==
    CASE count = 0 -> Yield(input, map)
      [] count = 1 -> Stop("panic")
      [] OTHER ->
            AndThen(DecodeAny(keys, input), LAMBDA k :
                AndThen(DecodeAny(values, k.rest), LAMBDA d :
                    IF HasMap(k.value)
                    THEN Stop("panic")
                    ELSE DecodePairs(keys, values, count - 2, d.rest,
                                     Insert(map, k.value, d.value))))

DecodeMap(keys, values, input) ==
    AndThen(DecodeInt(1, input), LAMBDA c :
        IF c.value \notin {TypeCode.Map8, TypeCode.Map32}
        THEN Stop("error")
        ELSE AndThen(DecodeCount(c.value, c.rest), LAMBDA n :
                Typed("map", DecodePairs(keys, values, n.value, n.rest, {}))))

DecodeDescriptor(input) ==
    AndThen(DecodeInt(1, input), LAMBDA c :
        IF c.value # TypeCode.Described
        THEN Stop("error")
        ELSE DecodeAny({"ulong", "symbol"}, c.rest))

DecodeDescribed(input) ==
    AndThen(DecodeDescriptor(input), LAMBDA d :
        AndThen(DecodeAny(AnyValue, d.rest), LAMBDA x : Yield(x.rest, <<d.value, x.value>>)))

\* The content of a value whose code has been read.
DecodeAs(type, code, input) ==
    CASE type = "null"           -> Yield(input, <<>>)
      [] type = "bool"           -> DecodeBoolean(code, input)
      [] type \in DOMAIN Fixed   -> DecodeFixed(type, input)
      [] type \in DOMAIN Raw     -> Take(Raw[type].width, input)
      [] type \in DOMAIN Sized   -> DecodeSized(type, code, input)
      [] type \in DOMAIN Lengthy -> DecodeLengthy(type, code, input)
      [] type = "list"           -> AndThen(DecodeCount(code, input),
                                            LAMBDA n : DecodeItems(n.value, n.rest, <<>>))
      [] type = "described"      -> DecodeDescribed(input)

\* T::decode for a T that takes these types.
DecodeAny(types, input) ==
    AndThen(DecodeInt(1, input), LAMBDA c :
        IF c.value \notin DOMAIN TypeOf \/ TypeOf[c.value] \notin types
        THEN Stop("error")
        ELSE IF TypeOf[c.value] = "map"
        THEN DecodeMap(AnyValue, AnyValue, input)
        ELSE Typed(TypeOf[c.value], DecodeAs(TypeOf[c.value], c.value, c.rest)))

-----------------------------------------------------------------------------
(* Header, Properties and the sections of a message.                       *)

\* durable, priority, ttl, first_acquirer, delivery_count.
HeaderFields  == <<{"bool"}, {"ubyte"}, {"uint"}, {"bool"}, {"uint"}>>
HeaderDefault == <<Value("bool", FALSE), Value("ubyte", 4), Null, Value("bool", FALSE), Value("uint", 0)>>
\* What list_decoder_header puts for a null.
HeaderForNull == <<Value("bool", FALSE), Value("ubyte", 4), Null, Value("bool", FALSE), Value("uint", 4)>>

\* message_id, user_id, to, subject, reply_to, correlation_id, content_type,
\* content_encoding, absolute_expiry_time, creation_time, group_id, group_sequence,
\* reply_to_group_id.
PropertiesFields ==
    <<MessageId, {"binary"}, {"string"}, {"string"}, {"string"}, MessageId, {"symbol"},
      {"symbol"}, {"timestamp"}, {"timestamp"}, {"string"}, {"uint"}, {"string"}>>

PropertiesDefault == [i \in 1 .. 13 |-> Null]

RECURSIVE DecodeFields(_, _, _, _, _, _)

\* list_decoder!: an element after the known ones is not read.
DecodeFields(fields, forNull, count, i, input, dest) ==
    IF i > count
    THEN Yield(input, dest)
    ELSE IF i > Len(fields)
    THEN DecodeFields(fields, forNull, count, i + 1, input, dest)
    ELSE AndThen(DecodeAny(fields[i] \cup {"null"}, input), LAMBDA d :
             DecodeFields(fields, forNull, count, i + 1, d.rest,
                          [dest EXCEPT ![i] = IF d.value = Null THEN forNull[i] ELSE d.value]))

\* List::decode_with_fields.
DecodeWithFields(fields, forNull, default, input) ==
    AndThen(DecodeInt(1, input), LAMBDA c :
        IF c.value \notin {TypeCode.List0, TypeCode.List8, TypeCode.List32}
        THEN Stop("error")
        ELSE AndThen(DecodeCount(c.value, c.rest), LAMBDA n :
                DecodeFields(fields, forNull, n.value, 1, n.rest, default)))

\* The sections in the order Message::encode writes them.
Order == <<"header", "delivery_annotations", "message_annotations", "properties",
           "application_properties", "data", "sequence", "value", "footer">>

Sections == Range(Order)

SectionNumber == [
    header |-> 112, delivery_annotations |-> 113, message_annotations |-> 114,
    properties |-> 115, application_properties |-> 116, data |-> 117, sequence |-> 118,
    value |-> 119, footer |-> 120]

\* A message has any number of data and sequence sections and one of each other at most.
Repeated == {"data", "sequence"}

EmptyMessage == [s \in Sections |-> <<>>]

EncodeSection(s, x) == EncodeDescriptor(Value("ulong", SectionNumber[s])) \o Encode(x)

\* Message::encode.
EncodeMessage(m) ==
    FlattenSeq([i \in 1 .. Len(Order) |->
        FlattenSeq([k \in 1 .. Len(m[Order[i]]) |-> EncodeSection(Order[i], m[Order[i]][k])])])

\* Message::encoded_size.
SizeMessage(m) ==
    Total([i \in 1 .. Len(Order) |->
        Total([k \in 1 .. Len(m[Order[i]]) |-> SectionDescriptorSize + Size(m[Order[i]][k])])])

\* The content of a section.
DecodeContent(s, input) ==
    CASE s = "header" ->
            Typed("header", DecodeWithFields(HeaderFields, HeaderForNull, HeaderDefault, input))
      [] s = "properties" ->
            Typed("properties",
                  DecodeWithFields(PropertiesFields, PropertiesDefault, PropertiesDefault, input))
      [] s \in {"delivery_annotations", "message_annotations", "footer"} ->
            DecodeMap(AnnonationKey, AnyValue, input)
      [] s = "application_properties" -> DecodeMap({"string"}, Simple, input)
      [] s = "data"     -> DecodeAny({"binary"}, input)
      [] s = "sequence" -> DecodeAny({"list"}, input)
      [] s = "value"    -> DecodeAny(AnyValue, input)

\* MessageSection::decode: which section, and its content.
DecodeSection(input) ==
    AndThen(DecodeDescriptor(input), LAMBDA d :
        IF ~\E s \in Sections : d.value = Value("ulong", SectionNumber[s])
        THEN Stop("error")
        ELSE LET s == CHOOSE t \in Sections : d.value = Value("ulong", SectionNumber[t])
             IN  AndThen(DecodeContent(s, d.rest),
                         LAMBDA x : Yield(x.rest, [section |-> s, content |-> x.value])))

=============================================================================
