-------------------------------- MODULE MCAmqp --------------------------------
(***************************************************************************)
(* Amqp with values of every type, at the edges of the forms they have.    *)
(***************************************************************************)
EXTENDS Amqp

Filler(n) == [i \in 1 .. n |-> 97]

SampleBodies == {<<>>, <<1, 255>>, Filler(255), Filler(256)}

SampleSettings ==
    {<<1, Value("string", <<97>>)>>, <<1, Value("ulong", 256)>>, <<1, Value("long", 127)>>,
     <<1, Value("uuid", Filler(16))>>, <<2, Value("binary", <<>>)>>, <<3, Value("string", Filler(240))>>,
     <<3, Value("string", Filler(239))>>, <<3, Value("string", Filler(241))>>,
     <<6, Value("long", -129)>>, <<7, Value("symbol", <<98>>)>>,
     <<9, Value("timestamp", <<-1, 0>>)>>, <<10, Value("timestamp", <<258, 5>>)>>,
     <<12, Value("uint", 255)>>}

Key == Value("symbol", <<107>>)

ListOf(n)  == Value("list", [i \in 1 .. n |-> Value("bool", TRUE)])
\* A list of n + 2 bytes.
ListWith(n) == Value("list", <<Value("binary", Filler(n))>>)

Scalars ==
    {Null, Value("bool", TRUE), Value("bool", FALSE), Value("ubyte", 255), Value("ushort", 256),
     Value("byte", -1), Value("short", -2), Value("char", 8364), Value("float", Filler(4)),
     Value("double", Filler(8))}
    \cup {Value("uint", n) : n \in {0, 1, 255, 256}}
    \cup {Value("ulong", n) : n \in {0, 1, 255, 256}}
    \cup {Value("int", n) : n \in {-129, -128, -1, 0, 127, 128}}
    \cup {Value("long", n) : n \in {-129, -128, 0, 127, 128}}

SampleAnnotations ==
    {<<Key, x>> : x \in {ListOf(0), ListWith(252), ListWith(253), Value("map", {}),
                         Value("map", {<<Value("bool", TRUE), ListOf(1)>>})}}
    \cup {<<Value("ulong", 0), Null>>, <<Value("long", 300), Value("uint", 1)>>}

SampleApplications ==
    {<<Value("string", <<107>>), x>> : x \in Scalars}
    \cup {<<Value("string", Filler(250)), Value("string", <<>>)>>}

Header(durable, priority, ttl, first, count) ==
    Value("header", <<Value("bool", durable), Value("ubyte", priority), ttl,
                      Value("bool", first), Value("uint", count)>>)

SampleHeaders ==
    {Header(TRUE, 100, Value("uint", 0), TRUE, 300), Header(FALSE, 4, Null, FALSE, 0),
     Header(FALSE, 4, Value("uint", 256), FALSE, 1)}

Described == Value("described", <<Value("ulong", 119), Value("bool", TRUE)>>)

SampleOthers ==
    {[EmptyMessage EXCEPT !["header"] = <<h>>, !["data"] = <<Value("binary", <<1>>)>>] : h \in SampleHeaders}
    \cup {[EmptyMessage EXCEPT !["value"] = <<x>>] : x \in Scalars \cup {ListOf(2), ListWith(253), Described}}
    \cup {[EmptyMessage EXCEPT !["sequence"] = <<ListOf(1), ListOf(0)>>,
                               !["data"] = <<Value("binary", <<>>), Value("binary", Filler(256))>>,
                               !["delivery_annotations"] = <<Value("map", {<<Key, Null>>})>>,
                               !["footer"] = <<Value("map", {<<Key, Value("map", {<<Null, Value("long", -1)>>})>>})>>]}
    \cup {[EmptyMessage EXCEPT !["properties"] = <<Value("properties", [PropertiesDefault EXCEPT ![p[1]] = p[2]])>>]
            : p \in {q \in SampleSettings : q[2].is # "timestamp" \/ q[2].v[2] = 0}}
=============================================================================
