------------------------------ MODULE MCFraming ------------------------------
(***************************************************************************)
(* Framing with sample values for every field of every command: sample 1   *)
(* is small and empty, sample 2 has numbers of several bytes, lists with an *)
(* entry and a refusing response code, sample 3 the same with code Ok.     *)
(***************************************************************************)
EXTENDS Framing, Wire

RECURSIVE Sample(_, _)

SampleOf(fields, k) ==
    [i \in 1 .. Len(fields) |->
        IF \E f \in Range(fields) : f.is = "counted" /\ f.by = i
        THEN k
        ELSE Sample(fields[i], k)]

Sample(f, k) ==
    CASE f.is = "int"     -> IF k = 1 THEN 1 ELSE IF f.width = 1 THEN 255 ELSE 258
      [] f.is = "code"    -> IF k = 2 THEN 2 ELSE 1
      [] f.is \in {"string", "reference"} -> IF k = 1 THEN <<97>> ELSE <<98, 99>>
      [] f.is \in {"option", "bytes", "blob"} -> IF k = 1 THEN <<>> ELSE <<100>>
      [] f.is = "offset"  -> IF k = 1 THEN <<3>> ELSE <<4, 258>>
      [] f.is = "list"    -> IF k = 1 THEN <<>> ELSE <<SampleOf(f.of, k)>>
      [] f.is = "counted" -> [i \in 1 .. k |-> SampleOf(f.of, k)]
      [] f.is = "ifok"    -> IF k = 2 THEN <<>> ELSE Sample(f.of, k)

Response(key, k) ==
    [key |-> key, version |-> 1, values |-> SampleOf(ResponseKinds[key], k)]

Request(key, version, k) ==
    [key |-> key, version |-> version, values |-> SampleOf(RequestLayout(key, version), k)]

\* The masked keys: no response is read under Key.CONSUMER_UPDATE_REQUEST.
ResponseKeys == {k \in DOMAIN ResponseKinds : k < ResponseBit}

AllResponses == {Response(key, k) : key \in ResponseKeys, k \in 1 .. 3}

\* The responses of publishing and consuming: no strings in them.
StringFree ==
    {Response(key, k) :
        key \in {Key.PUBLISH_CONFIRM, Key.PUBLISH_ERROR, Key.QUERY_OFFSET, Key.CREDIT,
                 Key.DELIVER, Key.HEARTBEAT, Key.SUBSCRIBE, Key.CONSUMER_UPDATE},
        k \in 1 .. 2}

\* One response, two responses, some requests.
Hearing(r)        == [responses |-> <<r>>, requests |-> <<>>]
HearingTwo(r, s)  == [responses |-> <<r, s>>, requests |-> <<>>]
Asking(qs)        == [responses |-> <<>>, requests |-> qs]

AllRequests ==
    {Request(key, 1, k) : key \in DOMAIN RequestKinds, k \in 1 .. 3}
        \cup {Request(Key.PUBLISH, 2, k) : k \in 1 .. 2}

\* A reference longer than the encoder accepts.
Refused ==
    [key     |-> Key.STORE_OFFSET,
     version |-> 1,
     values  |-> <<[i \in 1 .. MaxReference + 1 |-> 97], <<98>>, 1>>]

\* Requests around a refused one: fixed fields, strings, a list.
SomeRequests ==
    {Request(key, 1, 2) : key \in {Key.CREDIT, Key.STORE_OFFSET, Key.PUBLISH, Key.METADATA}}

\* Every response alone, every two without strings, every two requests with the refused
\* one in either place, and the refused one between two, before two and behind two.
AllConversations ==
    {Hearing(r) : r \in AllResponses}
        \cup {HearingTwo(r, s) : r \in StringFree, s \in StringFree}
        \cup {Asking(<<q, p>>) : q \in AllRequests \cup {Refused}, p \in AllRequests \cup {Refused}}
        \cup UNION {{Asking(<<q, Refused, p>>), Asking(<<Refused, q, p>>), Asking(<<q, p, Refused>>)} :
                        q \in SomeRequests, p \in SomeRequests}

ASSUME KeysAssumption ==
    \A c \in Conversations :
        /\ \A r \in Range(c.responses) : r.key \in DOMAIN ResponseKinds
        /\ \A q \in Range(c.requests) : q.key \in DOMAIN RequestKinds

StringConversation == {Hearing(Response(Key.METADATA_UPDATE, 1))}
=============================================================================
