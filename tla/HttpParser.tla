----------------------------- MODULE HttpParser -----------------------------
(***************************************************************************)
(* class HttpParser of parsers/parser.pyx, and its twin HttpResponseParser *)
(* of parsers/response.pyx: what the callbacks of the C parser make of the *)
(* messages of a connection, whose bytes arrive in segments cut anywhere.  *)
(*                                                                         *)
(* A byte of the wire is a pair <<kind, byte>>.  The kinds "url", "field", *)
(* "value" and "body" are data: the C parser calls back with every stretch *)
(* of them that lies in one segment.  The others it reports by themselves: *)
(* "headers" is the empty line after the headers, "size" the line before a *)
(* chunk, "chunk" the end of one, and "end", which is not a byte, the end  *)
(* of the message.  "gap" is whatever else stands between them.            *)
(*                                                                         *)
(* odd names what is unusual about a connection:                           *)
(*   "cut"      a segment ends inside a URL or the name of a header, or    *)
(*              right behind it                                            *)
(*   "trailers" chunked messages may have trailing headers                 *)
(*   "early"    bytes follow an upgrade in its segment                     *)
(***************************************************************************)
EXTENDS Integers, SequencesExt

CONSTANTS
    None,           \* Python's None
    Conversations,  \* [side, odd, sent]: who parses what
    HeadersLimit,   \* Limits: max_headers_size
    BodyLimit       \* and max_body_size; 0 for none

VARIABLES
    side,           \* "request" or "response": the class that parses
    odd,
    sent,           \* the messages of the peer
    wire,           \* the bytes still to arrive
    segment,        \* the bytes of feed_data still to be parsed
    open,           \* the kind of data the previous segment ended in
    name, value,    \* _current_header_name, _current_header_value
    headers,        \* _headers
    url,            \* _url
    headersSize,    \* current_headers_size
    bodySize,       \* current_body_size
    maxBody,        \* max_body_size
    error,          \* what feed_data raised
    got             \* history: what the protocol was told

header == <<name, value, headers>>
limits == <<headersSize, bodySize, maxBody>>
httpVars == <<side, odd, sent, wire, segment, open, header, url, limits, error, got>>

-----------------------------------------------------------------------------
(* What the peer sends: fields and trailers are sequences of [name, value],*)
(* chunks one of byte sequences, the body of an unchunked message its one. *)

Kinded(kind, bytes) == [i \in DOMAIN bytes |-> <<kind, bytes[i]>>]
Mark(kind) == Kinded(kind, <<kind>>)

Lines(fields) ==
    FlattenSeq([i \in DOMAIN fields |->
        Kinded("field", fields[i].name) \o Mark("gap") \o Kinded("value", fields[i].value) \o Mark("gap")])

Chunks(m) ==
    FlattenSeq([i \in DOMAIN m.chunks |-> Mark("size") \o Kinded("body", m.chunks[i]) \o Mark("chunk")])
    \o Mark("size") \o Lines(m.trailers) \o Mark("chunk")

Body(m) == FlattenSeq(m.chunks)
Bytes(m) ==
    (IF m.url = <<>> THEN <<>> ELSE Kinded("url", m.url) \o Mark("gap"))
    \o Lines(m.fields) \o Mark("headers")
    \o (IF m.chunked THEN Chunks(m) ELSE Kinded("body", Body(m)))
    \o Kinded("end", <<IF m.upgrade THEN "upgrade" ELSE "end">>)

HeadersSize(m) ==
    Len(m.url) + Len(FlattenSeq([i \in DOMAIN m.fields |-> m.fields[i].name \o m.fields[i].value]))
LimitOf(m) == IF m.limit = None THEN BodyLimit ELSE m.limit

-----------------------------------------------------------------------------
(* The C parser (vendor/http-parser): which callback is next, and its data.*)

\* Data the last segment ended in goes on, be it by no byte at all.
NextCall ==
    IF segment = <<>> THEN None ELSE IF open # None THEN open ELSE segment[1][1]

Stretch == SelectInSeq(segment, LAMBDA b : b[1] # NextCall)
Size == IF Stretch = 0 THEN Len(segment) ELSE Stretch - 1
Piece == [i \in 1..Size |-> segment[i][2]]

After(n) ==
    LET rest == SubSeq(segment, n + 1, Len(segment))
    IN IF rest # <<>> /\ rest[1][1] = "gap" THEN Tail(rest) ELSE rest

PastData ==
    /\ segment' = After(Size)
    /\ open' = IF Stretch = 0 /\ NextCall # "body" THEN NextCall ELSE None
PastMark == segment' = Tail(segment) /\ open' = None

\* A callback that fails stops the parser: feed_data raises.  The response
\* parser hides the error in the context of another.
Raise(e) ==
    /\ error' = IF side = "request" THEN e ELSE "HttpParserCallbackError"
    /\ segment' = <<>> /\ open' = None

-----------------------------------------------------------------------------
(* The callbacks.                                                          *)

\* Mutant of IsHeader: whether a header has begun is not asked.
IsAnyHeader == side = "request" => name # <<>>

\* Both classes store a header when the next begins; HttpParser only if its
\* name is not empty.
IsHeader == name # None /\ (side = "request" => name # <<>>)
Stored == IF IsHeader THEN Append(headers, [name |-> name, value |-> value]) ELSE headers
StoreHeader ==
    /\ headers' = Stored
    /\ IF IsHeader THEN name' = None /\ value' = None ELSE UNCHANGED <<name, value>>

TooLarge == side = "request" /\ HeadersLimit > 0 /\ headersSize + Size > HeadersLimit
CountHeaders ==
    /\ headersSize' = IF side = "request" THEN headersSize + Size ELSE headersSize
    /\ UNCHANGED <<bodySize, maxBody>>

OnUrl ==
    /\ NextCall = "url" /\ ~TooLarge
    /\ CountHeaders /\ PastData
    /\ url' = Piece
    /\ UNCHANGED <<header, error, got>>

OnHeaderField ==
    /\ NextCall = "field" /\ ~TooLarge
    /\ CountHeaders /\ PastData
    /\ headers' = Stored /\ name' = Piece
    /\ value' = IF IsHeader THEN None ELSE value
    /\ UNCHANGED <<url, error, got>>

\* Mutant of JoinedValue: a value is its last piece, as a URL is.
LastPiece(piece) == piece

JoinedValue(piece) == IF value = None THEN piece ELSE value \o piece

OnHeaderValue ==
    /\ NextCall = "value" /\ ~TooLarge
    /\ CountHeaders /\ PastData
    /\ value' = JoinedValue(Piece)
    /\ UNCHANGED <<name, headers, url, error, got>>

HeadersTooLarge ==
    /\ NextCall \in {"url", "field", "value"} /\ TooLarge
    /\ Raise("HeadersLimitError")
    /\ UNCHANGED <<header, url, limits, got>>

\* The limits of the route found for a URL; None when it has none.
RouteLimit(u) ==
    LET routed == SelectSeq(sent, LAMBDA m : m.url = u)
    IN IF routed = <<>> THEN None ELSE routed[1].limit

\* The list of headers is handed over, and a new one begun; the connection
\* sets the limit of the route for the body to come.
OnHeadersComplete ==
    /\ NextCall = "headers"
    /\ IF IsHeader THEN name' = None /\ value' = None ELSE UNCHANGED <<name, value>>
    /\ headers' = <<>>
    /\ got' = Append(got, [url |-> url, fields |-> Stored, body |-> <<>>, done |-> FALSE])
    /\ maxBody' = IF RouteLimit(url) = None THEN maxBody ELSE RouteLimit(url)
    /\ PastMark
    /\ UNCHANGED <<url, headersSize, bodySize, error>>

Limited == side = "request" /\ maxBody > 0

OnBody ==
    /\ NextCall = "body"
    /\ IF Limited /\ bodySize + Size > maxBody
       THEN Raise("BodyLimitError") /\ UNCHANGED <<limits, got>>
       ELSE /\ bodySize' = IF Limited THEN bodySize + Size ELSE bodySize
            /\ got' = [got EXCEPT ![Len(got)].body = @ \o Piece]
            /\ PastData
            /\ UNCHANGED <<headersSize, maxBody, error>>
    /\ UNCHANGED <<header, url>>

OnChunkHeader ==
    /\ NextCall = "size"
    /\ IF name # None \/ value # None
       THEN Raise("HttpParserError")
       ELSE PastMark /\ UNCHANGED error
    /\ UNCHANGED <<header, url, limits, got>>

\* After the last chunk this stores the last trailing header.
OnChunkComplete ==
    /\ NextCall = "chunk"
    /\ StoreHeader /\ PastMark
    /\ UNCHANGED <<url, limits, error, got>>

\* Mutant of ResetLimits: the limit of a route outlives its request.
ResetSizes == headersSize' = 0 /\ bodySize' = 0 /\ UNCHANGED maxBody

ResetLimits == headersSize' = 0 /\ bodySize' = 0 /\ maxBody' = BodyLimit

\* After an upgrade the C parser stops, and feed_data has bytes to spare.
OnMessageComplete ==
    /\ NextCall = "end"
    /\ IF side = "request" THEN ResetLimits ELSE UNCHANGED limits
    /\ got' = [got EXCEPT ![Len(got)].done = TRUE]
    /\ IF segment[1][2] = "upgrade" /\ Len(segment) > 1
       THEN error' = "HttpParserError" /\ segment' = <<>> /\ open' = None
       ELSE PastMark /\ UNCHANGED error
    /\ UNCHANGED <<header, url>>

-----------------------------------------------------------------------------
Upgraded == got # <<>> /\ got[Len(got)].done /\ sent[Len(got)].upgrade

\* data_received: n bytes arrive.  "end" is no byte of its own.
Receive(n) ==
    /\ segment = <<>> /\ error = None /\ ~Upgraded
    /\ n < Len(wire) => wire[n + 1][1] # "end"
    /\ "cut" \notin odd => wire[n][1] \notin {"url", "field"}
    /\ "early" \notin odd => \A i \in 1..n-1 : wire[i] # <<"end", "upgrade">>
    /\ segment' = SubSeq(wire, 1, n) /\ wire' = SubSeq(wire, n + 1, Len(wire))
    /\ UNCHANGED <<open, header, url, limits, error, got>>

\* HttpParser.__init__.
NewParser ==
    /\ segment = <<>> /\ open = None /\ name = None /\ value = None /\ headers = <<>>
    /\ url = <<>> /\ headersSize = 0 /\ bodySize = 0 /\ maxBody = BodyLimit
    /\ error = None /\ got = <<>>

Init ==
    /\ \E c \in Conversations :
          side = c.side /\ odd = c.odd /\ sent = c.sent
          /\ wire = FlattenSeq([i \in DOMAIN c.sent |-> Bytes(c.sent[i])])
    /\ NewParser

\* HttpParser sets all the callbacks, HttpResponseParser that of URLs not.
RequestCallback ==
    /\ side = "request"
    /\ \/ OnUrl \/ OnHeaderField \/ OnHeaderValue \/ HeadersTooLarge \/ OnHeadersComplete
       \/ OnBody \/ OnChunkHeader \/ OnChunkComplete \/ OnMessageComplete

ResponseCallback ==
    /\ side = "response"
    /\ \/ OnHeaderField \/ OnHeaderValue \/ OnHeadersComplete
       \/ OnBody \/ OnChunkHeader \/ OnChunkComplete \/ OnMessageComplete

Next ==
    /\ \/ \E n \in DOMAIN wire : Receive(n)
       \/ (RequestCallback \/ ResponseCallback) /\ UNCHANGED wire
    /\ UNCHANGED <<side, odd, sent>>

Spec == Init /\ [][Next]_httpVars

-----------------------------------------------------------------------------
Strings == Seq(STRING)
HttpType ==
    /\ side \in {"request", "response"} /\ odd \subseteq {"cut", "trailers", "early"}
    /\ wire \in Seq(STRING \X STRING) /\ segment \in Seq(STRING \X STRING)
    /\ open \in {None, "url", "field", "value"}
    /\ name \in Strings \cup {None} /\ value \in Strings \cup {None} /\ url \in Strings
    /\ headers \in Seq([name : Strings, value : Strings \cup {None}])
    /\ {headersSize, bodySize, maxBody} \subseteq Nat
    /\ error \in {None, "HeadersLimitError", "BodyLimitError", "HttpParserError", "HttpParserCallbackError"}
    /\ got \in Seq([url : Strings, fields : Seq([name : Strings, value : Strings \cup {None}]),
                    body : Strings, done : BOOLEAN])

\* The protocol is told the messages that were sent, in order, each with its
\* own headers and body, wherever the segments were cut; and when all has
\* arrived it was told all of them.
MessagesAreAsSent ==
    odd = {} =>
        /\ \A i \in DOMAIN got :
              /\ got[i].url = sent[i].url /\ got[i].fields = sent[i].fields
              /\ IsPrefix(got[i].body, Body(sent[i]))
              /\ got[i].done => got[i].body = Body(sent[i])
              /\ i < Len(got) => got[i].done
        /\ wire = <<>> /\ segment = <<>> /\ error = None =>
              Len(got) = Len(sent) /\ \A i \in DOMAIN got : got[i].done

\* A message is refused when it exceeds its own limits, those of its route,
\* and only then: neither the messages before it nor the segments matter.
LimitsAreItsOwn ==
    odd = {} /\ side = "request" =>
        LET current == IF got # <<>> /\ ~got[Len(got)].done THEN Len(got) ELSE Len(got) + 1
        IN /\ error \in {None, "HeadersLimitError", "BodyLimitError"}
           /\ error = "HeadersLimitError" => HeadersSize(sent[current]) > HeadersLimit
           /\ error = "BodyLimitError" => Len(Body(sent[current])) > LimitOf(sent[current])
           /\ \A i \in DOMAIN got : got[i].done =>
                 /\ HeadersLimit = 0 \/ HeadersSize(sent[i]) <= HeadersLimit
                 /\ LimitOf(sent[i]) = 0 \/ Len(Body(sent[i])) <= LimitOf(sent[i])
=============================================================================
