----------------------------- MODULE MCDecoders -----------------------------
(* The three decoders of bytes that come in pieces, for TLC: a behaviour   *)
(* is one conversation, form or exchange of frames, chosen at the start,   *)
(* cut in every way its odd allows.  The decoders share the names of the   *)
(* variables for what is on the wire; the state of the two that are not    *)
(* chosen stays fresh.                                                     *)
EXTENDS Integers, Sequences

CONSTANTS
    None, Conversations, HeadersLimit, BodyLimit,
    Forms, Delimiter, Disposition, HeaderOf(_), ChunkSize, FlushFactor, InMemoryLimit,
    Peers

VARIABLES
    decoder, odd, wire, sent, got,
    side, segment, open, name, value, headers, url, headersSize, bodySize, maxBody, error,
    peer, fields, data, fed, status, buffer, values, failed,
    tasks, parser

http == <<side, segment, open, name, value, headers, url, headersSize, bodySize, maxBody, error>>
form == <<peer, fields, data, fed, status, buffer, values, failed>>
frames == <<tasks, parser>>
vars == <<decoder, odd, wire, sent, got, http, form, frames>>

Http == INSTANCE HttpParser
Form == INSTANCE Multipart
Frames == INSTANCE Websocket

Fresh(others) ==
    /\ "http" \in others => Http!NewParser /\ side = "request"
    /\ "form" \in others => Form!NewParser /\ peer = "encoder" /\ fields = <<>>
    /\ "frames" \in others => Frames!NewParser

Init ==
    \/ decoder = "http" /\ Http!Init /\ Fresh({"form", "frames"})
    \/ decoder = "form" /\ Form!Init /\ sent = <<>> /\ Fresh({"http", "frames"})
    \/ decoder = "frames" /\ Frames!Init /\ Fresh({"http", "form"})

Next ==
    /\ \/ decoder = "http" /\ Http!Next /\ UNCHANGED <<form, frames>>
       \/ decoder = "form" /\ Form!Next /\ UNCHANGED <<http, frames, sent, got>>
       \/ decoder = "frames" /\ Frames!Next /\ UNCHANGED <<http, form>>
    /\ UNCHANGED decoder

Spec == Init /\ [][Next]_vars

-----------------------------------------------------------------------------
TypeOK ==
    /\ decoder = "http" => Http!HttpType
    /\ decoder = "form" => Form!FormType
    /\ decoder = "frames" => Frames!FrameType

\* HttpParser and HttpResponseParser hand over the messages that were sent,
\* each with its own headers and body, wherever the segments are cut.
MessagesAreAsSent == decoder = "http" => Http!MessagesAreAsSent

\* HttpParser refuses a request for its own size and the limits of its route,
\* whatever came before it on the connection.
LimitsAreItsOwn == decoder = "http" => Http!LimitsAreItsOwn

\* MultipartParser makes of the chunks of a body the form the client encoded,
\* content that is flushed before its boundary is found included.
FormIsWhatWasSent == decoder = "form" => Form!FormIsWhatWasSent

\* "We cannot flush the entire stream because maybe the boundary is sliced
\* between two chunks" (multipart/parser.pyx:280): it may be sliced anywhere.
BoundariesMayBeSliced == decoder = "form" => Form!BoundariesMayBeSliced

\* FrameParser gives its handlers the messages that were sent, in order.
FramesAreAsSent == decoder = "frames" => Frames!FramesAreAsSent

-----------------------------------------------------------------------------
(* The conversations: limits of eight bytes of headers and three of body.  *)

Header(n, v) == [name |-> n, value |-> v]
Get == [url |-> <<"u", "v">>, fields |-> <<Header(<<"a", "b">>, <<"x", "y">>), Header(<<"c">>, <<"z">>)>>,
        chunked |-> FALSE, chunks |-> <<>>, trailers |-> <<>>, upgrade |-> FALSE, limit |-> None]
Long == [Get EXCEPT !.url = <<"l", "o", "n">>, !.fields[1].value = <<"x", "y", "z">>]
Put(u, chunks, limit) == [Get EXCEPT !.url = u, !.chunks = chunks, !.limit = limit]
Chunked(m) == [m EXCEPT !.chunked = TRUE]
Small == Put(<<"s">>, <<<<"1", "2">>>>, 2)
TooBig == Put(<<"s">>, <<<<"1", "2", "3">>>>, 2)
Usual == Chunked(Put(<<"p">>, <<<<"1", "2">>, <<"3">>>>, None))
Free == Chunked(Put(<<"f">>, <<<<"1", "2">>, <<"3", "4">>>>, 0))
Trailed == [Usual EXCEPT !.trailers = <<Header(<<"t">>, <<"1">>)>>]
Upgrade == [Get EXCEPT !.url = <<"w">>, !.upgrade = TRUE]
Answer == [Usual EXCEPT !.url = <<>>]

Requests(what, messages) == [side |-> "request", odd |-> what, sent |-> messages]
SomeConversations ==
    {Requests({}, m) : m \in {<<Get, Small, Get>>, <<Small, Usual>>, <<Free, Usual>>, <<Get, TooBig>>,
                              <<Get, Long>>, <<Small, Upgrade>>}}
    \cup {Requests({"cut"}, <<Get, Usual>>), Requests({"early"}, <<Upgrade, Get>>),
          Requests({"trailers"}, <<Trailed, Get>>)}
    \cup {[Requests({}, <<Answer>>) EXCEPT !.side = "response"]}

-----------------------------------------------------------------------------
(* The forms: content is flushed from six characters on.                   *)

DelimiterB == <<"b">>
PartOf(f) == IF f.name = "" THEN "textless" ELSE IF f.kind = "text" THEN "textX" ELSE "fileY"
PartNames ==
    [textX |-> [name |-> "x", filename |-> None], fileY |-> [name |-> "y", filename |-> "y"],
     textless |-> [name |-> None, filename |-> None]]

Field(n, k, c) == [name |-> n, kind |-> k, content |-> c, pieces |-> <<c>>]
X(c) == Field("x", "text", c)
Y(c) == Field("y", "file", c)
Nine == <<"a", "a", "a", "a", "-", "-", "r", "n", "-">>
Sends(by, what, f) == [peer |-> by, odd |-> what, fields |-> f]
SomeForms ==
    {Sends(by, {}, <<X(c), Y(Nine)>>) : by \in {"encoder", "browser"},
                                        c \in {<<>>, <<"a">>, <<"r", "n">>, <<"-", "-">>}}
    \cup {Sends("browser", what, <<Y(Nine), X(<<"a">>)>>) : what \in {{}, {"sliced"}}}
    \cup {Sends("encoder", {"long"}, <<Y(Nine \o Nine)>>),
          Sends("browser", {"nameless"}, <<Field("", "text", <<"a">>)>>),
          Sends("browser", {"twice"}, <<X(<<"a">>), X(<<"n">>)>>),
          Sends("encoder", {"iterable"}, <<Field("y", "iterable", <<"a", "b", "c", "d">>)>>)}

-----------------------------------------------------------------------------
Message(op, payload) == [opcode |-> op, payload |-> payload, mask |-> <<7, 130, 1, 64>>]
Exchange(what, messages) == [odd |-> what, sent |-> messages]
SomePeers ==
    {Exchange({}, <<Message(1, <<104, 105, 33, 1, 2>>), Message(2, <<>>), Message(1, <<1>>)>>),
     Exchange({}, <<Message(2, <<200, 0>>), Message(8, <<>>)>>),
     Exchange({"cut"}, <<Message(1, <<104>>), Message(2, <<>>)>>),
     Exchange({"unmasked"}, <<[Message(1, <<104, 105>>) EXCEPT !.mask = <<>>], Message(2, <<1>>)>>),
     Exchange({"long"}, <<Message(1, [i \in 1..126 |-> 1]), Message(2, <<1>>)>>)}
    \cup {Exchange({"control"}, <<Message(op, <<1>>), Message(2, <<1>>)>>) : op \in {9, 10}}
=============================================================================
