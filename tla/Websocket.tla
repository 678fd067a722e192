----------------------------- MODULE Websocket ------------------------------
(***************************************************************************)
(* Websocket frames from create_single_frame to the opcode handlers of     *)
(* FrameParser (websockets/obj.py).  WebsocketConnection.data_received     *)
(* (protocol/cwebsocket.pyx) makes each segment a task that feeds it; no   *)
(* handler suspends, so that the tasks run one after the other, in order.  *)
(* A feed that raises ends its task alone: the parser stays as it is.      *)
(*                                                                         *)
(* odd names what is unusual about the frames or the way they come:        *)
(*   "cut"      a segment holds part of a frame, or more than one          *)
(*   "unmasked" frames without a mask, as send writes them                 *)
(*   "long"     a payload of 126 bytes or more, below 65536                *)
(*   "control"  pings, or frames of an opcode without a handler            *)
(***************************************************************************)
EXTENDS Integers, SequencesExt, Bitwise

CONSTANTS
    None,
    Peers           \* [odd, sent]: messages [opcode, payload, mask], mask <<>> for none

VARIABLES
    odd,
    sent,
    wire,           \* the frames still to arrive, as bytes
    tasks,          \* the segments whose feed has not run yet
    parser,         \* FrameParser's data, status, opcode, masked, mask, payload_length
    got             \* history: the messages the opcode handlers were given

frameVars == <<odd, sent, wire, tasks, parser, got>>

Text == 1  Binary == 2  Close == 8  Ping == 9

-----------------------------------------------------------------------------
(* create_single_frame.                                                    *)

Masked(payload, mask) ==
    [i \in DOMAIN payload |-> payload[i] ^^ mask[((i - 1) % 4) + 1]]

\* The length in the second byte, or in two that follow it.
LengthHeader(n, bit) == IF n < 126 THEN <<bit + n>> ELSE <<bit + 126, n \div 256, n % 256>>

Frame(m) ==
    <<128 + m.opcode>>
    \o (IF m.mask = <<>>
        THEN LengthHeader(Len(m.payload), 0) \o m.payload
        ELSE LengthHeader(Len(m.payload), 128) \o m.mask \o Masked(m.payload, m.mask))

-----------------------------------------------------------------------------
(* FrameParser.feed: the stages of one feed, in their order.  size is the  *)
(* length of the data when the feed began, which no stage renews.          *)

\* FrameParser.__init__ and clear: what clear leaves is the rest of the data.
Cleared(data) ==
    [data |-> data, status |-> "first", opcode |-> None, masked |-> None,
     mask |-> None, length |-> None, raised |-> FALSE]

Raised(p) == [p EXCEPT !.raised = TRUE]
UpTo(p, n) == SubSeq(p.data, 1, Min({n, Len(p.data)}))
Past(p, n) == SubSeq(p.data, n + 1, Len(p.data))
AfterLength(masked) == IF masked THEN "mask" ELSE "payload"

\* The first two bytes are read from the segment, not from the data.
FirstTwoBytes(p, segment, size) ==
    IF p.status # "first" \/ size < 2 THEN p
    ELSE IF Len(segment) < 2 THEN Raised(p)
    ELSE LET masked == segment[2] >= 128
             length == segment[2] % 128
         IN [p EXCEPT !.data = Past(p, 2), !.opcode = segment[1] % 16,
                      !.masked = masked, !.length = length,
                      !.status = CASE length = 126 -> "126" [] length = 127 -> "127"
                                   [] OTHER -> AfterLength(masked)]

\* struct.unpack returns a tuple, here None: no number compares with it.
LongLength(p, status, n, size) ==
    IF p.raised \/ p.status # status \/ size < n THEN p
    ELSE IF Len(p.data) < n THEN Raised(p)
    ELSE [p EXCEPT !.data = Past(p, n), !.length = None, !.status = AfterLength(p.masked)]

\* The mask is what there is of it.
Mask(p) ==
    IF p.raised \/ p.status # "mask" THEN p
    ELSE [p EXCEPT !.mask = UpTo(p, 4), !.data = Past(p, 4), !.status = "payload"]

Payload(p) == UpTo(p, p.length)

\* Each byte needs its byte of the mask.
CanDecode(p) ==
    LET n == Len(Payload(p))
    IN n = 0 \/ (p.mask # None /\ Len(p.mask) >= Min({n, 4}))

Decoded(p) == Masked(Payload(p), p.mask)

\* Only these handlers return: that of pings calls a method its protocol does
\* not have, and other opcodes have none.
Handled == {Text, Binary, Close}

IsComplete(p, size) ==
    /\ ~p.raised /\ p.status = "payload"
    /\ p.length = None \/ size >= p.length

\* Mutant of Finished: the parser goes on as if in the payload.
NotCleared(p) == [p EXCEPT !.data = Past(p, p.length)]

\* The payload is taken from the data; then the handler, then clear.
Finished(p) ==
    IF p.length = None \/ ~CanDecode(p) THEN Raised(p)
    ELSE IF p.opcode \in Handled THEN Cleared(Past(p, p.length))
    ELSE Raised([p EXCEPT !.data = Past(p, p.length)])

\* A task runs: the whole feed of its segment.
Feed ==
    /\ tasks # <<>>
    /\ LET segment == Head(tasks)
           p == [parser EXCEPT !.data = @ \o segment, !.raised = FALSE]
           size == Len(p.data)
           header == Mask(LongLength(LongLength(FirstTwoBytes(p, segment, size), "126", 2, size),
                                     "127", 8, size))
           end == IF IsComplete(header, size) THEN Finished(header) ELSE header
       IN /\ parser' = end
          /\ got' = IF IsComplete(header, size) /\ header.length # None /\ CanDecode(header)
                       /\ header.opcode \in Handled
                    THEN Append(got, [opcode |-> header.opcode, payload |-> Decoded(header)])
                    ELSE got
    /\ tasks' = Tail(tasks)
    /\ UNCHANGED wire

-----------------------------------------------------------------------------
Frames == FlattenSeq([i \in DOMAIN sent |-> Frame(sent[i])])

\* WebsocketConnection.data_received: n bytes are a task.
Receive(n) ==
    LET after == Len(Frames) - Len(wire)
        ends == {Len(FlattenSeq([i \in 1..k |-> Frame(sent[i])])) : k \in 0..Len(sent)}
    IN /\ "cut" \notin odd => \E e \in ends : after + n = e /\ \A f \in ends : f <= after \/ f >= e
       /\ tasks' = Append(tasks, SubSeq(wire, 1, n))
       /\ wire' = SubSeq(wire, n + 1, Len(wire))
       /\ UNCHANGED <<parser, got>>

NewParser == tasks = <<>> /\ parser = Cleared(<<>>) /\ got = <<>>

Init ==
    /\ \E p \in Peers : /\ odd = p.odd /\ sent = p.sent
                       /\ wire = FlattenSeq([i \in DOMAIN p.sent |-> Frame(p.sent[i])])
    /\ NewParser

Next ==
    /\ Feed \/ \E n \in DOMAIN wire : Receive(n)
    /\ UNCHANGED <<odd, sent>>

Spec == Init /\ [][Next]_frameVars

-----------------------------------------------------------------------------
Bytes == 0..255
FrameType ==
    /\ odd \subseteq {"cut", "unmasked", "long", "control"}
    /\ wire \in Seq(Bytes) /\ tasks \in Seq(Seq(Bytes))
    /\ parser.data \in Seq(Bytes)
    /\ parser.status \in {"first", "126", "127", "mask", "payload"}
    /\ parser.opcode \in (0..15) \cup {None} /\ parser.masked \in BOOLEAN \cup {None}
    /\ parser.mask = None \/ (parser.mask \in Seq(Bytes) /\ Len(parser.mask) <= 4)
    /\ parser.length \in (0..125) \cup {None} /\ parser.raised \in BOOLEAN
    /\ got \in Seq([opcode : Handled, payload : Seq(Bytes)])

\* The handlers are given the messages that were sent, in order, and all of
\* them when all has arrived, though one parser works for many tasks.
FramesAreAsSent ==
    odd = {} =>
        /\ Len(got) <= Len(sent)
        /\ \A i \in DOMAIN got : got[i].opcode = sent[i].opcode /\ got[i].payload = sent[i].payload
        /\ wire = <<>> /\ tasks = <<>> => Len(got) = Len(sent)
=============================================================================
