----------------------------- MODULE Multipart ------------------------------
(***************************************************************************)
(* A form from the client that encodes it (MultipartEncoder and FileUpload *)
(* of multipart/containers.py) to the handler that reads it: the feeds of  *)
(* MultipartParser and the buffers of multipart/parser.pyx, called for     *)
(* each chunk of the body by Request._load_form.                           *)
(*                                                                         *)
(* A form is a sequence of fields [name, kind, content, pieces].  kind is  *)
(* "text", "file" or "iterable": the value, a file that is read, or an     *)
(* iterable that yields the content in pieces.  Symbols are characters,    *)
(* "r" and "n" those of a line end; the text between a boundary and the    *)
(* empty line is one symbol, of which Disposition tells what it says.      *)
(*                                                                         *)
(* odd names what is unusual about a form or the way it comes:             *)
(*   "sliced"   a chunk ends one character before the end of a boundary,   *)
(*              behind content long enough to be flushed                   *)
(*   "long"     content beyond what a SmartFile keeps in memory            *)
(*   "iterable" the content of a file comes from an iterable               *)
(*   "twice"    two fields have the same name                              *)
(*   "nameless" a part has no name                                         *)
(***************************************************************************)
EXTENDS Integers, SequencesExt

CONSTANTS
    None,
    Forms,          \* [peer, odd, fields]: who sends what
    Delimiter,      \* the boundary the peer chose
    Disposition,    \* [name, filename] of each symbol that stands for headers
    HeaderOf(_),    \* and the symbol for a field's
    ChunkSize,      \* MultipartEncoder: chunk_size
    FlushFactor,    \* 40 in feed
    InMemoryLimit   \* SmartFile: in_memory_limit

VARIABLES
    peer,           \* "encoder", the class of this program, or "browser"
    odd,
    fields,         \* what the user of the peer sent
    wire,           \* the body still to arrive
    data,           \* MultipartParser.data
    fed,            \* the chunk is not worked off yet
    status,
    buffer,         \* current_buffer: the name whose SmartFile it is
    values,         \* values, with the content of their SmartFiles
    failed          \* feed raised

parsing == <<data, fed, status, buffer, values, failed>>
formVars == <<peer, odd, fields, wire, parsing>>

-----------------------------------------------------------------------------
(* The encoder.                                                            *)

CRLF == <<"r", "n">>
Start == <<"-", "-">> \o Delimiter

\* BufferedIterable.read(ChunkSize), called until the buffer that holds n has
\* less: every call returns one character more than it was asked for.
BufferedRead(n) ==
    LET left[k \in 0..n] ==
            IF k < ChunkSize THEN k ELSE IF k = ChunkSize THEN 0 ELSE left[k - ChunkSize - 1]
    IN left[n]

\* What stays in the buffer when the iterable ends, in the middle of a read
\* that wanted more: it is never sent.
Unsent(pieces) ==
    FoldLeft(LAMBDA n, piece : BufferedRead(n + Len(piece)), 0, pieces)

StreamValue(f) ==
    IF f.kind = "iterable"
    THEN LET whole == FlattenSeq(f.pieces) IN SubSeq(whole, 1, Len(whole) - Unsent(f.pieces))
    ELSE f.content

\* create_headers.
Filename(f) == IF f.kind = "text" THEN None ELSE f.name

\* MultipartEncoder.__iter__; a browser ends with a line end.
Encoded(form, by) ==
    FlattenSeq([i \in DOMAIN form |->
        Start \o CRLF \o <<HeaderOf(form[i])>> \o CRLF \o CRLF \o StreamValue(form[i]) \o CRLF])
    \o Start \o <<"-", "-">> \o (IF by = "browser" THEN CRLF ELSE <<>>)

-----------------------------------------------------------------------------
(* MultipartParser.                                                        *)

BoundaryLength == Len(Start)
EndBoundary == Start \o <<"-", "-">> \o CRLF

\* bytearray.find: the index, from 0, or -1.
FindIn(s, t) ==
    LET at == {i \in 0..(Len(s) - Len(t)) : SubSeq(s, i + 1, i + Len(t)) = t}
    IN IF at = {} THEN -1 ELSE Min(at)

\* s[:n] and s[n:], where a negative n counts from the end.
UpTo(s, n) == SubSeq(s, 1, IF n < 0 THEN Len(s) + n ELSE n)
From(s, n) == SubSeq(s, n + 1, Len(s))

Working == fed /\ data # <<>> /\ data # EndBoundary
Fail(e) == failed' = e /\ fed' = FALSE /\ UNCHANGED <<data, status, buffer, values>>

\* SmartFile.write.  Beyond the limit a DiskFile is made, whose __init__ sets
\* attributes its class does not have.
CanWrite(s) == buffer # None /\ Len(values[buffer].content) + Len(s) <= InMemoryLimit
Write(s) == values' = [values EXCEPT ![buffer].content = @ \o s]

\* The chunk is worked off when nothing is left, or only the last boundary.
EndOfChunk ==
    /\ fed /\ (data = <<>> \/ data = EndBoundary)
    /\ fed' = FALSE
    /\ UNCHANGED <<data, status, buffer, values, failed>>

\* What is missing comes with a later chunk.
Wait ==
    /\ Working
    /\ \/ status = "boundary" /\ Len(data) < BoundaryLength
       \/ status = "headers" /\ FindIn(data, CRLF \o CRLF) = -1
       \/ /\ status = "buffer" /\ FindIn(data, Start) = -1
          /\ Len(data) < BoundaryLength * FlushFactor
    /\ fed' = FALSE
    /\ UNCHANGED <<data, status, buffer, values, failed>>

FindBoundary ==
    /\ Working /\ status = "boundary" /\ Len(data) >= BoundaryLength
    /\ LET pos == FindIn(data, Start)
       IN IF pos = -1 THEN Fail("ValueError")
          ELSE /\ data' = From(data, pos + BoundaryLength) /\ status' = "headers"
               /\ UNCHANGED <<fed, buffer, values, failed>>

\* parse_header, with clean_value: the name and filename that are given.
Part(text) == Disposition[text]

\* A part without a name leaves the buffer as it is.
ParseHeader ==
    /\ Working /\ status = "headers"
    /\ LET pos == FindIn(data, CRLF \o CRLF)
           part == Part(data[pos])
       IN /\ pos # -1
          /\ data' = From(data, pos + 4) /\ status' = "buffer"
          /\ IF part.name = None THEN UNCHANGED <<buffer, values>>
             ELSE /\ buffer' = part.name
                  /\ values' = part.name :> [filename |-> part.filename, content |-> <<>>] @@ values
    /\ UNCHANGED <<fed, failed>>

\* The boundary is in sight: the part ends with the line end before it.
EndPart ==
    /\ Working /\ status = "buffer"
    /\ LET pos == FindIn(data, Start)
           rest == UpTo(data, pos - 2)
       IN /\ pos # -1
          /\ IF ~CanWrite(rest) THEN Fail("AttributeError")
             ELSE /\ Write(rest) /\ data' = From(data, pos)
                  /\ buffer' = None /\ status' = "boundary"
                  /\ UNCHANGED <<fed, failed>>

\* Mutant of Kept: half a boundary, which may be the whole line end and more.
KeptHalf == BoundaryLength \div 2

\* What Flush keeps: the comment there says that the boundary may be sliced.
Kept == BoundaryLength

Flush ==
    /\ Working /\ status = "buffer"
    /\ FindIn(data, Start) = -1 /\ Len(data) >= BoundaryLength * FlushFactor
    /\ LET ready == UpTo(data, Len(data) - Kept)
       IN IF ~CanWrite(ready) THEN Fail("AttributeError")
          ELSE /\ Write(ready) /\ data' = From(data, Len(data) - Kept)
               /\ fed' = FALSE
               /\ UNCHANGED <<status, buffer, failed>>

\* SmartFile.consume makes a MemoryFile of a part with a filename, and text of
\* another; Request.files picks the former.
IsFile(part) == part.filename # None
Files == {n \in DOMAIN values : IsFile(values[n])}

Feed == EndOfChunk \/ Wait \/ FindBoundary \/ ParseHeader \/ EndPart \/ Flush

-----------------------------------------------------------------------------
\* The next n symbols arrive as one chunk of the body.
Slices(n) ==
    LET body == Encoded(fields, peer)
        at == Len(body) - Len(wire) + n + 1
    IN /\ at \in BoundaryLength..Len(body) /\ SubSeq(body, at - BoundaryLength + 1, at) = Start
       /\ Len(data) + n >= BoundaryLength * FlushFactor

Receive(n) ==
    /\ ~fed /\ failed = None
    /\ "sliced" \in odd \/ ~Slices(n)
    /\ data' = data \o SubSeq(wire, 1, n) /\ wire' = From(wire, n)
    /\ fed' = TRUE
    /\ UNCHANGED <<status, buffer, values, failed>>

\* MultipartParser.__init__.
NewParser ==
    /\ data = <<>> /\ fed = FALSE /\ status = "boundary" /\ buffer = None
    /\ values = <<>> /\ failed = None

Init ==
    /\ \E f \in Forms : /\ peer = f.peer /\ odd = f.odd /\ fields = f.fields
                       /\ wire = Encoded(f.fields, f.peer)
    /\ NewParser

Next ==
    /\ \/ \E n \in DOMAIN wire : Receive(n)
       \/ Feed /\ UNCHANGED wire
    /\ UNCHANGED <<peer, odd, fields>>

Spec == Init /\ [][Next]_formVars

-----------------------------------------------------------------------------
FormType ==
    /\ peer \in {"encoder", "browser"}
    /\ odd \subseteq {"sliced", "long", "iterable", "twice", "nameless"}
    /\ wire \in Seq(STRING) /\ data \in Seq(STRING) /\ fed \in BOOLEAN
    /\ status \in {"boundary", "headers", "buffer"}
    /\ buffer \in DOMAIN values \cup {None}
    /\ \A n \in DOMAIN values : values[n].content \in Seq(STRING)
    /\ failed \in {None, "ValueError", "AttributeError"}

Sent(n) == fields[CHOOSE i \in DOMAIN fields : fields[i].name = n]

\* What consume, form() and files() make of the form, compared with it.
AsSent ==
    /\ failed = None
    /\ \A n \in DOMAIN values :
          /\ IsPrefix(values[n].content, Sent(n).content)
          /\ values[n].filename = Filename(Sent(n))
    /\ wire = <<>> /\ ~fed =>
          /\ \A i \in DOMAIN fields : fields[i].name \in DOMAIN values
          /\ \A n \in DOMAIN values : values[n].content = Sent(n).content
          /\ Files = {n \in DOMAIN values : Sent(n).kind # "text"}

\* However the body is cut into chunks, the handler is given what was sent,
\* content of any length, and at no time more of it.
FormIsWhatWasSent == odd = {} => AsSent

\* "We cannot flush the entire stream because maybe the boundary is sliced
\* between two chunks" (feed): the boundary may be sliced anywhere.
BoundariesMayBeSliced == odd \subseteq {"sliced"} => AsSent
=============================================================================
