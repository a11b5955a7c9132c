-------------------------------- MODULE HttpParser --------------------------------
(***************************************************************************)
(* HttpRequestParser and HttpResponseParser (http/httpParser.cpp): what    *)
(* the callbacks of llhttp put together into a message, over the reads of  *)
(* recvRequest and recvResponse, each of which hands its bytes to Execute. *)
(*                                                                         *)
(* llhttp is external.  It reports the bytes of a part of the message, a   *)
(* span, in one callback for each Execute that sees some of them, and once *)
(* more with none when the part ends just where an Execute begins.         *)
(*                                                                         *)
(* "start" is the method of a request or the version of a response: both   *)
(* are collected by append and have to be known when they are complete.    *)
(***************************************************************************)
EXTENDS Integers, Sequences, SequencesExt

CONSTANTS
    Chars,       \* what a text is made of
    Streams,     \* what may come
    ValidStarts, \* "GET", ..., and "1.0", "1.1"
    MaxName      \* the 8192 of _on_header_field

\* llhttp reports no empty method, version or name.
Texts == Seq(Chars)
Messages == [start : Texts \ {<<>>}, headers : Seq([name : Texts \ {<<>>}, value : Texts]),
             body : Texts]

\* What follows a method or version makes it another that is not known.
ParserAssumption ==
    /\ Streams \subseteq [kind : {"request", "response"}, messages : Seq(Messages) \ {<<>>}]
    /\ ValidStarts \subseteq Texts
    /\ \A start, longer \in ValidStarts : IsPrefix(start, longer) => start = longer
    /\ MaxName \in Nat

VARIABLES
    stream,
    bytes,       \* of its messages
    received,    \* the bytes that have come
    parsed,      \* the bytes llhttp is through with
    piece,       \* where the bytes of the last read begin
    curr,        \* m_curr_method or m_curr_version, m_curr_headerfield, ...
    headers,     \* of m_data
    body,
    m_isFinish,
    error,       \* llhttp's error is not HPE_OK
    outcome,     \* what recvRequest or recvResponse has returned
    nameCut      \* history: a read ended in, or just after, the name of a header

vars == <<stream, bytes, received, parsed, piece, curr, headers, body, m_isFinish, error, outcome,
          nameCut>>

NoText == [start |-> <<>>, field |-> <<>>, value |-> <<>>, body |-> <<>>]

TypeOK ==
    /\ stream \in Streams
    /\ parsed \in 0 .. received /\ piece \in 0 .. received
    /\ DOMAIN curr = DOMAIN NoText
    /\ m_isFinish \in BOOLEAN /\ error \in BOOLEAN /\ nameCut \in BOOLEAN
    /\ outcome \in {"none", "OK", "CLOSE", "ERROR"}

-----------------------------------------------------------------------------
(* The bytes of a message *)

Spell(part, text) == [i \in DOMAIN text |-> [part |-> part, char |-> text[i]]]
End(part) == <<[part |-> part, char |-> ""]>>

Written(msg) ==
    LET header(h) ==
            Spell("field", h.name) \o End("fieldEnd") \o Spell("value", h.value) \o End("valueEnd")
    IN  Spell("start", msg.start) \o End("startEnd")
        \o FlattenSeq([i \in DOMAIN msg.headers |-> header(msg.headers[i])])
        \o End("headersEnd") \o Spell("body", msg.body) \o End("messageEnd")

Part(i) == bytes[i].part
Text(i, j) == [n \in 1 .. j - i + 1 |-> bytes[i + n - 1].char]

Init ==
    /\ stream \in Streams
    /\ bytes = FlattenSeq([i \in DOMAIN stream.messages |-> Written(stream.messages[i])])
    /\ received = 0 /\ parsed = 0 /\ piece = 0
    /\ curr = NoText
    /\ headers = <<>> /\ body = <<>>
    /\ m_isFinish = FALSE /\ error = FALSE
    /\ outcome = "none"
    /\ nameCut = FALSE

-----------------------------------------------------------------------------
(* The callbacks *)

Running == parsed < received /\ ~error /\ outcome = "none"

\* llhttp reports a span: all the bytes of part that have come.
Span(part, text) ==
    /\ Running /\ Part(parsed + 1) = part
    /\ \E j \in parsed + 1 .. received :
        /\ \A i \in parsed + 1 .. j : Part(i) = part
        /\ j < received => Part(j + 1) # part
        /\ text = Text(parsed + 1, j)
        /\ parsed' = j
    /\ UNCHANGED <<stream, bytes, received, piece, body, m_isFinish, outcome, nameCut>>

\* ... and the end of a part.
Ended(part) ==
    /\ Running /\ Part(parsed + 1) = part
    /\ parsed' = parsed + 1
    /\ UNCHANGED <<stream, bytes, received, piece, outcome, nameCut>>

setHeader(name, value) ==
    headers' = [n \in DOMAIN headers \cup {name} |-> IF n = name THEN value ELSE headers[n]]

\* Mutant: a second span replaces the first.
Collect_Replaces(part, text) ==
    /\ Span(part, text)
    /\ curr' = [curr EXCEPT ![part] = text]
    /\ UNCHANGED <<headers, error>>

\* _on_Method, _on_Version, _on_header_value, _on_body
Collect(part, text) ==
    /\ Span(part, text)
    /\ curr' = [curr EXCEPT ![part] = @ \o text]
    /\ UNCHANGED <<headers, error>>

\* _on_Method_complate, _on_Version_complate
StartEnd ==
    /\ Ended("startEnd")
    /\ error' = (curr.start \notin ValidStarts)
    /\ UNCHANGED <<curr, headers, body, m_isFinish>>

\* The body of _on_header_field: the name is taken as a whole, and the header
\* before it is stored now that its value is complete, but not an empty one.
FieldName(text) ==
    IF Len(curr.field) + Len(text) > MaxName
    THEN /\ error' = TRUE
         /\ UNCHANGED <<curr, headers>>
    ELSE /\ IF curr.field # <<>> /\ curr.value # <<>>
            THEN setHeader(curr.field, curr.value)
            ELSE UNCHANGED headers
         /\ curr' = [curr EXCEPT !.field = text, !.value = <<>>]
         /\ UNCHANGED error

_on_header_field(text) == Span("field", text) /\ FieldName(text)

\* The name was complete when the last read ended: llhttp ends its span here,
\* with a callback for no bytes.
FieldEnd ==
    /\ Ended("fieldEnd")
    /\ IF parsed = piece THEN FieldName(<<>>) ELSE UNCHANGED <<curr, headers, error>>
    /\ UNCHANGED <<body, m_isFinish>>

ValueEnd ==
    /\ Ended("valueEnd")
    /\ UNCHANGED <<curr, headers, body, m_isFinish, error>>

\* The last header, which no other follows, is stored whatever its value.
_on_Header_complate ==
    /\ Ended("headersEnd")
    /\ IF curr.field # <<>> THEN setHeader(curr.field, curr.value) ELSE UNCHANGED headers
    /\ UNCHANGED <<curr, body, m_isFinish, error>>

\* With the callback of recvRequest and recvResponse; only the response parser
\* forgets the body, and neither forgets anything else.
_on_Message_complate ==
    /\ Ended("messageEnd")
    /\ body' = curr.body
    /\ curr' = IF stream.kind = "response" THEN [curr EXCEPT !.body = <<>>] ELSE curr
    /\ m_isFinish' = TRUE
    /\ UNCHANGED <<headers, error>>

-----------------------------------------------------------------------------
(* recvRequest and recvResponse *)

\* Execute is through with what the last read brought.
Executed == outcome = "none" /\ (parsed = received \/ error)

\* A read of some bytes; the end of a message is its last byte.
Read(n) ==
    /\ Executed /\ ~error /\ ~m_isFinish
    /\ received + n <= Len(bytes)
    /\ received + n < Len(bytes) => Part(received + n + 1) # "messageEnd"
    /\ received' = received + n
    /\ piece' = received
    /\ nameCut' = (nameCut \/ (received > 0 /\ Part(received) = "field"))
    /\ UNCHANGED <<stream, bytes, parsed, curr, headers, body, m_isFinish, error, outcome>>

Returns(status) ==
    /\ outcome' = status
    /\ UNCHANGED <<stream, bytes, received, parsed, piece, curr, headers, body, m_isFinish, error,
                   nameCut>>

\* A request is refused when there was an error after it; a response is taken.
Judge ==
    /\ Executed
    /\ \/ m_isFinish /\ (stream.kind = "response" \/ ~error) /\ Returns("OK")
       \/ error /\ (stream.kind = "request" \/ ~m_isFinish) /\ Returns("ERROR")

\* The peer has closed; Finalize completes no message whose length is known.
Closed == Executed /\ ~error /\ ~m_isFinish /\ Returns("CLOSE")

-----------------------------------------------------------------------------
(* Specification *)

Spans == {Text(i, j) : i, j \in parsed + 1 .. received}

Execute ==
    \/ \E text \in Spans :
        _on_header_field(text) \/ \E part \in {"start", "value", "body"} : Collect(part, text)
    \/ StartEnd \/ FieldEnd \/ ValueEnd \/ _on_Header_complate \/ _on_Message_complate

Next == Execute \/ Judge \/ Closed \/ \E n \in 1 .. Len(bytes) : Read(n)

Spec == Init /\ [][Next]_vars

-----------------------------------------------------------------------------
(* Properties *)

First == stream.messages[1]

\* The headers of the message: those with a value, and the last; of two with the
\* same name the later.
HeadersOf(msg) ==
    LET kept == {i \in DOMAIN msg.headers :
                    msg.headers[i].value # <<>> \/ i = Len(msg.headers)}
        last(name) == Max({i \in kept : msg.headers[i].name = name})
    IN  [name \in {msg.headers[i].name : i \in kept} |-> msg.headers[last(name)].value]

\* Neither its method or version nor a name, with the one before it, is refused.
Acceptable ==
    /\ First.start \in ValidStarts
    /\ \A i \in DOMAIN First.headers :
        Len(First.headers[i].name) + (IF i > 1 THEN Len(First.headers[i - 1].name) ELSE 0)
            <= MaxName

\* What is taken for a message is the first message that was sent, however its
\* bytes were cut into reads (httpParser.cpp:446-602, 781-900): llhttp cuts a
\* span where a read ends.  Only a cut name is not put together again.  And a
\* message is refused only if it is not acceptable, or, for a request, if the
\* bytes of another have come with it (httpsession.cpp:45-62).
MessageWhole ==
    /\ outcome = "OK" /\ ~nameCut =>
        /\ Acceptable
        /\ headers = HeadersOf(First)
        /\ body = First.body
    /\ outcome = "ERROR" =>
        ~Acceptable \/ (stream.kind = "request" /\ received > Len(Written(First)))
=============================================================================
