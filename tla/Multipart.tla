------------------------------ MODULE Multipart ------------------------------
(***************************************************************************)
(* What vi-client makes of the body of a chat answer: the multipart/mixed  *)
(* parser and the two readings of an answer, with and without a receipt.   *)
(*                                                                         *)
(* A body is a sequence of bytes, in which a whole header line and a whole *)
(* JSON document are one number above 255 each: no JSON text holds CR LF   *)
(* before --, so no delimiter begins inside a document.                    *)
(***************************************************************************)
EXTENDS Integers, Sequences, FiniteSetsExt

CRLF == <<13, 10>>
Dashes == <<45, 45>>

\* Header lines.
JsonType == 256         \* Content-Type: application/json, with or without parameters
ReceiptType == 257      \* Content-Type: application/vnd...receipt+binary
ReceiptTypeParams == 258 \* the same with a parameter
OtherHeader == 259
HeaderLine == 256..259

\* JSON documents: chat completions, and others.
Completion == 300..302
NotACompletion == 303

-----------------------------------------------------------------------------
\* The parser.  Offsets count from 0, as in the code.

\* body.get(from..from + n)
Get(body, from, n) ==
    IF from + n > Len(body) THEN <<>> ELSE SubSeq(body, from + 1, from + n)

NotFound == 0 - 1

FindSubslice(s, needle) ==
    LET at == {i \in 0..(Len(s) - Len(needle)) : Get(s, i, Len(needle)) = needle}
    IN IF at = {} THEN NotFound ELSE Min(at)

\* parse_part_headers: every line is a header.
HeadersAreLines(bytes) ==
    /\ Len(bytes) % 3 = 1
    /\ \A i \in DOMAIN bytes :
          IF i % 3 = 1 THEN bytes[i] \in HeaderLine ELSE bytes[i] = CRLF[((i + 1) % 3) + 1]

\* The first Content-Type of a part, 0 if it has none.
ContentType(bytes) ==
    LET types == {i \in DOMAIN bytes : bytes[i] \in HeaderLine \ {OtherHeader}}
    IN IF types = {} THEN 0 ELSE bytes[Min(types)]

\* Mutant: the marker that ends a part is taken for the delimiter, whatever
\* follows it.
IsBoundaryAny(bytes, boundary) == Len(bytes) = Len(boundary)

\* What follows the marker CR LF - - is the boundary of the message.
IsBoundary(bytes, boundary) == bytes = boundary

\* One turn of the loop of parse_multipart, from the offset after a delimiter.
ParsePart(body, boundary, start) ==
    LET tail == SubSeq(body, start + 1, Len(body))
        headerEnd == FindSubslice(tail, CRLF \o CRLF)
        headers == SubSeq(tail, 1, headerEnd)
        rest == SubSeq(tail, headerEnd + 5, Len(tail))
        marker == FindSubslice(rest, CRLF \o Dashes)
    IN
    IF \/ headerEnd = NotFound
       \/ ~HeadersAreLines(headers)
       \/ marker = NotFound
       \/ ~IsBoundary(Get(rest, marker + 4, Len(boundary)), boundary)
    THEN [result |-> "corrupt_envelope"]
    ELSE [result |-> "ok",
          part |-> [type |-> ContentType(headers), body |-> SubSeq(rest, 1, marker)],
          next |-> start + headerEnd + 4 + marker + 4 + Len(boundary)]

ParseMultipart(body, boundary) ==
    LET parts[cursor \in 0..Len(body)] ==
            IF Get(body, cursor, 2) = Dashes THEN [result |-> "ok", parts |-> <<>>]
            ELSE IF Get(body, cursor, 2) # CRLF THEN [result |-> "corrupt_envelope"]
            ELSE LET p == ParsePart(body, boundary, cursor + 2) IN
                 IF p.result # "ok" THEN p
                 ELSE IF parts[p.next].result # "ok" THEN parts[p.next]
                 ELSE [result |-> "ok", parts |-> <<p.part>> \o parts[p.next].parts]
    IN
    IF Get(body, 0, Len(boundary) + 2) # Dashes \o boundary
    THEN [result |-> "corrupt_envelope"]
    ELSE parts[Len(boundary) + 2]

-----------------------------------------------------------------------------
\* Answers: [status, warning, media, boundary, body], the boundary <<>> if the
\* header has none or an empty one.

\* What is made of an answer; no text is 0, no receipt is <<>>, a receipt <<r>>.
Parsed(result, text, receipt) == [result |-> result, text |-> text, receipt |-> receipt]

Error(category) == Parsed(category, 0, <<>>)

\* chat_text_from_json
ChatText(body, receipt) ==
    IF \E d \in Completion : body = <<d>> THEN Parsed("ok", body[1], receipt)
    ELSE Error("corrupt_envelope")

\* The body of the first part of a type, <<>> if there is none.
FirstOfType(parts, type) ==
    LET at == {i \in DOMAIN parts : parts[i].type = type}
    IN IF at = {} THEN <<>> ELSE <<parts[Min(at)].body>>

ParseMultipartAnswer(answer) ==
    LET m == ParseMultipart(answer.body, answer.boundary)
        json == FirstOfType(m.parts, JsonType)
        receipt == FirstOfType(m.parts, ReceiptType)
    IN
    IF answer.boundary = <<>> THEN Error("corrupt_envelope")
    ELSE IF m.result # "ok" THEN Error(m.result)
    ELSE IF json = <<>> THEN Error("corrupt_envelope")
    ELSE IF receipt = <<>> THEN Error("receipt_missing")
    ELSE ChatText(json[1], receipt)

\* parse_chat_response
ParseChatResponse(answer) ==
    IF answer.warning THEN ChatText(answer.body, <<>>)
    ELSE IF answer.media = "multipart/mixed" THEN ParseMultipartAnswer(answer)
    ELSE Error("receipt_missing")

\* parse_openai_chat_response
ParseOpenAiChatResponse(answer) == ChatText(answer.body, <<>>)
=============================================================================
