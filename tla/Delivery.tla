------------------------------ MODULE Delivery ------------------------------
(***************************************************************************)
(* The way of one artifact from the program that binds it to the one that  *)
(* reads it, byte by byte: a key is written by `vi keygen` and read by     *)
(* `vi verify`; a receipt is a part of a provider's answer to `vi chat`,   *)
(* is cut out of it, saved, and read by `vi verify`; an audit opening is   *)
(* the body of an answer to `vi verify` itself.  On its way it can be      *)
(* changed or cut, the provider can answer anything, and the encoder need  *)
(* not be this one.                                                        *)
(*                                                                         *)
(* Composes the codec (Envelope) with the client (Multipart).  A run takes *)
(* one artifact and one operation, chosen in Init.                         *)
(***************************************************************************)
EXTENDS Envelope, Multipart

CONSTANTS
    Artifact,      \* what is bound: [magic, header, opaque]
    Boundary,      \* the boundary the provider picks, <<>> excepted
    FlipValue,     \* the values a damaged byte can get
    MaxFaults      \* how many things go wrong in a run

ASSUME DeliveryConstants ==
    /\ \A a \in Artifact :
          /\ a.magic \in Magic
          /\ a.header = [name \in Range(Written[a.magic]) |-> a.header[name]]
          /\ \A name \in DOMAIN a.header : a.header[name] \in FieldType(name)
          /\ a.opaque \in Seq(Byte)
    /\ FlipValue \subseteq Byte
    /\ MaxFaults \in Nat

VARIABLES
    op,        \* "keygen", "chat", "chat --no-receipt", "audit" or "healthz"
    artifact,  \* what the producer binds
    sent,      \* the bytes it makes of it
    own,       \* whether the encoder of vi-receipt made them
    answer,    \* what the provider answers, or NoAnswer
    honest,    \* whether that is a good answer, whole
    file,      \* the bytes at the reader: in a file, or the body of the audit answer
    cut,       \* whether the file was cut
    flips,     \* how many of its bytes were changed since it was saved
    text,      \* the text `vi chat` shows, 0 if none
    decoded,   \* what the reader made of the file
    outcome,   \* "none" until the run is over, then "ok" or an error category
    pc

vars == <<op, artifact, sent, own, answer, honest, file, cut, flips, text, decoded, outcome, pc>>

damage == <<cut, flips>>

\* What departs from the plain way: a foreign encoder, an answer that is not a
\* good one, a file that was cut, a byte that was changed.
One(b) == IF b THEN 1 ELSE 0
Faults == One(~own) + One(~honest) + One(cut) + flips
MayFail == Faults < MaxFaults

NoAnswer == [status |-> 0]

\* The operation ends with an error or, for some, without one.
Ends(category) == outcome' = category /\ pc' = "done"

-----------------------------------------------------------------------------
\* The producer.

\* Bodies another encoder could make of the same header: one byte is another,
\* the last ones are missing, or there is one more.
ForeignBodies(body) ==
    {[body EXCEPT ![i] = v] : i \in DOMAIN body, v \in FlipValue}
        \cup {SubSeq(body, 1, n) : n \in 0..(Len(body) - 1)}
        \cup {Append(body, v) : v \in FlipValue}

\* The files that can be made of an artifact.
Files(a) ==
    LET body == Body(a.magic, a.header) IN
    {Enveloped(a.magic, Sealed(b) \o a.opaque) : b \in {body} \cup ForeignBodies(body)}

\* The values a damaged byte of an answer can get: those of line ends and dashes, and
\* another one.
Damage == {0, 10, 13, 45}

\* A provider picks a boundary that does not occur in what it sends, and that is made
\* of other bytes than the line ends and dashes of a message.
ASSUME BoundaryIsFresh ==
    /\ Boundary \in Seq(Byte \ Damage) /\ Boundary # <<>>
    /\ \A a \in Artifact : EncodeResult(a.header) = "ok" =>
          \A bytes \in Files(a) : FindSubslice(bytes, Boundary) = NotFound

Encode ==
    /\ pc = "encode"
    /\ LET a == artifact
           body == Body(a.magic, a.header)
       IN
       IF EncodeResult(a.header) # "ok"
       THEN Ends(EncodeResult(a.header)) /\ UNCHANGED <<sent, own, file>>
       ELSE /\ \/ sent' = EncodeFile(a.magic, a.header, a.opaque) /\ own' = TRUE
               \/ \E b \in ForeignBodies(body) :
                     MayFail /\ sent' = Enveloped(a.magic, Sealed(b) \o a.opaque) /\ own' = FALSE
            /\ file' = IF op = "keygen" THEN sent' ELSE file
            /\ pc' = IF op = "keygen" THEN "file" ELSE "request"
            /\ UNCHANGED outcome
    /\ UNCHANGED <<op, artifact, answer, honest, damage, text, decoded>>

-----------------------------------------------------------------------------
\* The provider.  What it answers is not in src/, except for the body of an
\* honest answer, which the tests of vi-client build the same way.

PartBytes(p) == CRLF \o <<p.line>> \o CRLF \o CRLF \o p.body \o CRLF \o Dashes \o Boundary

MultipartBody(parts) ==
    Dashes \o Boundary
        \o FlattenSeq([i \in DOMAIN parts |-> PartBytes(parts[i])]) \o Dashes

Json(doc) == [line |-> JsonType, body |-> <<doc>>]

ReceiptPart(bytes) == [line |-> ReceiptType, body |-> bytes]

\* The parts of an answer that has what the client needs, in either order and
\* with others between them.
GoodParts(bytes) ==
    {<<Json(300), ReceiptPart(bytes)>>, <<ReceiptPart(bytes), Json(300)>>,
     <<[line |-> OtherHeader, body |-> <<>>], Json(300), ReceiptPart(bytes), Json(301)>>}

\* And of answers that lack something.
PoorParts(bytes) ==
    {<<>>, <<Json(300)>>, <<ReceiptPart(bytes)>>, <<Json(NotACompletion), ReceiptPart(bytes)>>,
     <<Json(300), [line |-> ReceiptTypeParams, body |-> bytes]>>}

Mixed(status, warning, body) ==
    [status |-> status, warning |-> warning, media |-> "multipart/mixed",
     boundary |-> Boundary, body |-> body]

Plain(status, warning, doc) ==
    [status |-> status, warning |-> warning, media |-> "application/json",
     boundary |-> <<>>, body |-> <<doc>>]

Unbounded(a) == [a EXCEPT !.boundary = <<>>]

GoodAnswers(bytes) == {Mixed(200, FALSE, MultipartBody(p)) : p \in GoodParts(bytes)}

\* A body that lost its end or has one byte changed.
Broken(body) ==
    {SubSeq(body, 1, n) : n \in 0..(Len(body) - 1)}
        \cup ({[body EXCEPT ![i] = v] : i \in DOMAIN body, v \in Damage} \ {body})

BrokenBodies(bytes) == Broken(MultipartBody(<<Json(300), ReceiptPart(bytes)>>))

PoorAnswers(bytes) == {Mixed(200, FALSE, MultipartBody(p)) : p \in PoorParts(bytes)}

BrokenAnswers(bytes) == {Mixed(200, FALSE, b) : b \in BrokenBodies(bytes)}

UnboundedAnswers(bytes) == {Unbounded(a) : a \in GoodAnswers(bytes)}

UnavailableAnswers(bytes) == {Mixed(503, w, MultipartBody(p)) : w \in BOOLEAN, p \in GoodParts(bytes)}

PlainAnswers == {Plain(s, w, d) : s \in {200, 429, 503}, w \in BOOLEAN, d \in {300, NotACompletion}}

OtherAnswers(bytes) ==
    PoorAnswers(bytes) \cup BrokenAnswers(bytes) \cup UnboundedAnswers(bytes)
        \cup UnavailableAnswers(bytes) \cup PlainAnswers

\* Health documents; the last one has the local pin.
HealthDocs == {304, 305, 306}
MissingField == 304
LocalPin == 306

Opening(status, bytes) == [Plain(status, FALSE, 0) EXCEPT !.body = bytes]

GoodAnswersTo(operation, bytes) ==
    CASE operation = "audit" -> {Opening(200, bytes)}
      [] operation = "healthz" -> {Plain(200, FALSE, LocalPin)}
      [] operation = "chat --no-receipt" -> {Plain(200, FALSE, 300)}
      [] OTHER -> GoodAnswers(bytes)

OtherAnswersTo(operation, bytes) ==
    CASE operation = "audit" -> {Opening(s, bytes) : s \in {404, 429}}
      [] operation = "healthz" -> {Plain(s, FALSE, d) : s \in {200, 503}, d \in {300, 304, 305}}
      [] OTHER -> OtherAnswers(bytes)

-----------------------------------------------------------------------------
\* The client.

\* ChatClient::new and the headers of the request: the endpoint is an https
\* URL, the trace id and the API key are header values.
Request ==
    /\ pc = "request"
    /\ \/ Ends("input")
       \/ pc' = "asked" /\ UNCHANGED outcome
    /\ UNCHANGED <<op, artifact, sent, own, answer, honest, file, damage, text, decoded>>

\* A transport error, before the answer or in its body.
NetworkFails ==
    /\ pc = "asked"
    /\ Ends("network")
    /\ UNCHANGED <<op, artifact, sent, own, answer, honest, file, damage, text, decoded>>

ProviderAnswers ==
    /\ pc = "asked"
    /\ \/ answer' \in GoodAnswersTo(op, sent) /\ honest' = TRUE
       \/ MayFail /\ answer' \in OtherAnswersTo(op, sent) /\ honest' = FALSE
    /\ pc' = "answered"
    /\ UNCHANGED <<op, artifact, sent, own, file, damage, text, decoded, outcome>>

IsSuccess(status) == status \in 200..299

\* Mutant: a warning is as good as a status.
ChatAnswerParsedAny(a) == ParseChatResponse([a EXCEPT !.warning = FALSE])

\* post_chat_completions, parse_chat_response and the demand of run_chat for a
\* receipt.
ChatAnswerParsed(a) ==
    LET parsed == ParseChatResponse(a) IN
    IF ~IsSuccess(a.status) /\ ~a.warning THEN Error("network")
    ELSE IF parsed.result = "ok" /\ parsed.receipt = <<>> THEN Error("receipt_missing")
    ELSE parsed

ReceiveChat ==
    /\ pc = "answered" /\ op = "chat"
    /\ \E parsed \in {ChatAnswerParsed(answer)} :
          \/ /\ parsed.result = "ok"
             /\ file' = parsed.receipt[1]
             /\ text' = parsed.text
             /\ pc' = "file"
             /\ UNCHANGED outcome
          \/ /\ parsed.result # "ok"
             /\ Ends(parsed.result)
             /\ UNCHANGED <<file, text>>
    /\ UNCHANGED <<op, artifact, sent, own, answer, honest, damage, decoded>>

\* run_chat with --no-receipt: post_chat_completions_without_receipt keeps the
\* exception for warnings.
ReceiveText ==
    /\ pc = "answered" /\ op = "chat --no-receipt"
    /\ LET parsed == ParseOpenAiChatResponse(answer) IN
       IF ~IsSuccess(answer.status) /\ ~answer.warning
       THEN Ends("network") /\ UNCHANGED text
       ELSE Ends(parsed.result) /\ text' = parsed.text
    /\ UNCHANGED <<op, artifact, sent, own, answer, honest, file, damage, decoded>>

\* post_audit
ReceiveAudit ==
    /\ pc = "answered" /\ op = "audit"
    /\ IF IsSuccess(answer.status)
       THEN file' = answer.body /\ pc' = "file" /\ UNCHANGED outcome
       ELSE Ends("network") /\ UNCHANGED file
    /\ UNCHANGED <<op, artifact, sent, own, answer, honest, damage, text, decoded>>

\* get_healthz and the comparison of pins, which only warns; the text is the
\* document with the warning.
ReceiveHealth ==
    /\ pc = "answered" /\ op = "healthz"
    /\ IF ~IsSuccess(answer.status) THEN Ends("network") /\ UNCHANGED text
       ELSE IF answer.body \notin {<<d>> : d \in HealthDocs \ {MissingField}}
            THEN Ends("corrupt_envelope") /\ UNCHANGED text
            ELSE /\ Ends("ok")
                 /\ text' = IF answer.body = <<LocalPin>> THEN 0 ELSE answer.body[1]
    /\ UNCHANGED <<op, artifact, sent, own, answer, honest, file, damage, decoded>>

-----------------------------------------------------------------------------
\* The file and its reader.

Flip(i, v) ==
    /\ pc = "file" /\ MayFail
    /\ i \in DOMAIN file /\ file[i] # v
    /\ file' = [file EXCEPT ![i] = v]
    /\ flips' = flips + 1
    /\ UNCHANGED <<op, artifact, sent, own, answer, honest, cut, text, decoded, outcome, pc>>

\* The writer was killed, or the disk is full.
Cut(n) ==
    /\ pc = "file" /\ MayFail /\ ~cut /\ flips = 0
    /\ n < Len(file)
    /\ file' = SubSeq(file, 1, n)
    /\ cut' = TRUE
    /\ UNCHANGED <<op, artifact, sent, own, answer, honest, flips, text, decoded, outcome, pc>>

Load ==
    /\ pc = "file"
    /\ decoded' = DecodeFile(artifact.magic, file)
    /\ Ends(decoded'.result)
    /\ UNCHANGED <<op, artifact, sent, own, answer, honest, file, damage, text>>

MagicOf(operation) ==
    CASE operation = "keygen" -> "VIKY" [] operation = "audit" -> "VIAU" [] OTHER -> "VIRC"

Init ==
    /\ op \in {"keygen", "chat", "chat --no-receipt", "audit", "healthz"}
    /\ artifact \in {a \in Artifact : a.magic = MagicOf(op)}
    /\ sent = <<>> /\ own = TRUE /\ answer = NoAnswer /\ honest = TRUE /\ file = <<>>
    /\ cut = FALSE /\ flips = 0 /\ text = 0
    /\ decoded = Refused("none")
    /\ outcome = "none"
    /\ pc = "encode"

Next ==
    \/ Encode
    \/ Request \/ NetworkFails \/ ProviderAnswers
    \/ ReceiveChat \/ ReceiveText \/ ReceiveAudit \/ ReceiveHealth
    \/ \E i \in DOMAIN file, v \in FlipValue : Flip(i, v)
    \/ \E n \in 0..Len(file) : Cut(n)
    \/ Load

Spec == Init /\ [][Next]_vars

-----------------------------------------------------------------------------
\* Properties.

Outcomes == {"none", "ok", "input", "network", "receipt_missing", "corrupt_envelope",
             "unknown_version", "unsupported_tier"}

\* The outcome is a documented category, there is one exactly when the run is
\* over, and it is the reader's as soon as there is a reader.  A header that was
\* read has every field of its kind, of its type and, for a tier, of its range.
TypeOK ==
    /\ pc \in {"encode", "request", "asked", "answered", "file", "done"}
    /\ outcome \in Outcomes
    /\ (outcome = "none") = (pc # "done")
    /\ own \in BOOLEAN /\ honest \in BOOLEAN /\ cut \in BOOLEAN
    /\ Faults \in 0..MaxFaults
    /\ decoded.result \in Outcomes
    /\ decoded.result # "none" => decoded.result = outcome
    /\ decoded.result = "ok" =>
          /\ DOMAIN decoded.header = Range(Written[artifact.magic])
          /\ \A name \in DOMAIN decoded.header :
                LET v == decoded.header[name] IN
                CASE name = "tier" -> v \in 0..3
                  [] name = "schema_version" -> v = SchemaVersion
                  [] Kind(name) = "u64" -> Len(v) = 8
                  [] Kind(name) = "u32s" -> \A i \in DOMAIN v : Len(v[i]) = 4
                  [] OTHER -> Utf8(v)

HeaderEnd == HeaderLen + PrefixLen + Len(Body(artifact.magic, artifact.header))

\* The bytes that end a part for parse_multipart.
HoldsMarker(bytes) == FindSubslice(bytes, CRLF \o Dashes) # NotFound

\* An artifact that nothing happened to is read as it was bound, field by
\* field, on each of the three ways and for every layout of the answer -- with
\* one exception: a receipt that holds CR LF - - is not read out of a multipart
\* answer, although the delimiter is longer, but it is refused, never cut short.
\* One that does not fit the format is not written at all.
DeliveredAsBound ==
    pc = "done" /\ Faults = 0 /\ op \in {"keygen", "chat", "audit"}
        /\ ~(answer = NoAnswer /\ op # "keygen" /\ outcome \in {"input", "network"}) =>
        IF EncodeResult(artifact.header) # "ok"
        THEN outcome = EncodeResult(artifact.header) /\ file = <<>>
        ELSE IF op = "chat" /\ HoldsMarker(sent)
        THEN outcome = "corrupt_envelope" /\ file = <<>>
        ELSE decoded = Decoded("ok", artifact.header, artifact.opaque)

\* No two files are read alike: whoever encoded the artifact and whatever
\* happened to it, what is decoded encodes to the very bytes that were read.
\* Hashes of the file and of what it says therefore bind the same thing.
Canonical ==
    decoded.result = "ok" =>
        file = EncodeFile(artifact.magic, decoded.header, decoded.opaque)

\* A single changed byte in front of the opaque part is refused, in the
\* category RFC-0009 gives for its place; one behind it is not seen by the
\* decoder and leaves the header alone.  A file that lost its end is refused
\* unless only opaque bytes are gone.
DamageIsRefused ==
    decoded.result # "none" /\ own /\ honest =>
        /\ cut /\ flips = 0 =>
              decoded.result = IF Len(file) < HeaderEnd THEN "corrupt_envelope" ELSE "ok"
        /\ ~cut /\ flips = 1 =>
              \E i \in DOMAIN sent :
                 /\ file[i] # sent[i]
                 /\ CASE i = 5 -> decoded.result = "unknown_version"
                      [] i # 5 /\ i <= HeaderEnd -> decoded.result = "corrupt_envelope"
                      [] i > HeaderEnd -> /\ decoded.result = "ok"
                                          /\ decoded.header = artifact.header

\* What `vi chat` saves is the receipt that was sent, whole: an answer that was
\* cut anywhere, or whose framing is damaged, gives no receipt at all, and one
\* changed byte inside the receipt stays one changed byte.
ReceiptAsSent ==
    op = "chat" /\ pc = "file" /\ ~cut /\ flips = 0 =>
        /\ Len(file) = Len(sent)
        /\ Cardinality({i \in DOMAIN sent : file[i] # sent[i]}) <= One(~honest)

\* Without --no-receipt, a degraded answer -- an error status or a warning 199
\* -- never gives a receipt, even if it carries one, and never success.
DegradedGivesNothing ==
    op = "chat" /\ answer # NoAnswer /\ (answer.warning \/ ~IsSuccess(answer.status)) =>
        /\ file = <<>>
        /\ text = 0
        /\ outcome \in {"none", "corrupt_envelope"}
              \cup (IF answer.warning THEN {"receipt_missing"} ELSE {"network"})
=============================================================================
