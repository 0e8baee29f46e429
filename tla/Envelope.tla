------------------------------ MODULE Envelope ------------------------------
(***************************************************************************)
(* The byte layout of vi-receipt: a VIKY, VIRC or VIAU file is             *)
(*                                                                         *)
(*   magic:4  ver:1  flags:1                                               *)
(*   body_len:u32  body_crc32c:u32  body   -- the binding header           *)
(*   opaque CommitLLM bytes to the end of the file                         *)
(*                                                                         *)
(* A file is a sequence of bytes and the decoder walks over it as the code *)
(* does.  Numbers nobody computes with (a u64, a layer index) are kept as  *)
(* their bytes.                                                            *)
(***************************************************************************)
EXTENDS Integers, Sequences, SequencesExt

Magic == {"VIKY", "VIRC", "VIAU"}

MagicBytes ==
    [VIKY |-> <<86, 73, 75, 89>>, VIRC |-> <<86, 73, 82, 67>>, VIAU |-> <<86, 73, 65, 85>>]

EnvelopeVersion == 1
EnvelopeFlags == 0
SchemaVersion == 1
HeaderLen == 6
PrefixLen == 8
MaxU16 == 65535

-----------------------------------------------------------------------------
\* Numbers and checksums.

U16(n) == <<n % 256, n \div 256>>

U32(n) == <<n % 256, (n \div 256) % 256, (n \div 65536) % 256, n \div 16777216>>

ReadU16(b) == b[1] + 256 * b[2]

\* Lengths of 2^24 and more are one number: no file is that long.
ReadU32(b) == IF b[4] # 0 THEN 16777216 ELSE b[1] + 256 * b[2] + 65536 * b[3]

Modulus == 8388593   \* a prime

\* A remainder that tells bodies apart as CRC-32C does: always if they differ
\* in one byte or in two adjacent ones, and in practice for any other damage.
Crc32c(body) ==
    LET c[i \in 0..Len(body)] ==
            IF i = 0 THEN 1 ELSE (c[i - 1] * 256 + body[i]) % Modulus
    IN U32(c[Len(body)])

\* Names are ASCII in the model, so a byte above 127 is not UTF-8.
Utf8(b) == \A i \in DOMAIN b : b[i] < 128

-----------------------------------------------------------------------------
\* Encoding.

Names == {"model_id", "checkpoint_hash", "commitllm_pin",
          "key_hash", "prompt_hash", "answer_hash", "receipt_hash"}

Kind(name) ==
    CASE name = "schema_version" -> "u16"
      [] name = "tier" -> "u8"
      [] name = "layer_indices" -> "u32s"
      [] name \in Names -> "string"
      [] OTHER -> "u64"     \* seed, generated_token_count, token_index

Byte == 0..255

\* The values a field can have in the program.
FieldType(name) ==
    CASE Kind(name) = "u16" -> 0..MaxU16
      [] Kind(name) = "u8" -> 0..3
      [] Kind(name) = "u64" -> [1..8 -> Byte]
      [] Kind(name) = "u32s" -> Seq([1..4 -> Byte])
      [] Kind(name) = "string" -> Seq(0..127)

\* The order in which the encoders write the fields of a binding header.
Written ==
    [VIKY |-> <<"schema_version", "seed", "model_id", "checkpoint_hash", "commitllm_pin">>,
     VIRC |-> <<"schema_version", "generated_token_count", "model_id", "checkpoint_hash",
                "commitllm_pin", "key_hash", "prompt_hash", "answer_hash">>,
     VIAU |-> <<"schema_version", "tier", "token_index", "layer_indices", "receipt_hash">>]

EncodeField(name, v) ==
    CASE Kind(name) = "u16" -> U16(v)
      [] Kind(name) = "u8" -> <<v>>
      [] Kind(name) = "u64" -> v
      [] Kind(name) = "u32s" -> U16(Len(v)) \o FlattenSeq(v)
      [] Kind(name) = "string" -> U16(Len(v)) \o v

\* A string or a list of layers longer than its u16 length prefix can say.
TooLong(h) ==
    \E name \in DOMAIN h : Kind(name) \in {"string", "u32s"} /\ Len(h[name]) > MaxU16

EncodeResult(h) ==
    IF h.schema_version # SchemaVersion THEN "unknown_version"
    ELSE IF TooLong(h) THEN "input"
    ELSE "ok"

Body(magic, h) ==
    FlattenSeq([i \in DOMAIN Written[magic] |-> EncodeField(Written[magic][i], h[Written[magic][i]])])

\* A body with its length and its checksum before it.
Sealed(body) == U32(Len(body)) \o Crc32c(body) \o body

Enveloped(magic, payload) == MagicBytes[magic] \o <<EnvelopeVersion, EnvelopeFlags>> \o payload

\* encode_*_payload, then Envelope::encode.
EncodeFile(magic, h, opaque) == Enveloped(magic, Sealed(Body(magic, h)) \o opaque)

-----------------------------------------------------------------------------
\* Decoding.

\* Mutant: the last two fields of a receipt are read in the wrong order.
ReadSwapped ==
    [Written EXCEPT !.VIRC = <<"schema_version", "generated_token_count", "model_id",
        "checkpoint_hash", "commitllm_pin", "key_hash", "answer_hash", "prompt_hash">>]

\* The order in which the decoders read them.
Read ==
    [VIKY |-> <<"schema_version", "seed", "model_id", "checkpoint_hash", "commitllm_pin">>,
     VIRC |-> <<"schema_version", "generated_token_count", "model_id", "checkpoint_hash",
                "commitllm_pin", "key_hash", "prompt_hash", "answer_hash">>,
     VIAU |-> <<"schema_version", "tier", "token_index", "layer_indices", "receipt_hash">>]

\* BindingReader: the offset it has reached, the fields read, the first error.
Reader(offset, fields, result) == [offset |-> offset, fields |-> fields, result |-> result]

Fails(r, category) == [r EXCEPT !.result = category]

With(fields, name, value) ==
    [f \in DOMAIN fields \cup {name} |-> IF f = name THEN value ELSE fields[f]]

\* The bytes the next field takes; more than there are if its length prefix is cut.
Width(kind, rest) ==
    CASE kind = "u8" -> 1
      [] kind = "u16" -> 2
      [] kind = "u64" -> 8
      [] kind \in {"string", "u32s"} ->
            IF Len(rest) < 2 THEN 2
            ELSE 2 + ReadU16(rest) * (IF kind = "string" THEN 1 ELSE 4)

FieldValue(kind, bytes) ==
    CASE kind = "u8" -> bytes[1]
      [] kind = "u16" -> ReadU16(bytes)
      [] kind = "u64" -> bytes
      [] kind = "string" -> SubSeq(bytes, 3, Len(bytes))
      [] kind = "u32s" -> [i \in 1..ReadU16(bytes) |-> SubSeq(bytes, 4 * i - 1, 4 * i + 2)]

\* Mutant: a tier byte this version does not know is let through.
KnownTierAny(value) == TRUE

\* AuditTier::try_from
KnownTier(value) == value <= 3

ReadField(body, r, name) ==
    LET rest == SubSeq(body, r.offset + 1, Len(body))
        width == Width(Kind(name), rest)
        value == FieldValue(Kind(name), SubSeq(rest, 1, width))
    IN
    IF r.result # "ok" THEN r
    ELSE IF width > Len(rest) THEN Fails(r, "corrupt_envelope")
    ELSE IF name = "schema_version" /\ value # SchemaVersion THEN Fails(r, "unknown_version")
    ELSE IF name = "tier" /\ ~KnownTier(value) THEN Fails(r, "unsupported_tier")
    ELSE IF Kind(name) = "string" /\ ~Utf8(value) THEN Fails(r, "corrupt_envelope")
    ELSE Reader(r.offset + width, With(r.fields, name, value), "ok")

\* Mutant: bytes after the last field of the body are skipped.
FinishAnywhere(body, r) == r

Finish(body, r) ==
    IF r.result = "ok" /\ r.offset # Len(body) THEN Fails(r, "corrupt_envelope") ELSE r

ReadBody(magic, body) ==
    LET read[i \in 0..Len(Read[magic])] ==
            IF i = 0 THEN Reader(0, <<>>, "ok") ELSE ReadField(body, read[i - 1], Read[magic][i])
    IN Finish(body, read[Len(Read[magic])])

Decoded(result, header, opaque) == [result |-> result, header |-> header, opaque |-> opaque]

Refused(category) == Decoded(category, <<>>, <<>>)

\* Mutant: the checksum is not compared.
ChecksumAny(body, crc) == TRUE

ChecksumMatches(body, crc) == Crc32c(body) = crc

\* decode_*_payload: the binding header, then what follows it.
DecodePayload(magic, payload) ==
    LET end == PrefixLen + ReadU32(payload)
        body == SubSeq(payload, PrefixLen + 1, end)
        r == ReadBody(magic, body)
    IN
    IF Len(payload) < PrefixLen THEN Refused("corrupt_envelope")
    ELSE IF end > Len(payload) THEN Refused("corrupt_envelope")
    ELSE IF ~ChecksumMatches(body, SubSeq(payload, 5, 8)) THEN Refused("corrupt_envelope")
    ELSE IF r.result # "ok" THEN Refused(r.result)
    ELSE Decoded("ok", r.fields, SubSeq(payload, end + 1, Len(payload)))

\* The error of Envelope::decode and of the comparison with the magic that is
\* expected, or "ok".
EnvelopeResult(magic, file) ==
    IF Len(file) < HeaderLen THEN "corrupt_envelope"
    ELSE IF ~\E m \in Magic : MagicBytes[m] = SubSeq(file, 1, 4) THEN "corrupt_envelope"
    ELSE IF file[5] # EnvelopeVersion THEN "unknown_version"
    ELSE IF file[6] # EnvelopeFlags THEN "corrupt_envelope"
    ELSE IF SubSeq(file, 1, 4) # MagicBytes[magic] THEN "corrupt_envelope"
    ELSE "ok"

\* decode_project_key, decode_project_receipt, decode_project_audit.
DecodeFile(magic, file) ==
    LET result == EnvelopeResult(magic, file) IN
    IF result # "ok" THEN Refused(result)
    ELSE DecodePayload(magic, SubSeq(file, HeaderLen + 1, Len(file)))
=============================================================================
