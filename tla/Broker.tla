------------------------------- MODULE Broker -------------------------------
(***************************************************************************)
(* The fixture broker: quotes, chats and the fallback verifier of          *)
(* broker/fixture-broker.js, with the buyers who hold its quotes and the   *)
(* proof bundles that circulate after a chat.                              *)
(*                                                                         *)
(* A handler runs to completion on the event loop, so it is one action;    *)
(* what interleaves are the requests of different buyers, the clock, a     *)
(* restart of the process and whoever edits a bundle on its way.           *)
(*                                                                         *)
(* A SHA-256 is modelled by the value it is taken of.                      *)
(***************************************************************************)
EXTENDS Integers, Sequences, FiniteSets

CONSTANTS
    Provider,          \* the provider ids of the catalog
    Catalog,           \* their entries
    Prompt, Blank,     \* the prompts buyers send; a prompt of white space
    Sampling,          \* temperature and top_p, as one value
    DefaultSampling,
    MaxTokensAsked,    \* the max_tokens values buyers ask for
    Lifetime,          \* the 300000 ms a quote is valid
    Other,             \* a name, digest or byte string that occurs nowhere else
    NoBytes, Zeros,    \* the bytes and the digest of a receipt that is missing
    MaxTime, MaxQuotes, MaxChats, MaxTampers, MaxSplices, MaxRestarts  \* bounds

CatalogEntry ==
    [model_id : STRING, checkpoint_hash : STRING, key_hash : STRING,
     commitllm_pin : STRING, receipts : BOOLEAN]

ASSUME BrokerConstants ==
    /\ Catalog \in [Provider -> CatalogEntry]
    /\ Other \notin Provider
    /\ Prompt \subseteq STRING /\ Blank \notin Prompt
    /\ DefaultSampling \in Sampling
    /\ MaxTokensAsked \subseteq Int
    /\ Lifetime \in Nat \ {0}
    /\ {MaxTime, MaxQuotes, MaxChats, MaxTampers, MaxSplices, MaxRestarts} \subseteq Nat

\* A verifier key is made from one checkpoint, and its hash is that of the key.
ASSUME KeysNameCheckpoints ==
    \A p, o \in Provider : Catalog[p].key_hash = Catalog[o].key_hash =>
        Catalog[p].checkpoint_hash = Catalog[o].checkpoint_hash

VARIABLES
    now,         \* Date.now()
    quotes,      \* the broker's Map from quote ids to quotes, in memory only
    issued,      \* every quote a buyer was sent
    chats,       \* every chat that was served, with the bundle sent back
    copies,      \* for the number of each chat, its bundle as it circulates now
    reply,       \* the status answered by the last step, 0 if it was no request
    report,      \* the report in that answer, or NoReport
    tampers, splices, restarts

vars == <<now, quotes, issued, chats, copies, reply, report, tampers, splices, restarts>>

bounds == <<tampers, splices, restarts>>

NoReport == [overall |-> "none"]

Answer(status, rep) == reply' = status /\ report' = rep

-----------------------------------------------------------------------------
\* Quotes.

Policy == [sampling : Sampling, max_tokens : 1..4096]

\* normalizeDecodePolicy: what is absent or not a number becomes the default.
NormalizeDecodePolicy(sampling, max_tokens) ==
    [sampling |-> IF sampling \in Sampling THEN sampling ELSE DefaultSampling,
     max_tokens |-> max_tokens]

\* Mutant: an id that names the provider and a coarser time.
CoarseQuoteId(p, t) == <<p, t \div 2>>

\* The id names the provider and the millisecond, and nothing else.
QuoteId(p, t) == <<p, t>>

Quote(p, policy, issuedAt) ==
    [quote_id |-> QuoteId(p, issuedAt), provider_id |-> p,
     model_id |-> Catalog[p].model_id,
     checkpoint_hash |-> Catalog[p].checkpoint_hash,
     key_hash |-> Catalog[p].key_hash,
     commitllm_pin |-> Catalog[p].commitllm_pin,
     decode_policy |-> policy,
     expires |-> issuedAt + Lifetime]

\* Mutant: the Map is replaced, not added to.
StoredAlone(q) == [id \in {q.quote_id} |-> q]

\* The entry of the Map for a new id, or in place of the entry it has.
Stored(q) ==
    [id \in DOMAIN quotes \cup {q.quote_id} |-> IF id = q.quote_id THEN q ELSE quotes[id]]

\* Mutant: max_tokens has no upper limit.
CreateQuoteStatusUnlimited(p, model_id, max_tokens) ==
    IF p \notin Provider THEN 404
    ELSE IF model_id # Catalog[p].model_id \/ max_tokens < 1 THEN 400
    ELSE 200

CreateQuoteStatus(p, model_id, max_tokens) ==
    IF p \notin Provider THEN 404
    ELSE IF model_id # Catalog[p].model_id THEN 400
    ELSE IF max_tokens \notin 1..4096 THEN 400
    ELSE 200

CreateQuote(p, model_id, sampling, max_tokens) ==
    LET status == CreateQuoteStatus(p, model_id, max_tokens)
        quote == Quote(p, NormalizeDecodePolicy(sampling, max_tokens), now)
    IN
    /\ Answer(status, NoReport)
    /\ IF status = 200
       THEN /\ Cardinality(issued) < MaxQuotes
            /\ quotes' = Stored(quote)
            /\ issued' = issued \cup {quote}
       ELSE UNCHANGED <<quotes, issued>>
    /\ UNCHANGED <<now, chats, copies, bounds>>

-----------------------------------------------------------------------------
\* Chats and their proof bundles.

\* answerFor: one answer for each kind of provider.
AnswerFor(p) == IF Catalog[p].receipts THEN "verified answer" ELSE "receiptless answer"

RequestId(quote_id, prompt) == <<quote_id, prompt>>

ReceiptMaterial(q, prompt) ==
    [request_id |-> RequestId(q.quote_id, prompt),
     model_id |-> Catalog[q.provider_id].model_id,
     prompt_hash |-> prompt,
     answer_hash |-> AnswerFor(q.provider_id),
     decode_policy_hash |-> q.decode_policy,
     commitllm_pin |-> Catalog[q.provider_id].commitllm_pin]

\* The VIEX bundle, flat: one entry for each field the verifier or the
\* documentation speaks of.  The digest of a missing receipt is all zeros.
ProofBundle(q, prompt) ==
    LET p == Catalog[q.provider_id] IN
    [quote_provider_id |-> q.provider_id,
     quote_model_id |-> q.model_id,
     quote_checkpoint_hash |-> q.checkpoint_hash,
     quote_commitllm_pin |-> q.commitllm_pin,
     quote_key_hash |-> q.key_hash,
     quote_decode_policy_hash |-> q.decode_policy,
     quote_expires_unix_ms |-> q.expires,
     request_prompt_hash |-> prompt,
     request_max_tokens |-> q.decode_policy.max_tokens,
     response_answer_hash |-> AnswerFor(q.provider_id),
     receipt_encoding |-> IF p.receipts THEN "base64" ELSE "missing",
     receipt_bytes |-> IF p.receipts THEN ReceiptMaterial(q, prompt) ELSE NoBytes,
     receipt_sha256 |-> IF p.receipts THEN ReceiptMaterial(q, prompt) ELSE Zeros,
     verifier_key_hash |-> p.key_hash,
     verifier_commitllm_pin |-> p.commitllm_pin,
     audit_payload_hash |-> IF p.receipts THEN RequestId(q.quote_id, prompt) ELSE Zeros]

Field ==
    {"quote_provider_id", "quote_model_id", "quote_checkpoint_hash",
     "quote_commitllm_pin", "quote_key_hash", "quote_decode_policy_hash",
     "quote_expires_unix_ms", "request_prompt_hash", "request_max_tokens",
     "response_answer_hash", "receipt_encoding", "receipt_bytes", "receipt_sha256",
     "verifier_key_hash", "verifier_commitllm_pin", "audit_payload_hash"}

\* The objects the bundle consists of.
Section ==
    { {"quote_provider_id", "quote_model_id", "quote_checkpoint_hash",
       "quote_commitllm_pin", "quote_key_hash", "quote_decode_policy_hash",
       "quote_expires_unix_ms"},
      {"request_prompt_hash", "request_max_tokens"},
      {"response_answer_hash"},
      {"receipt_encoding", "receipt_bytes", "receipt_sha256"},
      {"verifier_key_hash", "verifier_commitllm_pin"},
      {"audit_payload_hash"} }

\* Mutant: a quote is still good in the millisecond it expires.
ExpiredLate(expires, at) == expires < at

Expired(expires, at) == expires <= at

ChatStatus(id, prompt) ==
    IF id \notin DOMAIN quotes THEN 404
    ELSE IF Expired(quotes[id].expires, now) THEN 409
    ELSE IF prompt = Blank THEN 400
    ELSE 200

\* A buyer chats under a quote it holds.  The expiry is checked with one
\* reading of the clock and the bundle is dated with a later one.
Chat(held, prompt) ==
    LET status == ChatStatus(held.quote_id, prompt)
        quote == quotes[held.quote_id]
    IN
    /\ Answer(status, NoReport)
    /\ IF status = 200
       THEN /\ Len(chats) < MaxChats
            /\ chats' = Append(chats, [held |-> held, prompt |-> prompt, at |-> now,
                                       bundle |-> ProofBundle(quote, prompt)])
            /\ copies' = [i \in DOMAIN chats' |->
                            IF i \in DOMAIN copies THEN copies[i] ELSE ProofBundle(quote, prompt)]
            /\ now' \in {now, now + 1} \cap 0..MaxTime
       ELSE UNCHANGED <<chats, copies, now>>
    /\ UNCHANGED <<quotes, issued, bounds>>

-----------------------------------------------------------------------------
\* The fallback verifier.

\* Mutant: the key hash the bundle gives its own verifier is not compared.
KeyMismatchOfQuote(b, p) == b.quote_key_hash # p.key_hash

KeyMismatch(b, p) == b.verifier_key_hash # p.key_hash \/ b.quote_key_hash # p.key_hash

PinMismatch(b, p) ==
    b.quote_commitllm_pin # p.commitllm_pin \/ b.verifier_commitllm_pin # p.commitllm_pin

Receipt ==
    [request_id : (Provider \X Nat) \X STRING, model_id : STRING, prompt_hash : STRING,
     answer_hash : {AnswerFor(p) : p \in Provider}, decode_policy_hash : Policy,
     commitllm_pin : STRING]

\* The bytes that are no JSON document, and none at all, are no receipt; and no
\* document is known whose digest is all zeros.
ASSUME NotAReceipt == \A bytes \in {Other, NoBytes, Zeros} : bytes \notin Receipt

\* JSON.parse of the receipt bytes.
Decodable(bytes) == bytes \notin {Other, NoBytes}

\* Mutant: without the comparison of the prompt.
ReceiptMismatchPromptless(b, r) ==
    IF r.model_id # b.quote_model_id THEN "quote.model_id"
    ELSE IF r.decode_policy_hash # b.quote_decode_policy_hash THEN "quote.decode_policy_hash"
    ELSE IF r.answer_hash # b.response_answer_hash THEN "response.answer_hash"
    ELSE IF r.commitllm_pin # b.quote_commitllm_pin THEN "quote.commitllm_pin"
    ELSE "none"

\* The field of the first comparison with the receipt that fails, or "none".
ReceiptMismatch(b, r) ==
    IF r.model_id # b.quote_model_id THEN "quote.model_id"
    ELSE IF r.decode_policy_hash # b.quote_decode_policy_hash THEN "quote.decode_policy_hash"
    ELSE IF r.prompt_hash # b.request_prompt_hash THEN "request.prompt_hash"
    ELSE IF r.answer_hash # b.response_answer_hash THEN "response.answer_hash"
    ELSE IF r.commitllm_pin # b.quote_commitllm_pin THEN "quote.commitllm_pin"
    ELSE "none"

\* The field verify reports, or "none" when every check passes.
FailingField(b, at) ==
    LET p == Catalog[b.quote_provider_id] IN
    IF b.quote_provider_id \notin Provider THEN "quote.provider_id"
    ELSE IF Expired(b.quote_expires_unix_ms, at) THEN "quote.expires_unix_ms"
    ELSE IF b.quote_model_id # p.model_id THEN "quote.model_id"
    ELSE IF b.quote_checkpoint_hash # p.checkpoint_hash THEN "quote.checkpoint_hash"
    ELSE IF PinMismatch(b, p) THEN "quote.commitllm_pin"
    ELSE IF KeyMismatch(b, p) THEN "verifier.key_hash"
    ELSE IF b.receipt_encoding = "missing" THEN "receipt.encoding"
    ELSE IF b.receipt_sha256 # b.receipt_bytes THEN "receipt.sha256"
    ELSE IF ~Decodable(b.receipt_bytes) THEN "receipt.bytes_b64"
    ELSE ReceiptMismatch(b, b.receipt_bytes)

\* verify keeps no state: it looks at the bundle, the catalog and the clock.
Verify(i) ==
    LET field == FailingField(copies[i], now) IN
    /\ Answer(200, [overall |-> IF field = "none" THEN "pass" ELSE "fail",
                    field |-> field, at |-> now, bundle |-> copies[i], original |-> i])
    /\ UNCHANGED <<now, quotes, issued, chats, copies, bounds>>

-----------------------------------------------------------------------------
\* The surroundings of the broker.

Tick ==
    /\ now < MaxTime
    /\ now' = now + 1
    /\ Answer(0, NoReport)
    /\ UNCHANGED <<quotes, issued, chats, copies, bounds>>

\* The quotes are in memory only.
Restart ==
    /\ restarts < MaxRestarts
    /\ restarts' = restarts + 1
    /\ quotes' = <<>>
    /\ Answer(0, NoReport)
    /\ UNCHANGED <<now, issued, chats, copies, tampers, splices>>

\* The values a field can be changed to: those it has in another bundle, one it
\* has in none, any provider, any time.
Values(f) ==
    {chats[i].bundle[f] : i \in DOMAIN chats}
        \cup CASE f = "quote_expires_unix_ms" -> 1..(MaxTime + Lifetime)
               [] f = "receipt_encoding" -> {"missing", "base64"}
               [] f = "receipt_bytes" -> {Other, NoBytes}
               [] f = "receipt_sha256" -> {Other, Zeros}
               [] OTHER -> {Other}

\* Somebody changes one field of a bundle.
Tamper(i, f) ==
    /\ tampers < MaxTampers
    /\ tampers' = tampers + 1
    /\ \E v \in Values(f) \ {copies[i][f]} : copies' = [copies EXCEPT ![i][f] = v]
    /\ Answer(0, NoReport)
    /\ UNCHANGED <<now, quotes, issued, chats, splices, restarts>>

\* Somebody puts an object of one bundle in the place of that of another.
Splice(i, j, section) ==
    /\ i # j
    /\ splices < MaxSplices
    /\ splices' = splices + 1
    /\ copies' = [copies EXCEPT ![i] =
                    [f \in Field |-> IF f \in section THEN chats[j].bundle[f] ELSE copies[i][f]]]
    /\ Answer(0, NoReport)
    /\ UNCHANGED <<now, quotes, issued, chats, tampers, restarts>>

Init ==
    /\ now = 0
    /\ quotes = <<>>
    /\ issued = {}
    /\ chats = <<>>
    /\ copies = <<>>
    /\ reply = 0
    /\ report = NoReport
    /\ tampers = 0 /\ splices = 0 /\ restarts = 0

ModelId == {Catalog[p].model_id : p \in Provider}

Next ==
    \/ \E p \in Provider \cup {Other}, m \in ModelId \cup {Other},
          s \in Sampling \cup {Other}, n \in MaxTokensAsked : CreateQuote(p, m, s, n)
    \/ \E q \in issued, prompt \in Prompt \cup {Blank} : Chat(q, prompt)
    \/ \E i \in DOMAIN copies : Verify(i)
    \/ \E i \in DOMAIN copies, f \in Field : Tamper(i, f)
    \/ \E i, j \in DOMAIN copies, section \in Section : Splice(i, j, section)
    \/ Tick
    \/ Restart

Spec == Init /\ [][Next]_vars

-----------------------------------------------------------------------------
\* Properties.

\* A chat under a quote that was issued, answered with a bundle of such a one.
ServedChat ==
    [held : issued, prompt : Prompt, at : 0..MaxTime,
     bundle : {ProofBundle(q, prompt) : q \in issued, prompt \in Prompt}]

\* Every variable holds a value the broker can give it.
TypeOK ==
    /\ now \in 0..MaxTime
    /\ \A q \in issued :
          /\ q.provider_id \in Provider
          /\ q.decode_policy \in Policy
          /\ q.quote_id[2] \in 0..now
          /\ q = Quote(q.provider_id, q.decode_policy, q.quote_id[2])
    /\ \A id \in DOMAIN quotes : quotes[id] \in issued /\ quotes[id].quote_id = id
    /\ chats \in Seq(ServedChat)
    /\ DOMAIN copies = DOMAIN chats
    /\ reply \in {0, 200, 400, 404, 409}
    /\ report.overall \in {"none", "pass", "fail"}
    /\ tampers \in 0..MaxTampers /\ splices \in 0..MaxSplices
    /\ restarts \in 0..MaxRestarts

\* The identity and the expiry of the quote a buyer holds are those of every
\* bundle it gets, which is served before that expiry; and so is the decode
\* policy, unless the broker has issued another quote with the same id.
\* (createQuote, chat: the quote is looked up by its id alone, and an id is
\* used again by two requests of one millisecond, or after a restart)
ChatHonoursQuote ==
    \A i \in DOMAIN chats :
        LET q == chats[i].held  b == chats[i].bundle IN
        /\ b.quote_provider_id = q.provider_id
        /\ b.quote_key_hash = q.key_hash
        /\ b.quote_expires_unix_ms = q.expires
        /\ chats[i].at < q.expires
        /\ \/ b.quote_decode_policy_hash = q.decode_policy
           \/ \E other \in issued : other.quote_id = q.quote_id /\ other # q

\* Once the millisecond of its issue is over, a stored quote keeps its content
\* for as long as the process lives.  (createQuote: quotes.set)
StoredQuoteIsSettled ==
    [][ \A id \in DOMAIN quotes :
          \/ restarts' # restarts
          \/ quotes[id].expires = now + Lifetime
          \/ id \in DOMAIN quotes' /\ quotes'[id] = quotes[id] ]_vars

\* The fields in which the reported bundle differs from the one that was sent.
Edited ==
    {f \in Field : report.bundle[f] # chats[report.original].bundle[f]}

\* A bundle that arrives as it was sent passes exactly when its provider issues
\* receipts and less than the lifetime of its quote has gone by since the quote
\* was issued, restarts or not.  (verify and chat agree)
HonestBundleVerdict ==
    report # NoReport /\ Edited = {} =>
        LET q == chats[report.original].held IN
        report.overall = "pass"
            <=> Catalog[q.provider_id].receipts /\ report.at < q.quote_id[2] + Lifetime

BoundFields ==
    {"quote_model_id", "quote_checkpoint_hash", "quote_commitllm_pin", "quote_key_hash",
     "quote_decode_policy_hash", "request_prompt_hash", "response_answer_hash",
     "verifier_key_hash", "verifier_commitllm_pin"}

\* Changing one field the receipt or the catalog binds fails the verification,
\* and changing a second field does not repair it; nor does the receipt pass
\* with its bytes or its digest changed alone.  (the checks of verify;
\* docs/spec/03-data-model.md: "The verifier must fail if any of these disagree")
TamperFails ==
    report # NoReport /\ report.overall = "pass" /\ splices = 0 /\ tampers <= 2 =>
        /\ Edited \cap BoundFields = {}
        /\ "receipt_bytes" \in Edited <=> "receipt_sha256" \in Edited

\* Whatever objects of honest bundles are put together, a pass is about one
\* chat: the model, the pin, the decode policy, the prompt and the answer of
\* the bundle are those of a chat that was served by a provider that issues
\* receipts.  (the comparisons of verify with the receipt)
PassIsOneChat ==
    report # NoReport /\ report.overall = "pass" /\ tampers = 0 =>
        \E i \in DOMAIN chats :
            LET b == chats[i].bundle IN
            /\ Catalog[b.quote_provider_id].receipts
            /\ report.bundle.quote_model_id = b.quote_model_id
            /\ report.bundle.quote_commitllm_pin = b.quote_commitllm_pin
            /\ report.bundle.quote_decode_policy_hash = b.quote_decode_policy_hash
            /\ report.bundle.request_prompt_hash = b.request_prompt_hash
            /\ report.bundle.response_answer_hash = b.response_answer_hash

-----------------------------------------------------------------------------
\* Statements of the tests and the documentation that the code does not keep.

\* scripts/test-broker-api.js: the bundle of a chat carries the decode policy
\* hash of the quote the buyer was sent.
BundleCarriesQuotedPolicy ==
    \A i \in DOMAIN chats :
        chats[i].bundle.quote_decode_policy_hash = chats[i].held.decode_policy

\* docs/guides/buyer-proof-guide.md: the verifier binds request.max_tokens;
\* docs/spec/03-data-model.md: it must fail when the audit payload hash
\* disagrees; docs/spec/02-public-api.md: and on a quote-expiry mismatch.
DocumentedFieldsAreBound ==
    report # NoReport /\ report.overall = "pass" =>
        Edited \cap {"request_max_tokens", "audit_payload_hash", "quote_expires_unix_ms"} = {}
=============================================================================
