---------------------------- MODULE BrokerProofs ----------------------------
(***************************************************************************)
(* Proofs about Broker.tla, for every catalog, any number of quotes, chats *)
(* and restarts, and any edits of the bundles: SpliceInv follows bundles   *)
(* put together from others, EditInv counts the fields that were changed.  *)
(***************************************************************************)
EXTENDS Broker, TLAPS

\* A report is the outcome of the checks on the bundle it carries.
ReportInv ==
    report # NoReport =>
        /\ report.original \in DOMAIN chats
        /\ report.overall =
              IF FailingField(report.bundle, report.at) = "none" THEN "pass" ELSE "fail"
        /\ report.at \in 0..MaxTime

\* Every object of a bundle is that of a bundle that was sent.
FromChats(bundle) ==
    \A section \in Section : \E j \in DOMAIN chats :
        \A f \in section : bundle[f] = chats[j].bundle[f]

\* As long as nobody tampers, bundles are put together from bundles.
SpliceInv ==
    tampers = 0 =>
        /\ \A i \in DOMAIN copies : FromChats(copies[i])
        /\ report # NoReport => FromChats(report.bundle)

\* The fields in which two bundles differ, and a bound on their number.
Edits(b, c) == {f \in Field : b[f] # c[f]}

AtMost(n, fields) ==
    /\ n = 0 => fields = {}
    /\ n = 1 => \E f \in Field : fields \subseteq {f}
    /\ n = 2 => \E f, g \in Field : fields \subseteq {f, g}

\* A bundle that was changed in so many fields at most, and whose receipt is one, none,
\* or no document.
Near(b, c, n) ==
    /\ b = [f \in Field |-> b[f]]
    /\ AtMost(n, Edits(b, c))
    /\ b.receipt_bytes \in Receipt \cup {Other, NoBytes}

\* As long as nobody exchanges objects, a bundle differs from the one that was sent in
\* as many fields as were changed.
EditInv ==
    splices = 0 =>
        /\ \A i \in DOMAIN copies : Near(copies[i], chats[i].bundle, tampers)
        /\ report # NoReport => Near(report.bundle, chats[report.original].bundle, tampers)

Inv == TypeOK /\ ChatHonoursQuote /\ ReportInv /\ SpliceInv /\ EditInv

-----------------------------------------------------------------------------
\* The id of a quote determines all of it but the decode policy.
LEMMA QuoteFields ==
    ASSUME NEW p, NEW policy, NEW t
    PROVE  LET q == Quote(p, policy, t) IN
           /\ q.quote_id = <<p, t>> /\ q.provider_id = p /\ q.decode_policy = policy
           /\ q.key_hash = Catalog[p].key_hash /\ q.expires = t + Lifetime
  BY DEF Quote, QuoteId

\* Quotes that were issued under one id are for one provider and one expiry.
LEMMA SameIdSameTerms ==
    ASSUME TypeOK, NEW q \in issued, NEW r \in issued, q.quote_id = r.quote_id
    PROVE  /\ q.provider_id = r.provider_id
           /\ q.key_hash = r.key_hash
           /\ q.expires = r.expires
<1>1. /\ q = Quote(q.provider_id, q.decode_policy, q.quote_id[2])
      /\ r = Quote(r.provider_id, r.decode_policy, r.quote_id[2])
  BY DEF TypeOK
<1>2. q.quote_id = <<q.provider_id, q.quote_id[2]>> /\ r.quote_id = <<r.provider_id, r.quote_id[2]>>
  BY <1>1, QuoteFields
<1>3. q.provider_id = r.provider_id
  BY <1>2
<1>4. QED
  BY <1>1, <1>3, QuoteFields

\* A quote that is issued is well formed.
LEMMA NewQuote ==
    ASSUME TypeOK, NEW p, NEW m, NEW s, NEW n,
           CreateQuoteStatus(p, m, n) = 200
    PROVE  LET q == Quote(p, NormalizeDecodePolicy(s, n), now) IN
           /\ q.provider_id \in Provider
           /\ q.decode_policy \in Policy
           /\ q.quote_id = <<p, now>>
           /\ q = Quote(q.provider_id, q.decode_policy, q.quote_id[2])
<1>1. p \in Provider /\ n \in 1..4096
  BY DEF CreateQuoteStatus
<1>2. NormalizeDecodePolicy(s, n) \in Policy
  BY <1>1, BrokerConstants DEF NormalizeDecodePolicy, Policy
<1>3. QED
  BY <1>1, <1>2, QuoteFields

\* A chat that is served is under a quote in the map, which was issued under
\* the id of the quote the buyer holds and has not expired.
LEMMA NewChat ==
    ASSUME TypeOK, NEW held \in issued, NEW prompt \in Prompt \cup {Blank},
           ChatStatus(held.quote_id, prompt) = 200
    PROVE  LET q == quotes[held.quote_id] IN
           /\ q \in issued
           /\ q.quote_id = held.quote_id
           /\ ~(q.expires <= now)
           /\ prompt \in Prompt
<1>1. /\ held.quote_id \in DOMAIN quotes
      /\ ~Expired(quotes[held.quote_id].expires, now)
      /\ prompt # Blank
  BY DEF ChatStatus
<1>2. QED
  BY <1>1 DEF TypeOK, Expired

\* Sequences over a set are sequences over a larger one.
LEMMA SeqMonotone == ASSUME NEW S, NEW T, S \subseteq T PROVE Seq(S) \subseteq Seq(T)
  OBVIOUS

-----------------------------------------------------------------------------
\* The broker starts with an empty map, at time 0.
LEMMA TypeInit == Init => TypeOK
  BY BrokerConstants DEF Init, TypeOK, NoReport

\* What a chat adds to the history.
LEMMA ChatType ==
    ASSUME TypeOK, NEW held \in issued, NEW prompt \in Prompt \cup {Blank},
           ChatStatus(held.quote_id, prompt) = 200
    PROVE  [held |-> held, prompt |-> prompt, at |-> now,
            bundle |-> ProofBundle(quotes[held.quote_id], prompt)] \in ServedChat
<1> DEFINE b == ProofBundle(quotes[held.quote_id], prompt)
<1>1. prompt \in Prompt /\ quotes[held.quote_id] \in issued
  BY NewChat
<1>2. b \in {ProofBundle(q, p) : q \in issued, p \in Prompt}
  BY <1>1
<1> HIDE DEF b
<1>3. [held |-> held, prompt |-> prompt, at |-> now, bundle |-> b] \in ServedChat
  BY <1>1, <1>2 DEF ServedChat, TypeOK
<1>4. QED
  BY <1>3 DEF b

\* Every handler, and every step around the broker, keeps the types: a quote
\* that createQuote stores is one it issued, a bundle is one chat put together.
LEMMA TypeStep == TypeOK /\ [Next]_vars => TypeOK'
<1> SUFFICES ASSUME TypeOK, [Next]_vars PROVE TypeOK'
  OBVIOUS
<1> USE BrokerConstants DEF bounds, Answer, NoReport
<1>1. ASSUME NEW p \in Provider \cup {Other}, NEW m \in ModelId \cup {Other},
             NEW s \in Sampling \cup {Other}, NEW n \in MaxTokensAsked,
             CreateQuote(p, m, s, n)
      PROVE  TypeOK'
  <2>1. CASE CreateQuoteStatus(p, m, n) = 200
    <3> DEFINE q == Quote(p, NormalizeDecodePolicy(s, n), now)
    <3>1. issued' = issued \cup {q} /\ quotes' = Stored(q)
          /\ UNCHANGED <<now, chats, copies, bounds>>
      BY <1>1, <2>1 DEF CreateQuote
    <3>2. /\ q.provider_id \in Provider /\ q.decode_policy \in Policy
          /\ q.quote_id = <<p, now>>
          /\ q = Quote(q.provider_id, q.decode_policy, q.quote_id[2])
      BY <2>1, NewQuote
    <3> HIDE DEF q
    <3>3. \A r \in issued' : /\ r.provider_id \in Provider
                             /\ r.decode_policy \in Policy
                             /\ r.quote_id[2] \in 0..now'
                             /\ r = Quote(r.provider_id, r.decode_policy, r.quote_id[2])
      BY <3>1, <3>2, SMTT(30) DEF TypeOK
    <3>4. \A id \in DOMAIN quotes' : quotes'[id] \in issued' /\ quotes'[id].quote_id = id
      BY <3>1 DEF TypeOK, Stored
    <3>5. chats' \in Seq(ServedChat')
      <4>1. ServedChat \subseteq ServedChat'
        BY <3>1 DEF ServedChat
      <4> QED
        BY <3>1, <4>1, SeqMonotone, SMTT(30) DEF TypeOK
    <3>6. reply' \in {0, 200, 400, 404, 409} /\ report' = NoReport
      BY <1>1, <2>1 DEF CreateQuote
    <3> QED
      BY <3>1, <3>3, <3>4, <3>5, <3>6 DEF TypeOK
  <2>2. CASE CreateQuoteStatus(p, m, n) # 200
    <3>1. CreateQuoteStatus(p, m, n) \in {200, 400, 404}
      BY DEF CreateQuoteStatus
    <3>2. UNCHANGED <<now, issued, quotes, chats, copies, bounds>>
      BY <1>1, <2>2 DEF CreateQuote
    <3>3. reply' = CreateQuoteStatus(p, m, n) /\ report' = NoReport
      BY <1>1 DEF CreateQuote
    <3>4. ServedChat' = ServedChat
      BY <3>2 DEF ServedChat
    <3> QED
      BY <3>1, <3>2, <3>3, <3>4 DEF TypeOK
  <2> QED
    BY <2>1, <2>2
<1>2. ASSUME NEW q \in issued, NEW prompt \in Prompt \cup {Blank}, Chat(q, prompt)
      PROVE  TypeOK'
  <2>1. CASE ChatStatus(q.quote_id, prompt) = 200
    <3> DEFINE c == [held |-> q, prompt |-> prompt, at |-> now,
                     bundle |-> ProofBundle(quotes[q.quote_id], prompt)]
    <3>1. chats' = Append(chats, c) /\ now' \in {now, now + 1} \cap 0..MaxTime
          /\ DOMAIN copies' = DOMAIN chats' /\ UNCHANGED <<quotes, issued, bounds>>
          /\ reply' = 200 /\ report' = NoReport
      BY <1>2, <2>1 DEF Chat
    <3>2. c \in ServedChat
      BY <1>2, <2>1, ChatType
    <3> HIDE DEF c
    <3>3. chats' \in Seq(ServedChat)
      BY <3>1, <3>2 DEF TypeOK
    <3>4. ServedChat' = ServedChat
      BY <3>1 DEF ServedChat
    <3>5. now \in 0..now' /\ 0..now \subseteq 0..now'
      BY <3>1 DEF TypeOK
    <3> QED
      BY <3>1, <3>3, <3>4, <3>5, SMTT(30) DEF TypeOK
  <2>2. CASE ChatStatus(q.quote_id, prompt) # 200
    BY <1>2, <2>2 DEF Chat, ChatStatus, TypeOK, ServedChat
  <2> QED
    BY <2>1, <2>2
<1>3. ASSUME NEW i \in DOMAIN copies, Verify(i) PROVE TypeOK'
  BY <1>3 DEF Verify, TypeOK, ServedChat
<1>4. ASSUME NEW i \in DOMAIN copies, NEW f \in Field, Tamper(i, f) PROVE TypeOK'
  BY <1>4 DEF Tamper, TypeOK, ServedChat
<1>5. ASSUME NEW i \in DOMAIN copies, NEW j \in DOMAIN copies, NEW section \in Section,
             Splice(i, j, section)
      PROVE  TypeOK'
  BY <1>5 DEF Splice, TypeOK, ServedChat
<1>6. CASE Tick
  BY <1>6, SMTT(30) DEF Tick, TypeOK, ServedChat
<1>7. CASE Restart
  BY <1>7 DEF Restart, TypeOK, ServedChat
<1>8. CASE UNCHANGED vars
  BY <1>8 DEF vars, TypeOK, ServedChat
<1>9. QED
  BY <1>1, <1>2, <1>3, <1>4, <1>5, <1>6, <1>7, <1>8 DEF Next
-----------------------------------------------------------------------------
\* A report of verify is the outcome of its checks; other steps make none.
LEMMA ReportStep == TypeOK /\ ReportInv /\ [Next]_vars => ReportInv'
<1> SUFFICES ASSUME TypeOK, ReportInv, [Next]_vars PROVE ReportInv'
  OBVIOUS
<1> USE DEF Answer, ReportInv
<1>1. ASSUME NEW p \in Provider \cup {Other}, NEW m \in ModelId \cup {Other},
             NEW s \in Sampling \cup {Other}, NEW n \in MaxTokensAsked,
             CreateQuote(p, m, s, n)
      PROVE  ReportInv'
  BY <1>1 DEF CreateQuote
<1>2. ASSUME NEW q \in issued, NEW prompt \in Prompt \cup {Blank}, Chat(q, prompt)
      PROVE  ReportInv'
  BY <1>2 DEF Chat
<1>3. ASSUME NEW i \in DOMAIN copies, Verify(i) PROVE ReportInv'
  <2>1. /\ report'.original = i
        /\ report'.bundle = copies[i]
        /\ report'.at = now
        /\ report'.overall =
              IF FailingField(copies[i], now) = "none" THEN "pass" ELSE "fail"
        /\ chats' = chats
    BY <1>3 DEF Verify
  <2>2. FailingField(report'.bundle, report'.at) = FailingField(copies[i], now)
    BY <2>1
  <2> QED
    BY <1>3, <2>1, <2>2 DEF TypeOK
<1>4. ASSUME NEW i \in DOMAIN copies, NEW f \in Field, Tamper(i, f) PROVE ReportInv'
  BY <1>4 DEF Tamper
<1>5. ASSUME NEW i \in DOMAIN copies, NEW j \in DOMAIN copies, NEW section \in Section,
             Splice(i, j, section)
      PROVE  ReportInv'
  BY <1>5 DEF Splice
<1>6. CASE Tick
  BY <1>6 DEF Tick
<1>7. CASE Restart
  BY <1>7 DEF Restart
<1>8. CASE UNCHANGED vars
  BY <1>8 DEF vars
<1>9. QED
  BY <1>1, <1>2, <1>3, <1>4, <1>5, <1>6, <1>7, <1>8 DEF Next

\* chat adds a bundle that honours the quote of its buyer; no step takes away
\* from the history or from the quotes that were issued.
LEMMA ChatsStep == TypeOK /\ TypeOK' /\ ChatHonoursQuote /\ [Next]_vars => ChatHonoursQuote'
<1> SUFFICES ASSUME TypeOK, TypeOK', ChatHonoursQuote, [Next]_vars PROVE ChatHonoursQuote'
  OBVIOUS
<1>1. ASSUME chats' = chats, issued \subseteq issued' PROVE ChatHonoursQuote'
  BY <1>1 DEF ChatHonoursQuote
<1>2. ASSUME NEW held \in issued, NEW prompt \in Prompt \cup {Blank}, Chat(held, prompt)
      PROVE  ChatHonoursQuote'
  <2>1. CASE ChatStatus(held.quote_id, prompt) = 200
    <3> DEFINE q == quotes[held.quote_id]
               b == ProofBundle(q, prompt)
               c == [held |-> held, prompt |-> prompt, at |-> now, bundle |-> b]
    <3>1. chats' = Append(chats, c) /\ issued' = issued
      BY <1>2, <2>1 DEF Chat
    <3>2. q \in issued /\ q.quote_id = held.quote_id /\ ~(q.expires <= now)
      BY <1>2, <2>1, NewChat
    <3>3. /\ q.provider_id = held.provider_id
          /\ q.key_hash = held.key_hash
          /\ q.expires = held.expires
      BY <1>2, <3>2, SameIdSameTerms
    <3>4. held.expires \in Int
      <4>1. held = Quote(held.provider_id, held.decode_policy, held.quote_id[2])
            /\ held.quote_id[2] \in Int
        BY <1>2 DEF TypeOK
      <4> QED
        BY <4>1, QuoteFields, BrokerConstants
    <3>5. /\ b.quote_provider_id = held.provider_id
          /\ b.quote_key_hash = held.key_hash
          /\ b.quote_expires_unix_ms = held.expires
          /\ b.quote_decode_policy_hash = q.decode_policy
      BY <3>3 DEF ProofBundle
    <3>6. now < held.expires
      BY <3>2, <3>3, <3>4 DEF TypeOK
    <3> HIDE DEF q, b
    <3>7. ASSUME NEW i \in DOMAIN chats'
          PROVE  LET h == chats'[i].held  d == chats'[i].bundle IN
                 /\ d.quote_provider_id = h.provider_id
                 /\ d.quote_key_hash = h.key_hash
                 /\ d.quote_expires_unix_ms = h.expires
                 /\ chats'[i].at < h.expires
                 /\ \/ d.quote_decode_policy_hash = h.decode_policy
                    \/ \E other \in issued' : other.quote_id = h.quote_id /\ other # h
      <4>1. CASE i \in DOMAIN chats
        BY <3>1, <4>1, SMTT(30) DEF ChatHonoursQuote, TypeOK
      <4>2. CASE i \notin DOMAIN chats
        <5>1. chats'[i] = c
          BY <3>1, <3>7, <4>2, SMTT(30) DEF TypeOK
        <5> QED
          BY <3>1, <3>2, <3>5, <3>6, <5>1
      <4> QED
        BY <4>1, <4>2
    <3> QED
      BY <3>7 DEF ChatHonoursQuote
  <2>2. CASE ChatStatus(held.quote_id, prompt) # 200
    BY <1>1, <1>2, <2>2 DEF Chat
  <2> QED
    BY <2>1, <2>2
<1>3. ASSUME NEW p \in Provider \cup {Other}, NEW m \in ModelId \cup {Other},
             NEW s \in Sampling \cup {Other}, NEW n \in MaxTokensAsked,
             CreateQuote(p, m, s, n)
      PROVE  ChatHonoursQuote'
  BY <1>1, <1>3 DEF CreateQuote
<1>4. CASE \/ \E i \in DOMAIN copies : Verify(i)
           \/ \E i \in DOMAIN copies, f \in Field : Tamper(i, f)
           \/ \E i, j \in DOMAIN copies, section \in Section : Splice(i, j, section)
           \/ Tick \/ Restart \/ UNCHANGED vars
  BY <1>1, <1>4 DEF Verify, Tamper, Splice, Tick, Restart, vars
<1>5. QED
  BY <1>2, <1>3, <1>4 DEF Next

-----------------------------------------------------------------------------
\* The objects of a bundle are its own and have no field in common.
LEMMA Sections ==
    /\ \A s \in Section : s \subseteq Field
    /\ \A s, t \in Section : s # t => s \cap t = {}
  BY DEF Section, Field

\* chat, verify and an exchange of objects leave every object of a bundle one
\* that was sent; only tampering does not, and it is counted.
LEMMA SpliceStep == TypeOK /\ SpliceInv /\ [Next]_vars => SpliceInv'
<1> SUFFICES ASSUME TypeOK, SpliceInv, [Next]_vars PROVE SpliceInv'
  OBVIOUS
<1> USE DEF Answer, SpliceInv
<1>1. ASSUME NEW held \in issued, NEW prompt \in Prompt \cup {Blank}, Chat(held, prompt)
      PROVE  SpliceInv'
  <2>1. CASE ChatStatus(held.quote_id, prompt) = 200
    <3> DEFINE b == ProofBundle(quotes[held.quote_id], prompt)
               c == [held |-> held, prompt |-> prompt, at |-> now, bundle |-> b]
    <3>1. /\ chats' = Append(chats, c)
          /\ copies' = [i \in DOMAIN chats' |-> IF i \in DOMAIN copies THEN copies[i] ELSE b]
          /\ report' = NoReport
          /\ tampers' = tampers
      BY <1>1, <2>1 DEF Chat, bounds
    <3>2. chats \in Seq(ServedChat) /\ DOMAIN copies = DOMAIN chats
      BY DEF TypeOK
    <3>3. c.bundle = b
      OBVIOUS
    <3> HIDE DEF c
    <3> HIDE DEF b
    <3>4. /\ \A j \in DOMAIN chats : j \in DOMAIN chats' /\ chats'[j] = chats[j]
          /\ DOMAIN chats' = DOMAIN chats \cup {Len(chats) + 1}
          /\ chats'[Len(chats) + 1] = c
      BY <3>1, <3>2
    <3>5. ASSUME tampers = 0, NEW i \in DOMAIN copies', NEW s \in Section
          PROVE  \E j \in DOMAIN chats' : \A f \in s : copies'[i][f] = chats'[j].bundle[f]
      <4>1. CASE i \in DOMAIN copies
        <5>1. copies'[i] = copies[i]
          BY <3>1, <3>5, <4>1
        <5>2. PICK j \in DOMAIN chats : \A f \in s : copies[i][f] = chats[j].bundle[f]
          BY <3>5, <4>1 DEF FromChats
        <5> QED
          BY <5>1, <5>2, <3>4
      <4>2. CASE i \notin DOMAIN copies
        <5>1. copies'[i] = b /\ i = Len(chats) + 1
          BY <3>1, <3>2, <3>4, <3>5, <4>2
        <5> QED
          BY <5>1, <3>3, <3>4
      <4> QED
        BY <4>1, <4>2
    <3>6. report' = NoReport /\ tampers' = tampers
      BY <3>1
    <3> QED
      BY <3>5, <3>6 DEF FromChats
  <2>2. CASE ChatStatus(held.quote_id, prompt) # 200
    BY <1>1, <2>2 DEF Chat, FromChats, bounds
  <2> QED
    BY <2>1, <2>2
<1>2. ASSUME NEW i \in DOMAIN copies, Verify(i) PROVE SpliceInv'
  BY <1>2 DEF Verify, FromChats, bounds
<1>3. ASSUME NEW i \in DOMAIN copies, NEW f \in Field, Tamper(i, f) PROVE SpliceInv'
  BY <1>3 DEF Tamper, TypeOK
<1>4. ASSUME NEW i \in DOMAIN copies, NEW j \in DOMAIN copies, NEW section \in Section,
             Splice(i, j, section)
      PROVE  SpliceInv'
  <2> DEFINE b == [f \in Field |-> IF f \in section THEN chats[j].bundle[f] ELSE copies[i][f]]
  <2>1. /\ DOMAIN copies' = DOMAIN copies
        /\ copies'[i] = b
        /\ \A k \in DOMAIN copies : k # i => copies'[k] = copies[k]
        /\ report' = NoReport /\ UNCHANGED <<chats, tampers>>
    BY <1>4 DEF Splice
  <2>2. ASSUME tampers = 0, NEW s \in Section
        PROVE  \E k \in DOMAIN chats : \A f \in s : b[f] = chats[k].bundle[f]
    <3>1. CASE s = section
      BY <1>4, <3>1, Sections DEF TypeOK
    <3>2. CASE s # section
      <4>1. PICK k \in DOMAIN chats : \A f \in s : copies[i][f] = chats[k].bundle[f]
        BY <1>4, <2>2 DEF FromChats
      <4>2. \A f \in s : f \in Field /\ f \notin section
        BY <1>4, <2>2, <3>2, Sections
      <4> QED
        BY <4>1, <4>2
    <3> QED
      BY <3>1, <3>2
  <2>3. tampers = 0 => FromChats(b)
    BY <2>2 DEF FromChats
  <2> HIDE DEF b
  <2>4. ASSUME tampers = 0, NEW k \in DOMAIN copies PROVE FromChats(copies'[k])
    BY <2>1, <2>3, <2>4
  <2> QED
    BY <2>1, <2>4 DEF FromChats
<1>5. ASSUME NEW p \in Provider \cup {Other}, NEW m \in ModelId \cup {Other},
             NEW s \in Sampling \cup {Other}, NEW n \in MaxTokensAsked,
             CreateQuote(p, m, s, n)
      PROVE  SpliceInv'
  BY <1>5 DEF CreateQuote, FromChats, bounds
<1>6. CASE Tick
  BY <1>6 DEF Tick, FromChats, bounds
<1>7. CASE Restart
  BY <1>7 DEF Restart, FromChats, bounds
<1>8. CASE UNCHANGED vars
  BY <1>8 DEF vars, FromChats, bounds
<1>9. QED
  BY <1>1, <1>2, <1>3, <1>4, <1>5, <1>6, <1>7, <1>8 DEF Next
-----------------------------------------------------------------------------
\* A bundle is a function of its fields, with the receipt of a provider that issues them.
LEMMA BundleType ==
    ASSUME NEW p \in Provider, NEW policy \in Policy, NEW t \in Nat, NEW prompt \in Prompt
    PROVE  LET b == ProofBundle(Quote(p, policy, t), prompt) IN
           /\ b = [f \in Field |-> b[f]]
           /\ b.receipt_bytes \in Receipt \cup {Other, NoBytes}
<1> DEFINE q == Quote(p, policy, t)
           c == Catalog[p]
           b == ProofBundle(q, prompt)
<1>1. c \in CatalogEntry
  BY BrokerConstants
<1>2. q.quote_id = <<p, t>> /\ q.provider_id = p /\ q.decode_policy = policy
  BY DEF Quote, QuoteId
<1> HIDE DEF q
<1>3. ReceiptMaterial(q, prompt) \in Receipt
  <2>1. <<<<p, t>>, prompt>> \in (Provider \X Nat) \X STRING
    BY BrokerConstants
  <2>2. AnswerFor(p) \in {AnswerFor(x) : x \in Provider}
    OBVIOUS
  <2>3. c.model_id \in STRING /\ c.commitllm_pin \in STRING /\ prompt \in STRING
    BY <1>1, BrokerConstants DEF CatalogEntry
  <2> QED
    BY <2>1, <2>2, <2>3, <1>2 DEF Receipt, ReceiptMaterial, RequestId
<1>4. b.receipt_bytes \in Receipt \cup {Other, NoBytes}
  BY <1>3 DEF ProofBundle
<1>5. b = [f \in Field |-> b[f]]
  BY DEF ProofBundle, Field
<1> QED
  BY <1>4, <1>5 DEF q

\* One more change.
LEMMA OneMoreEdit ==
    ASSUME NEW n \in Nat, NEW a, NEW b, NEW f \in Field, AtMost(n, a), b \subseteq a \cup {f}
    PROVE  AtMost(n + 1, b)
<1>1. CASE n = 0
  BY <1>1 DEF AtMost
<1>2. CASE n = 1
  <2>1. PICK g \in Field : a \subseteq {g}
    BY <1>2 DEF AtMost
  <2>2. b \subseteq {g, f}
    BY <2>1
  <2>3. \E h, k \in Field : b \subseteq {h, k}
    BY <2>2
  <2> QED
    BY <1>2, <2>3 DEF AtMost
<1>3. CASE n \notin {0, 1}
  BY <1>3 DEF AtMost
<1> QED
  BY <1>1, <1>2, <1>3

\* tamper changes one field.
LEMMA TamperedNear ==
    ASSUME NEW n \in Nat, NEW b, NEW c, NEW f \in Field, NEW v, Near(b, c, n),
           f = "receipt_bytes" => v \in Receipt \cup {Other, NoBytes}
    PROVE  Near([b EXCEPT ![f] = v], c, n + 1)
<1> DEFINE d == [b EXCEPT ![f] = v]
<1>1. b = [g \in Field |-> b[g]]
  BY DEF Near
<1>2. d = [g \in Field |-> IF g = f THEN v ELSE b[g]]
  BY <1>1
<1> HIDE DEF d
<1>3. \A g \in Field : d[g] = IF g = f THEN v ELSE b[g]
  BY <1>2
<1>4. d = [g \in Field |-> d[g]]
  BY <1>2
<1>5. Edits(d, c) \subseteq Edits(b, c) \cup {f}
  BY <1>3 DEF Edits
<1>6. AtMost(n + 1, Edits(d, c))
  BY <1>5, OneMoreEdit DEF Near
<1>7. d.receipt_bytes \in Receipt \cup {Other, NoBytes}
  BY <1>3 DEF Near, Field
<1> QED
  BY <1>4, <1>6, <1>7 DEF Near, d

\* A bundle that was sent differs from itself in nothing.
LEMMA SentIsNear ==
    ASSUME NEW n \in Nat, NEW b, b = [f \in Field |-> b[f]],
           b.receipt_bytes \in Receipt \cup {Other, NoBytes}
    PROVE  Near(b, b, n)
<1>1. Edits(b, b) = {}
  BY DEF Edits
<1>2. "receipt_bytes" \in Field
  BY DEF Field
<1> QED
  BY <1>1, <1>2 DEF Near, AtMost

\* The bundle of a chat that was served.
LEMMA SentType ==
    ASSUME TypeOK, NEW i \in DOMAIN chats
    PROVE  /\ \E q \in issued, prompt \in Prompt :
                 /\ chats[i].bundle =
                       ProofBundle(Quote(q.provider_id, q.decode_policy, q.quote_id[2]), prompt)
                 /\ q.provider_id \in Provider /\ q.decode_policy \in Policy /\ q.quote_id[2] \in Nat
           /\ chats[i].bundle = [f \in Field |-> chats[i].bundle[f]]
           /\ chats[i].bundle.receipt_bytes \in Receipt \cup {Other, NoBytes}
<1>1. chats[i] \in ServedChat
  BY DEF TypeOK
<1>2. PICK q \in issued, prompt \in Prompt : chats[i].bundle = ProofBundle(q, prompt)
  BY <1>1 DEF ServedChat
<1>3. /\ q.provider_id \in Provider /\ q.decode_policy \in Policy /\ q.quote_id[2] \in Nat
      /\ q = Quote(q.provider_id, q.decode_policy, q.quote_id[2])
  BY BrokerConstants DEF TypeOK
<1>4. chats[i].bundle = ProofBundle(Quote(q.provider_id, q.decode_policy, q.quote_id[2]), prompt)
  BY <1>2, <1>3
<1> QED
  BY <1>3, <1>4, BundleType

\* The same after a step.
LEMMA SentTypeNext ==
    ASSUME TypeOK', NEW i \in DOMAIN chats'
    PROVE  /\ chats'[i].bundle = [f \in Field |-> chats'[i].bundle[f]]
           /\ chats'[i].bundle.receipt_bytes \in Receipt \cup {Other, NoBytes}
<1>1. chats'[i] \in ServedChat'
  BY DEF TypeOK
<1>2. PICK q \in issued', prompt \in Prompt : chats'[i].bundle = ProofBundle(q, prompt)
  BY <1>1 DEF ServedChat
<1>3. /\ q.provider_id \in Provider /\ q.decode_policy \in Policy /\ q.quote_id[2] \in Nat
      /\ q = Quote(q.provider_id, q.decode_policy, q.quote_id[2])
  BY BrokerConstants DEF TypeOK
<1>4. chats'[i].bundle = ProofBundle(Quote(q.provider_id, q.decode_policy, q.quote_id[2]), prompt)
  BY <1>2, <1>3
<1> QED
  BY <1>3, <1>4, BundleType

\* A bundle that was changed in n fields was changed in n + 1 at most.
LEMMA MoreEdits ==
    ASSUME NEW n \in Nat, NEW b, NEW c, Near(b, c, n)
    PROVE  Near(b, c, n + 1)
<1>1. "receipt_bytes" \in Field
  BY DEF Field
<1>2. AtMost(n + 1, Edits(b, c))
  BY <1>1, OneMoreEdit DEF Near
<1> QED
  BY <1>2 DEF Near

\* chat adds a copy that is its bundle, tamper changes one field of one copy, and verify
\* reports a copy as it is.
LEMMA EditStep == TypeOK /\ TypeOK' /\ ReportInv /\ EditInv /\ [Next]_vars => EditInv'
<1> SUFFICES ASSUME TypeOK, TypeOK', ReportInv, EditInv, [Next]_vars, splices' = 0
             PROVE  /\ \A i \in DOMAIN copies' : Near(copies'[i], chats'[i].bundle, tampers')
                    /\ report' # NoReport =>
                          Near(report'.bundle, chats'[report'.original].bundle, tampers')
  BY DEF EditInv
<1> USE DEF Answer
<1>0. /\ tampers \in Nat /\ DOMAIN copies = DOMAIN chats /\ DOMAIN copies' = DOMAIN chats'
      /\ splices \in Nat /\ chats \in Seq(ServedChat)
  BY BrokerConstants DEF TypeOK
<1>1. ASSUME NEW held \in issued, NEW prompt \in Prompt \cup {Blank}, Chat(held, prompt)
      PROVE  /\ \A i \in DOMAIN copies' : Near(copies'[i], chats'[i].bundle, tampers')
             /\ report' = NoReport
  <2>1. report' = NoReport /\ tampers' = tampers /\ splices = 0
    BY <1>1 DEF Chat, bounds
  <2>2. \A i \in DOMAIN copies : Near(copies[i], chats[i].bundle, tampers)
    BY <2>1 DEF EditInv
  <2>3. CASE ChatStatus(held.quote_id, prompt) = 200
    <3> DEFINE b == ProofBundle(quotes[held.quote_id], prompt)
               c == [held |-> held, prompt |-> prompt, at |-> now, bundle |-> b]
    <3>1. /\ chats' = Append(chats, c)
          /\ copies' = [i \in DOMAIN chats' |-> IF i \in DOMAIN copies THEN copies[i] ELSE b]
      BY <1>1, <2>3 DEF Chat
    <3>2. c.bundle = b
      OBVIOUS
    <3> HIDE DEF b, c
    <3>3. ASSUME NEW i \in DOMAIN copies' PROVE Near(copies'[i], chats'[i].bundle, tampers')
      <4>1. CASE i \in DOMAIN copies
        <5>1. copies'[i] = copies[i] /\ chats'[i] = chats[i]
          BY <1>0, <3>1, <3>3, <4>1
        <5> QED
          BY <2>1, <2>2, <4>1, <5>1
      <4>2. CASE i \notin DOMAIN copies
        <5>1. copies'[i] = b /\ chats'[i] = c
          BY <1>0, <3>1, <3>3, <4>2
        <5>2. i \in DOMAIN chats'
          BY <1>0, <3>3
        <5>3. /\ chats'[i].bundle = [f \in Field |-> chats'[i].bundle[f]]
              /\ chats'[i].bundle.receipt_bytes \in Receipt \cup {Other, NoBytes}
          BY <5>2, SentTypeNext
        <5>4. Near(b, b, tampers)
          BY <1>0, <3>2, <5>1, <5>3, SentIsNear
        <5> QED
          BY <2>1, <3>2, <5>1, <5>4
      <4> QED
        BY <4>1, <4>2
    <3> QED
      BY <2>1, <3>3
  <2>4. CASE ChatStatus(held.quote_id, prompt) # 200
    BY <1>1, <2>1, <2>2, <2>4 DEF Chat
  <2> QED
    BY <2>3, <2>4
<1>2. ASSUME NEW i \in DOMAIN copies, Verify(i)
      PROVE  /\ \A k \in DOMAIN copies' : Near(copies'[k], chats'[k].bundle, tampers')
             /\ Near(report'.bundle, chats'[report'.original].bundle, tampers')
  BY <1>2 DEF Verify, EditInv, bounds
<1>3. ASSUME NEW i \in DOMAIN copies, NEW f \in Field, Tamper(i, f)
      PROVE  /\ \A k \in DOMAIN copies' : Near(copies'[k], chats'[k].bundle, tampers')
             /\ report' = NoReport
  <2>1. report' = NoReport /\ tampers' = tampers + 1 /\ splices = 0 /\ chats' = chats
    BY <1>3 DEF Tamper
  <2>2. PICK v \in Values(f) : copies' = [copies EXCEPT ![i] = [copies[i] EXCEPT ![f] = v]]
    BY <1>3 DEF Tamper
  <2>3. \A k \in DOMAIN copies : Near(copies[k], chats[k].bundle, tampers)
    BY <2>1 DEF EditInv
  <2>4. f = "receipt_bytes" => v \in Receipt \cup {Other, NoBytes}
    <3> SUFFICES ASSUME f = "receipt_bytes" PROVE v \in Receipt \cup {Other, NoBytes}
      OBVIOUS
    <3>1. Values(f) = {chats[k].bundle[f] : k \in DOMAIN chats} \cup {Other, NoBytes}
      BY DEF Values
    <3>2. \A k \in DOMAIN chats : chats[k].bundle[f] \in Receipt \cup {Other, NoBytes}
      BY SentType
    <3> QED
      BY <3>1, <3>2
  <2> DEFINE d == [copies[i] EXCEPT ![f] = v]
  <2>5. Near(d, chats[i].bundle, tampers + 1)
    BY <1>0, <2>3, <2>4, TamperedNear
  <2>6. \A k \in DOMAIN copies : k # i => Near(copies[k], chats[k].bundle, tampers + 1)
    BY <1>0, <2>3, MoreEdits
  <2> HIDE DEF d
  <2>7. \A k \in DOMAIN copies' : copies'[k] = IF k = i THEN d ELSE copies[k]
    BY <2>2 DEF d
  <2>8. DOMAIN copies' = DOMAIN copies
    BY <1>0, <2>1
  <2> QED
    BY <2>1, <2>5, <2>6, <2>7, <2>8
<1>4. ASSUME NEW i \in DOMAIN copies, NEW j \in DOMAIN copies, NEW section \in Section,
             Splice(i, j, section)
      PROVE  FALSE
  BY <1>0, <1>4 DEF Splice
<1>5. CASE UNCHANGED <<copies, chats, tampers, splices>> /\ (report' = report \/ report' = NoReport)
  BY <1>5 DEF EditInv
<1>6. ASSUME NEW p \in Provider \cup {Other}, NEW m \in ModelId \cup {Other},
             NEW s \in Sampling \cup {Other}, NEW n \in MaxTokensAsked,
             CreateQuote(p, m, s, n)
      PROVE  UNCHANGED <<copies, chats, tampers, splices>> /\ report' = NoReport
  BY <1>6 DEF CreateQuote, bounds
<1>7. CASE Tick
  BY <1>5, <1>7 DEF Tick, bounds
<1>8. CASE Restart
  BY <1>5, <1>8 DEF Restart
<1>9. CASE UNCHANGED vars
  BY <1>5, <1>9 DEF vars, bounds
<1> QED
  BY <1>1, <1>2, <1>3, <1>4, <1>5, <1>6, <1>7, <1>8, <1>9 DEF Next

-----------------------------------------------------------------------------
\* Inv holds at the start.
LEMMA InitInv == Init => Inv
<1> SUFFICES ASSUME Init PROVE Inv
  OBVIOUS
<1>1. TypeOK
  BY TypeInit
<1>2. ChatHonoursQuote /\ ReportInv /\ SpliceInv /\ EditInv
  BY DEF Init, ChatHonoursQuote, ReportInv, SpliceInv, EditInv
<1> QED
  BY <1>1, <1>2 DEF Inv

\* Inv is an invariant of the broker.
THEOREM Invariance == Spec => []Inv
<1>1. Inv /\ [Next]_vars => Inv'
  BY TypeStep, ReportStep, ChatsStep, SpliceStep, EditStep DEF Inv
<1> QED
  BY InitInv, <1>1, PTL DEF Spec

\* Every variable holds a value the broker can give it.
THEOREM TypeCorrectness == Spec => []TypeOK
<1>1. Inv => TypeOK
  BY DEF Inv
<1> QED
  BY Invariance, <1>1, PTL

\* The bundle of a chat honours the quote its buyer holds in all but the decode
\* policy, which it owes to the latest quote issued under the same id.
THEOREM ChatsHonourQuotes == Spec => []ChatHonoursQuote
<1>1. Inv => ChatHonoursQuote
  BY DEF Inv
<1> QED
  BY Invariance, <1>1, PTL

-----------------------------------------------------------------------------
\* verify answers a bundle that chat put together with a pass exactly when its
\* provider issues receipts and its quote has not expired.
LEMMA HonestBundlePasses ==
    ASSUME NEW p \in Provider, NEW policy \in Policy, NEW t \in Nat,
           NEW prompt \in Prompt, NEW b, NEW at \in Nat,
           \A f \in Field : b[f] = ProofBundle(Quote(p, policy, t), prompt)[f]
    PROVE  FailingField(b, at) = "none" <=> Catalog[p].receipts /\ at < t + Lifetime
<1> DEFINE q == Quote(p, policy, t)
           c == Catalog[p]
           r == ReceiptMaterial(q, prompt)
<1>1. c \in CatalogEntry
  BY BrokerConstants
<1>2. /\ q.quote_id = <<p, t>> /\ q.provider_id = p /\ q.decode_policy = policy
      /\ q.key_hash = c.key_hash /\ q.expires = t + Lifetime
      /\ q.model_id = c.model_id /\ q.checkpoint_hash = c.checkpoint_hash
      /\ q.commitllm_pin = c.commitllm_pin
  BY DEF Quote, QuoteId
<1> HIDE DEF q
<1>3. /\ r.request_id = <<<<p, t>>, prompt>>
      /\ r.model_id = c.model_id /\ r.prompt_hash = prompt
      /\ r.answer_hash = AnswerFor(p) /\ r.decode_policy_hash = policy
      /\ r.commitllm_pin = c.commitllm_pin
  BY <1>2 DEF ReceiptMaterial, RequestId
<1>4. r \in Receipt
  <2>1. <<<<p, t>>, prompt>> \in (Provider \X Nat) \X STRING
    BY BrokerConstants
  <2>2. AnswerFor(p) \in {AnswerFor(x) : x \in Provider}
    OBVIOUS
  <2>3. c.model_id \in STRING /\ c.commitllm_pin \in STRING /\ prompt \in STRING
    BY <1>1, BrokerConstants DEF CatalogEntry
  <2> QED
    BY <2>1, <2>2, <2>3, <1>2 DEF Receipt, ReceiptMaterial, RequestId, r
<1>5. Decodable(r)
  BY <1>4, NotAReceipt DEF Decodable
<1> HIDE DEF r
<1>6. /\ b.quote_provider_id = p
      /\ b.quote_model_id = c.model_id
      /\ b.quote_checkpoint_hash = c.checkpoint_hash
      /\ b.quote_commitllm_pin = c.commitllm_pin
      /\ b.quote_key_hash = c.key_hash
      /\ b.quote_decode_policy_hash = policy
      /\ b.quote_expires_unix_ms = t + Lifetime
      /\ b.request_prompt_hash = prompt
      /\ b.response_answer_hash = AnswerFor(p)
      /\ b.verifier_key_hash = c.key_hash
      /\ b.verifier_commitllm_pin = c.commitllm_pin
      /\ b.receipt_encoding = IF c.receipts THEN "base64" ELSE "missing"
      /\ c.receipts => b.receipt_bytes = r /\ b.receipt_sha256 = r
  BY <1>2 DEF ProofBundle, Field, q, r
<1>7. ReceiptMismatch(b, r) = "none"
  BY <1>3, <1>6 DEF ReceiptMismatch
<1>8. /\ ~KeyMismatch(b, c) /\ ~PinMismatch(b, c)
      /\ Expired(b.quote_expires_unix_ms, at) <=> ~(at < t + Lifetime)
  BY <1>6, BrokerConstants DEF KeyMismatch, PinMismatch, Expired
<1> HIDE DEF c
<1>9. CASE c.receipts
  BY <1>5, <1>6, <1>7, <1>8, <1>9 DEF FailingField, c
<1>10. CASE ~c.receipts
  BY <1>6, <1>8, <1>10 DEF FailingField, c
<1> QED
  BY <1>9, <1>10 DEF c

\* The verdict on a bundle that arrives as it was sent is the one its buyer can
\* foretell from the quote it holds.
THEOREM HonestBundles == Spec => []HonestBundleVerdict
<1>1. ASSUME Inv PROVE HonestBundleVerdict
  <2> SUFFICES ASSUME report # NoReport, Edited = {}
               PROVE  LET q == chats[report.original].held IN
                      report.overall = "pass"
                        <=> Catalog[q.provider_id].receipts /\ report.at < q.quote_id[2] + Lifetime
    BY DEF HonestBundleVerdict
  <2> DEFINE chat == chats[report.original]
             held == chat.held
  <2>1. /\ report.original \in DOMAIN chats
        /\ report.overall =
              IF FailingField(report.bundle, report.at) = "none" THEN "pass" ELSE "fail"
        /\ report.at \in Nat
    BY <1>1, BrokerConstants DEF Inv, ReportInv
  <2>2. chat \in ServedChat
    BY <1>1, <2>1 DEF Inv, TypeOK
  <2>3. PICK q \in issued, prompt \in Prompt : chat.bundle = ProofBundle(q, prompt)
    BY <2>2 DEF ServedChat
  <2>4. /\ chat.bundle.quote_provider_id = held.provider_id
        /\ chat.bundle.quote_expires_unix_ms = held.expires
    BY <1>1, <2>1 DEF Inv, ChatHonoursQuote
  <2>5. held \in issued
    BY <2>2 DEF ServedChat
  <2> HIDE DEF chat
  <2>6. chat.bundle.quote_provider_id = q.provider_id /\ chat.bundle.quote_expires_unix_ms = q.expires
    BY <2>3 DEF ProofBundle
  <2>7. \A x \in issued : /\ x.provider_id \in Provider /\ x.decode_policy \in Policy
                          /\ x.quote_id[2] \in Nat
                          /\ x = Quote(x.provider_id, x.decode_policy, x.quote_id[2])
                          /\ x.expires = x.quote_id[2] + Lifetime
    BY <1>1, QuoteFields, BrokerConstants, SMTT(30) DEF Inv, TypeOK
  <2>8. q.provider_id = held.provider_id /\ q.quote_id[2] = held.quote_id[2]
    <3> HIDE DEF held
    <3>1. /\ q.quote_id[2] \in Nat /\ q.expires = q.quote_id[2] + Lifetime
          /\ held.quote_id[2] \in Nat /\ held.expires = held.quote_id[2] + Lifetime
      BY <2>5, <2>7
    <3>2. q.expires = held.expires /\ q.provider_id = held.provider_id
      BY <2>4, <2>6
    <3> QED
      BY <3>1, <3>2, BrokerConstants
  <2>9. \A f \in Field : report.bundle[f] = chat.bundle[f]
    BY DEF Edited, chat
  <2>10. \A f \in Field : report.bundle[f] =
            ProofBundle(Quote(q.provider_id, q.decode_policy, q.quote_id[2]), prompt)[f]
    BY <2>3, <2>7, <2>9
  <2>11. FailingField(report.bundle, report.at) = "none"
            <=> Catalog[q.provider_id].receipts /\ report.at < q.quote_id[2] + Lifetime
    BY <2>1, <2>7, <2>10, HonestBundlePasses
  <2> QED
    BY <2>1, <2>8, <2>11 DEF chat
<1> QED
  BY Invariance, <1>1, PTL

-----------------------------------------------------------------------------
\* A pass means that the receipt decodes and agrees with the bundle.
LEMMA PassFacts ==
    ASSUME NEW b, NEW at, FailingField(b, at) = "none"
    PROVE  /\ b.receipt_encoding # "missing"
           /\ Decodable(b.receipt_bytes)
           /\ b.receipt_bytes.model_id = b.quote_model_id
           /\ b.receipt_bytes.decode_policy_hash = b.quote_decode_policy_hash
           /\ b.receipt_bytes.prompt_hash = b.request_prompt_hash
           /\ b.receipt_bytes.answer_hash = b.response_answer_hash
           /\ b.receipt_bytes.commitllm_pin = b.quote_commitllm_pin
<1>1. /\ b.receipt_encoding # "missing"
      /\ Decodable(b.receipt_bytes)
      /\ ReceiptMismatch(b, b.receipt_bytes) = "none"
  BY DEF FailingField
<1> QED
  BY <1>1 DEF ReceiptMismatch

\* A pass is about one chat, whichever honest bundles its objects come from.
THEOREM PassesAreOneChat == Spec => []PassIsOneChat
<1>1. ASSUME Inv PROVE PassIsOneChat
  <2> SUFFICES ASSUME report # NoReport, report.overall = "pass", tampers = 0
               PROVE  \E i \in DOMAIN chats :
                        LET b == chats[i].bundle IN
                        /\ Catalog[b.quote_provider_id].receipts
                        /\ report.bundle.quote_model_id = b.quote_model_id
                        /\ report.bundle.quote_commitllm_pin = b.quote_commitllm_pin
                        /\ report.bundle.quote_decode_policy_hash = b.quote_decode_policy_hash
                        /\ report.bundle.request_prompt_hash = b.request_prompt_hash
                        /\ report.bundle.response_answer_hash = b.response_answer_hash
    BY DEF PassIsOneChat
  <2> DEFINE d == report.bundle
             s == {"receipt_encoding", "receipt_bytes", "receipt_sha256"}
  <2>1. FailingField(d, report.at) = "none"
    BY <1>1 DEF Inv, ReportInv
  <2>2. FromChats(d)
    BY <1>1 DEF Inv, SpliceInv
  <2>3. s \in Section
    BY DEF Section
  <2>4. PICK i \in DOMAIN chats : \A f \in s : d[f] = chats[i].bundle[f]
    BY <2>2, <2>3 DEF FromChats
  <2>5. chats[i] \in ServedChat
    BY <1>1, <2>4 DEF Inv, TypeOK
  <2>6. PICK q \in issued, prompt \in Prompt : chats[i].bundle = ProofBundle(q, prompt)
    BY <2>5 DEF ServedChat
  <2> DEFINE b == chats[i].bundle
             r == ReceiptMaterial(q, prompt)
  <2>7. d.receipt_encoding = b.receipt_encoding /\ d.receipt_bytes = b.receipt_bytes
    BY <2>4
  <2>8. /\ q.model_id = Catalog[q.provider_id].model_id
        /\ q.commitllm_pin = Catalog[q.provider_id].commitllm_pin
    <3>1. q = Quote(q.provider_id, q.decode_policy, q.quote_id[2])
      BY <1>1, <2>6 DEF Inv, TypeOK
    <3> QED
      BY <3>1 DEF Quote
  <2>9. /\ b.quote_provider_id = q.provider_id
        /\ b.quote_model_id = q.model_id
        /\ b.quote_commitllm_pin = q.commitllm_pin
        /\ b.quote_decode_policy_hash = q.decode_policy
        /\ b.request_prompt_hash = prompt
        /\ b.response_answer_hash = AnswerFor(q.provider_id)
        /\ b.receipt_encoding = IF Catalog[q.provider_id].receipts THEN "base64" ELSE "missing"
        /\ Catalog[q.provider_id].receipts => b.receipt_bytes = r
    BY <2>6 DEF ProofBundle
  <2>10. /\ r.model_id = Catalog[q.provider_id].model_id
         /\ r.prompt_hash = prompt
         /\ r.answer_hash = AnswerFor(q.provider_id)
         /\ r.decode_policy_hash = q.decode_policy
         /\ r.commitllm_pin = Catalog[q.provider_id].commitllm_pin
    BY DEF ReceiptMaterial
  <2> HIDE DEF r, b, d, s
  <2>11. /\ d.receipt_encoding # "missing"
         /\ d.receipt_bytes.model_id = d.quote_model_id
         /\ d.receipt_bytes.decode_policy_hash = d.quote_decode_policy_hash
         /\ d.receipt_bytes.prompt_hash = d.request_prompt_hash
         /\ d.receipt_bytes.answer_hash = d.response_answer_hash
         /\ d.receipt_bytes.commitllm_pin = d.quote_commitllm_pin
    BY <2>1, PassFacts
  <2>12. Catalog[q.provider_id].receipts /\ d.receipt_bytes = r
    BY <2>7, <2>9, <2>11
  <2>13. /\ Catalog[b.quote_provider_id].receipts
         /\ d.quote_model_id = b.quote_model_id
         /\ d.quote_commitllm_pin = b.quote_commitllm_pin
         /\ d.quote_decode_policy_hash = b.quote_decode_policy_hash
         /\ d.request_prompt_hash = b.request_prompt_hash
         /\ d.response_answer_hash = b.response_answer_hash
    BY <2>8, <2>9, <2>10, <2>11, <2>12
  <2> QED
    BY <2>4, <2>13 DEF b, d
<1> QED
  BY Invariance, <1>1, PTL

-----------------------------------------------------------------------------
\* What a pass says of the fields of a bundle.
LEMMA PassChecks ==
    ASSUME NEW b, NEW at, FailingField(b, at) = "none"
    PROVE  LET p == Catalog[b.quote_provider_id] IN
           /\ b.quote_provider_id \in Provider
           /\ b.quote_checkpoint_hash = p.checkpoint_hash
           /\ b.quote_commitllm_pin = p.commitllm_pin /\ b.verifier_commitllm_pin = p.commitllm_pin
           /\ b.verifier_key_hash = p.key_hash /\ b.quote_key_hash = p.key_hash
           /\ b.receipt_sha256 = b.receipt_bytes
  BY Zenon DEF FailingField, PinMismatch, KeyMismatch

\* Two changes of a bundle do not make it pass, unless they are the bytes and the
\* digest of its receipt or fields that nothing binds.
LEMMA TwoEdits ==
    ASSUME NEW p \in Provider, NEW policy \in Policy, NEW t \in Nat, NEW prompt \in Prompt,
           NEW b, NEW c, c = ProofBundle(Quote(p, policy, t), prompt), NEW at,
           FailingField(b, at) = "none", b.receipt_bytes \in Receipt \cup {Other, NoBytes},
           NEW f \in Field, NEW g \in Field, Edits(b, c) \subseteq {f, g}
    PROVE  /\ Edits(b, c) \cap BoundFields = {}
           /\ "receipt_bytes" \in Edits(b, c) <=> "receipt_sha256" \in Edits(b, c)
<1> DEFINE o == Catalog[p]
           n == Catalog[b.quote_provider_id]
           q == Quote(p, policy, t)
           r == ReceiptMaterial(q, prompt)
           E(h) == h \in {f, g}
<1>1. /\ q.provider_id = p /\ q.decode_policy = policy /\ q.model_id = o.model_id
      /\ q.checkpoint_hash = o.checkpoint_hash /\ q.commitllm_pin = o.commitllm_pin
      /\ q.key_hash = o.key_hash
  BY DEF Quote
<1> HIDE DEF q
<1>2. /\ c.quote_provider_id = p /\ c.quote_model_id = o.model_id
      /\ c.quote_checkpoint_hash = o.checkpoint_hash /\ c.quote_commitllm_pin = o.commitllm_pin
      /\ c.quote_key_hash = o.key_hash /\ c.quote_decode_policy_hash = policy
      /\ c.request_prompt_hash = prompt /\ c.response_answer_hash = AnswerFor(p)
      /\ c.verifier_key_hash = o.key_hash /\ c.verifier_commitllm_pin = o.commitllm_pin
      /\ c.receipt_encoding = IF o.receipts THEN "base64" ELSE "missing"
      /\ c.receipt_bytes = IF o.receipts THEN r ELSE NoBytes
      /\ c.receipt_sha256 = IF o.receipts THEN r ELSE Zeros
  BY <1>1 DEF ProofBundle, q
<1>3. /\ r.model_id = o.model_id /\ r.prompt_hash = prompt /\ r.answer_hash = AnswerFor(p)
      /\ r.decode_policy_hash = policy /\ r.commitllm_pin = o.commitllm_pin
  BY <1>1 DEF ReceiptMaterial
<1> HIDE DEF r
<1>4. /\ b.quote_provider_id \in Provider
      /\ b.quote_checkpoint_hash = n.checkpoint_hash
      /\ b.quote_commitllm_pin = n.commitllm_pin /\ b.verifier_commitllm_pin = n.commitllm_pin
      /\ b.verifier_key_hash = n.key_hash /\ b.quote_key_hash = n.key_hash
      /\ b.receipt_sha256 = b.receipt_bytes
  BY PassChecks
<1>5. /\ b.receipt_encoding # "missing" /\ Decodable(b.receipt_bytes)
      /\ b.receipt_bytes.model_id = b.quote_model_id
      /\ b.receipt_bytes.decode_policy_hash = b.quote_decode_policy_hash
      /\ b.receipt_bytes.prompt_hash = b.request_prompt_hash
      /\ b.receipt_bytes.answer_hash = b.response_answer_hash
      /\ b.receipt_bytes.commitllm_pin = b.quote_commitllm_pin
  BY PassFacts
<1>6. b.receipt_bytes \in Receipt /\ b.receipt_bytes \notin {Other, NoBytes, Zeros}
  BY <1>5, NotAReceipt DEF Decodable
<1>7. n.key_hash = o.key_hash => n.checkpoint_hash = o.checkpoint_hash
  BY <1>4, KeysNameCheckpoints
<1> HIDE DEF o, n
<1>8. \A h \in Field : ~E(h) => b[h] = c[h]
  BY DEF Edits
<1>9. /\ ~E("quote_provider_id") => n = o
      /\ ~E("quote_model_id") => b.quote_model_id = c.quote_model_id
      /\ ~E("quote_checkpoint_hash") => b.quote_checkpoint_hash = c.quote_checkpoint_hash
      /\ ~E("quote_commitllm_pin") => b.quote_commitllm_pin = c.quote_commitllm_pin
      /\ ~E("quote_key_hash") => b.quote_key_hash = c.quote_key_hash
      /\ ~E("quote_decode_policy_hash") => b.quote_decode_policy_hash = c.quote_decode_policy_hash
      /\ ~E("request_prompt_hash") => b.request_prompt_hash = c.request_prompt_hash
      /\ ~E("response_answer_hash") => b.response_answer_hash = c.response_answer_hash
      /\ ~E("verifier_key_hash") => b.verifier_key_hash = c.verifier_key_hash
      /\ ~E("verifier_commitllm_pin") => b.verifier_commitllm_pin = c.verifier_commitllm_pin
      /\ ~E("receipt_encoding") => b.receipt_encoding = c.receipt_encoding
      /\ ~E("receipt_bytes") => b.receipt_bytes = c.receipt_bytes
      /\ ~E("receipt_sha256") => b.receipt_sha256 = c.receipt_sha256
  BY <1>2, <1>8 DEF Field, n, o
<1>10. \A h, k, l : h # k /\ k # l /\ h # l => ~(E(h) /\ E(k) /\ E(l))
  OBVIOUS
<1> HIDE DEF E
<1>11. o.receipts
  <2> SUFFICES ASSUME ~o.receipts PROVE FALSE
    OBVIOUS
  <2>1. E("receipt_encoding") /\ E("receipt_bytes") /\ E("receipt_sha256")
    BY <1>2, <1>4, <1>5, <1>6, <1>9
  <2> QED
    BY <1>10, <2>1
<1>12. b.receipt_bytes = r <=> b.receipt_sha256 = r
  BY <1>4
<1>13. /\ b.quote_model_id = o.model_id /\ b.quote_decode_policy_hash = policy
       /\ b.request_prompt_hash = prompt /\ b.response_answer_hash = AnswerFor(p)
       /\ b.quote_commitllm_pin = o.commitllm_pin /\ b.verifier_commitllm_pin = o.commitllm_pin
       /\ b.verifier_key_hash = o.key_hash /\ b.quote_key_hash = o.key_hash
       /\ b.quote_checkpoint_hash = o.checkpoint_hash
  <2>1. CASE b.receipt_bytes = r
    <3>1. /\ b.quote_model_id = o.model_id /\ b.quote_decode_policy_hash = policy
          /\ b.request_prompt_hash = prompt /\ b.response_answer_hash = AnswerFor(p)
          /\ b.quote_commitllm_pin = o.commitllm_pin /\ b.verifier_commitllm_pin = o.commitllm_pin
      BY <1>3, <1>4, <1>5, <2>1
    <3>2. n.key_hash = o.key_hash
      <4> SUFFICES ASSUME n.key_hash # o.key_hash PROVE FALSE
        OBVIOUS
      <4>1. E("quote_key_hash") /\ E("verifier_key_hash") /\ E("quote_provider_id")
        BY <1>2, <1>4, <1>9
      <4> QED
        BY <1>10, <4>1
    <3> QED
      BY <1>4, <1>7, <3>1, <3>2
  <2>2. CASE b.receipt_bytes # r
    <3>1. E("receipt_bytes") /\ E("receipt_sha256")
      BY <1>2, <1>9, <1>11, <1>12, <2>2
    <3>2. \A h \in Field \ {"receipt_bytes", "receipt_sha256"} : ~E(h)
      BY <1>10, <3>1
    <3>3. n = o
      BY <1>9, <3>2 DEF Field
    <3> QED
      BY <1>2, <1>4, <1>9, <3>2, <3>3 DEF Field
  <2> QED
    BY <2>1, <2>2
<1>14. \A h \in BoundFields : b[h] = c[h]
  BY <1>2, <1>13 DEF BoundFields
<1>15. b["receipt_bytes"] = c["receipt_bytes"] <=> b["receipt_sha256"] = c["receipt_sha256"]
  BY <1>2, <1>11, <1>12
<1>16. {"receipt_bytes", "receipt_sha256"} \subseteq Field
  BY DEF Field
<1> QED
  BY <1>14, <1>15, <1>16 DEF Edits

\* TamperFails: nobody who changes two fields of a bundle at most gets a pass for
\* anything but what was sent, in the fields the receipt or the catalog binds.
THEOREM TampersFail == Spec => []TamperFails
<1>1. ASSUME Inv PROVE TamperFails
  <2> SUFFICES ASSUME report # NoReport, report.overall = "pass", splices = 0, tampers <= 2
               PROVE  /\ Edited \cap BoundFields = {}
                      /\ "receipt_bytes" \in Edited <=> "receipt_sha256" \in Edited
    BY DEF TamperFails
  <2> DEFINE b == report.bundle
             c == chats[report.original].bundle
  <2>1. report.original \in DOMAIN chats /\ FailingField(b, report.at) = "none"
    BY <1>1 DEF Inv, ReportInv
  <2>2. Near(b, c, tampers)
    BY <1>1 DEF Inv, EditInv
  <2>3. PICK q \in issued, prompt \in Prompt :
            /\ c = ProofBundle(Quote(q.provider_id, q.decode_policy, q.quote_id[2]), prompt)
            /\ q.provider_id \in Provider /\ q.decode_policy \in Policy /\ q.quote_id[2] \in Nat
    BY <1>1, <2>1, SentType DEF Inv
  <2>4. Edited = Edits(b, c)
    BY DEF Edited, Edits
  <2> HIDE DEF b, c
  <2>5. PICK f \in Field, g \in Field : Edits(b, c) \subseteq {f, g}
    <3>1. tampers \in {0, 1, 2}
      BY <1>1, BrokerConstants DEF Inv, TypeOK
    <3>2. AtMost(tampers, Edits(b, c)) /\ "receipt_bytes" \in Field
      BY <2>2 DEF Near, Field
    <3> QED
      BY <3>1, <3>2 DEF AtMost
  <2>6. /\ Edits(b, c) \cap BoundFields = {}
        /\ "receipt_bytes" \in Edits(b, c) <=> "receipt_sha256" \in Edits(b, c)
    <3>1. b.receipt_bytes \in Receipt \cup {Other, NoBytes}
      BY <2>2 DEF Near
    <3> QED
      BY <2>1, <2>3, <2>5, <3>1, TwoEdits
  <2> QED
    BY <2>4, <2>6
<1> QED
  BY Invariance, <1>1, PTL

-----------------------------------------------------------------------------
\* A step replaces a stored quote only by one of the same millisecond, or loses
\* it with the process.
LEMMA SettledStep ==
    TypeOK /\ [Next]_vars =>
      \A id \in DOMAIN quotes :
          \/ restarts' # restarts
          \/ quotes[id].expires = now + Lifetime
          \/ id \in DOMAIN quotes' /\ quotes'[id] = quotes[id]
<1> SUFFICES ASSUME TypeOK, [Next]_vars, NEW id \in DOMAIN quotes
             PROVE  \/ restarts' # restarts
                    \/ quotes[id].expires = now + Lifetime
                    \/ id \in DOMAIN quotes' /\ quotes'[id] = quotes[id]
  OBVIOUS
<1>1. ASSUME NEW p \in Provider \cup {Other}, NEW m \in ModelId \cup {Other},
             NEW s \in Sampling \cup {Other}, NEW n \in MaxTokensAsked,
             CreateQuote(p, m, s, n), UNCHANGED quotes => FALSE
      PROVE  \/ quotes[id].expires = now + Lifetime
             \/ id \in DOMAIN quotes' /\ quotes'[id] = quotes[id]
  <2> DEFINE q == Quote(p, NormalizeDecodePolicy(s, n), now)
  <2>1. quotes' = Stored(q)
    BY <1>1 DEF CreateQuote
  <2>2. q.quote_id = <<p, now>>
    BY QuoteFields
  <2> HIDE DEF q
  <2>3. CASE id # q.quote_id
    BY <2>1, <2>3 DEF Stored
  <2>4. CASE id = q.quote_id
    <3> DEFINE r == quotes[id]
    <3>1. r = Quote(r.provider_id, r.decode_policy, r.quote_id[2]) /\ r.quote_id = id
      BY DEF TypeOK
    <3> HIDE DEF r
    <3>2. r.expires = r.quote_id[2] + Lifetime
      BY <3>1, QuoteFields
    <3>3. r.quote_id[2] = now
      BY <3>1, <2>2, <2>4
    <3> QED
      BY <3>2, <3>3 DEF r
  <2> QED
    BY <2>3, <2>4
<1>2. CASE UNCHANGED quotes
  BY <1>2
<1>3. ASSUME NEW held \in issued, NEW prompt \in Prompt \cup {Blank}, Chat(held, prompt)
      PROVE  UNCHANGED quotes
  BY <1>3 DEF Chat
<1>4. CASE Restart
  BY <1>4 DEF Restart, TypeOK
<1>5. CASE \/ \E i \in DOMAIN copies : Verify(i)
           \/ \E i \in DOMAIN copies, f \in Field : Tamper(i, f)
           \/ \E i, j \in DOMAIN copies, section \in Section : Splice(i, j, section)
           \/ Tick \/ UNCHANGED vars
  BY <1>2, <1>5 DEF Verify, Tamper, Splice, Tick, vars
<1> QED
  BY <1>1, <1>2, <1>3, <1>4, <1>5 DEF Next

\* A stored quote keeps its content once its millisecond is over.
THEOREM StoredQuotesSettle == Spec => StoredQuoteIsSettled
<1>1. Inv /\ [Next]_vars =>
        [ \A id \in DOMAIN quotes :
            \/ restarts' # restarts
            \/ quotes[id].expires = now + Lifetime
            \/ id \in DOMAIN quotes' /\ quotes'[id] = quotes[id] ]_vars
  BY SettledStep DEF Inv
<1> QED
  BY Invariance, <1>1, PTL DEF Spec, StoredQuoteIsSettled
=============================================================================
