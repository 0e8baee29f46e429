----------------------------- MODULE MCVerifier -----------------------------
(***************************************************************************)
(* Artifacts for the runs of Verifier.tla: at least one file for every     *)
(* outcome of every check, and pairs that differ in exactly one field.     *)
(***************************************************************************)
EXTENDS Verifier

CONSTANTS c0, c1, cWide

Id(model, pin) ==
    [model_id |-> model, checkpoint_hash |-> "ckpt", commitllm_pin |-> pin]

llama == Id("llama", "pinA")
llamaOldPin == Id("llama", "pinB")
qwen == Id("qwen", "pinA")

KeyOf(form, identity, seed, payload) ==
    [form |-> form, identity |-> identity, seed |-> seed, payload |-> payload]

good == KeyOf("ok", llama, 0, "ok")
reseeded == KeyOf("ok", llama, 1, "ok")
oldPin == KeyOf("ok", llamaOldPin, 0, "ok")
malformed == KeyOf("ok", llama, 0, "malformed")
torn == KeyOf("corrupt_envelope", llama, 0, "malformed")

ReceiptOf(form, identity, key_hash, payload, failures) ==
    [form |-> form, identity |-> identity, key_hash |-> key_hash,
     payload |-> payload, failures |-> failures]

honest == ReceiptOf("ok", llama, good, "ok", <<>>)

\* The receipts that differ from the honest one in one respect.
OtherReceipts ==
    { ReceiptOf("ok", llamaOldPin, good, "ok", <<>>),
      ReceiptOf("ok", qwen, good, "ok", <<>>),
      ReceiptOf("ok", llama, reseeded, "ok", <<>>),
      ReceiptOf("ok", llama, malformed, "ok", <<>>),
      ReceiptOf("ok", llama, good, "malformed", <<>>),
      ReceiptOf("ok", llama, good, "ok", <<"decode_policy", "embedding_merkle">>),
      ReceiptOf("unknown_version", llama, good, "ok", <<>>) }

AuditOf(form, receipt_hash, t, challenge, opened, payload, failures) ==
    [form |-> form, receipt_hash |-> receipt_hash, tier |-> t, challenge |-> challenge,
     opened |-> opened, payload |-> payload, failures |-> failures]

MCIdentity == {llama, llamaOldPin, qwen}
MCChallenge == {c0, c1, cWide}
MCWide == {cWide}

AllKeys == {good, reseeded, oldPin, malformed, torn}
AllReceipts == OtherReceipts \cup {honest}
AllAudits ==
    { AuditOf("ok", honest, "full", c0, c0, "ok", <<>>),
      AuditOf("ok", honest, "deep", c0, c0, "ok", <<>>),
      AuditOf("ok", honest, "full", c1, c1, "ok", <<>>),
      AuditOf("ok", honest, "full", c0, c1, "ok", <<>>),
      AuditOf("ok", honest, "full", c0, c0, "ok", <<"kv_provenance">>),
      AuditOf("ok", honest, "full", cWide, cWide, "ok", <<>>),
      AuditOf("ok", honest, "full", c0, c0, "malformed", <<>>),
      AuditOf("corrupt_envelope", honest, "full", c0, c0, "ok", <<>>),
      AuditOf("unsupported_tier", honest, "full", c0, c0, "ok", <<>>) }
    \cup {AuditOf("ok", r, "full", c0, c0, "ok", <<>>) : r \in OtherReceipts}
=============================================================================
