------------------------------ MODULE Artifacts ------------------------------
(***************************************************************************)
(* The binary artifacts of vi-receipt as the programs that read them see   *)
(* them: VIKY verifier keys, VIRC receipts and VIAU audit openings.        *)
(*                                                                         *)
(* A file is a record of what decoding it yields.  Two files are the same  *)
(* value exactly when they have the same bytes, so a file stands for its   *)
(* own SHA-256, and `receipt.key_hash = key` reads "the receipt's key_hash *)
(* is the hash of this key file".                                          *)
(***************************************************************************)
EXTENDS Integers, Sequences

CONSTANTS
    Identity,       \* identities an artifact may carry
    Challenge,      \* challenge tuples: a token index and layer indices
    WideChallenge,  \* those whose u64 token index does not fit in a u32
    KeyFile, ReceiptFile, AuditFile,   \* the file contents that exist
    NoFile          \* no such file, or not read

\* The names parse_audit_tier accepts (its aliases of receipt-only are one).
Tier == {"receipt-only", "routine", "deep", "full"}

\* The project phases, in the order of VERIFY_PHASES.
VerifyPhases ==
    << "embedding_merkle", "shell_freivalds", "bridge_replay",
       "attention_corridor", "kv_provenance", "lm_head", "decode_policy" >>

Phase == {VerifyPhases[i] : i \in 1..7}

\* The outcome of Envelope::decode and of the binding-header decoder: "ok" or
\* the category of the error they return.
Form == {"ok", "corrupt_envelope", "unknown_version"}

\* An audit header also holds a tier byte, which AuditTier::try_from may refuse.
AuditForm == Form \cup {"unsupported_tier"}

\* Whether the opaque CommitLLM bytes after the binding header deserialize.
Payload == {"ok", "malformed"}

IdentityFields ==
    [model_id : STRING, checkpoint_hash : STRING, commitllm_pin : STRING]

Key == [form : Form, identity : Identity, seed : Nat, payload : Payload]

\* `failures`: the phases of the failures the upstream verifier reports for
\* this payload, in its report order; empty when every check passes.
Receipt ==
    [form : Form, identity : Identity, key_hash : KeyFile,
     payload : Payload, failures : Seq(Phase)]

\* `opened`: the token and layers the payload really opens.
Audit ==
    [form : AuditForm, receipt_hash : ReceiptFile, tier : Tier, challenge : Challenge,
     payload : Payload, opened : Challenge, failures : Seq(Phase)]

ASSUME ConstantTypes ==
    /\ Identity \subseteq IdentityFields
    /\ WideChallenge \subseteq Challenge
    /\ KeyFile \subseteq Key
    /\ ReceiptFile \subseteq Receipt
    /\ AuditFile \subseteq Audit

ASSUME NoFileIsNoFile == NoFile \notin KeyFile \cup ReceiptFile \cup AuditFile

-----------------------------------------------------------------------------
\* The checks vi-receipt and vi-verifier make on decoded headers.

\* Mutant: the pin is left out of the comparison.
CheckReceiptModel(key, receipt) ==
    /\ receipt.identity.model_id = key.identity.model_id
    /\ receipt.identity.checkpoint_hash = key.identity.checkpoint_hash

CheckReceiptIdentity(key, receipt) == receipt.identity = key.identity

CheckReceiptKeyHash(key, receipt) == receipt.key_hash = key

CheckAuditReceiptHash(audit, receipt) == audit.receipt_hash = receipt

CheckAuditTier(audit, tier) == audit.tier = tier

TierRequiresAudit(tier) == tier \in {"deep", "full"}

\* verify_challenged_binary reports the payload's own failures, then one more
\* when what the payload opens is not the challenge it is checked against.
ChallengedFailures(audit, challenge) ==
    IF audit.opened = challenge
    THEN audit.failures
    ELSE Append(audit.failures, "attention_corridor")
=============================================================================
