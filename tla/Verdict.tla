------------------------------- MODULE Verdict -------------------------------
(***************************************************************************)
(* What `vi verify` promises to a buyer, without its pipeline: the inputs  *)
(* of a run are loaded once, one decision is taken about the loaded        *)
(* inputs, and the decision is "accepted" exactly when they are acceptable.*)
(* An interrupted run decides nothing.  Verifier.tla is shown to implement *)
(* this specification.                                                     *)
(***************************************************************************)
EXTENDS Artifacts

VARIABLES
    tier,                    \* the tier asked for on the command line
    receipt, key, audit,     \* the inputs, as loaded
    outcome                  \* the decision the buyer sees

vars == <<tier, receipt, key, audit, outcome>>

-----------------------------------------------------------------------------
\* The receipt and the key belong together, field by field.
Bound(k, r) ==
    /\ k \in KeyFile /\ k.form = "ok"
    /\ r \in ReceiptFile /\ r.form = "ok"
    /\ r.identity.model_id = k.identity.model_id
    /\ r.identity.checkpoint_hash = k.identity.checkpoint_hash
    /\ r.identity.commitllm_pin = k.identity.commitllm_pin
    /\ r.key_hash = k

\* The opening was made for this receipt at this tier, and it opens, without
\* a failure, the challenge it declares.
Opens(a, r, t) ==
    /\ a \in AuditFile /\ a.form = "ok" /\ a.payload = "ok"
    /\ a.receipt_hash = r
    /\ a.tier = t
    /\ a.opened = a.challenge
    /\ a.challenge \notin WideChallenge
    /\ a.failures = <<>>

\* When a receipt is acceptable at a tier.
Acceptable(t, r, k, a) ==
    /\ Bound(k, r)
    /\ k.payload = "ok"
    /\ \/ t \in {"receipt-only", "routine"} /\ r.payload = "ok" /\ r.failures = <<>>
       \/ t \in {"deep", "full"} /\ Opens(a, r, t)

-----------------------------------------------------------------------------
Init ==
    /\ tier \in Tier \cup {"unknown"}
    /\ receipt = NoFile
    /\ key = NoFile
    /\ audit = NoFile
    /\ outcome = "undecided"

\* An input is loaded at most once, and only before the decision.
Load ==
    /\ outcome = "undecided"
    /\ \/ receipt = NoFile /\ receipt' \in ReceiptFile /\ UNCHANGED <<key, audit>>
       \/ key = NoFile /\ key' \in KeyFile /\ UNCHANGED <<receipt, audit>>
       \/ audit = NoFile /\ audit' \in AuditFile /\ UNCHANGED <<receipt, key>>
    /\ UNCHANGED <<tier, outcome>>

Decide ==
    /\ outcome = "undecided"
    /\ outcome' = IF Acceptable(tier, receipt, key, audit)
                  THEN "accepted" ELSE "rejected"
    /\ UNCHANGED <<tier, receipt, key, audit>>

Abort ==
    /\ outcome = "undecided"
    /\ outcome' = "aborted"
    /\ UNCHANGED <<tier, receipt, key, audit>>

Next == Load \/ Decide \/ Abort

Spec == Init /\ [][Next]_vars
=============================================================================
