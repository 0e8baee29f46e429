--------------------------- MODULE VerifierProofs ---------------------------
(***************************************************************************)
(* Proofs about Verifier.tla, for every set of artifacts: type             *)
(* correctness, the binding invariants, and that a run of `vi verify`      *)
(* implements the abstract promise of Verdict.tla.                         *)
(*                                                                         *)
(* The inductive invariant says, for each value of pc, which inputs are    *)
(* loaded and which checks they have passed.                               *)
(***************************************************************************)
EXTENDS Verifier, SequenceTheorems, TLAPS

\* The calls before the audit opening is loaded, and those that examine it.
BeforeRequest ==
    Setup \cup {"decode_key", "decode_receipt", "identity", "key_hash",
                "deserialize_key", "fetch"}
Opening == {"decode_audit", "audit_hash", "audit_tier", "challenge"}

\* The calls after the key and the receipt are bound to each other.
Binding == {"deserialize_key", "fetch", "await", "upstream"} \cup Opening

\* What is decided, logged and reported at each call.
PcInv ==
    /\ exit = Running <=> pc # "done"
    /\ pc \in Setup \cup Core => result = "none" /\ events = <<>>
    /\ pc \in {"events", "report", "exiting"} => result # "none"
    /\ pc = "events" => Len(events) < 14

\* What is loaded at each call.
LoadedInv ==
    /\ pc \in {"args", "read_receipt"} => receipt = NoFile
    /\ pc \in {"args", "read_receipt", "read_key"} => key = NoFile
    /\ pc \in BeforeRequest => request = <<>>
    /\ pc \in BeforeRequest \cup {"await"} => audit = NoFile
    /\ pc \in {"read_key", "provider"} \cup Core => receipt \in ReceiptFile
    /\ pc \in {"provider"} \cup Core => key \in KeyFile
    /\ pc \in Opening => audit \in AuditFile
    /\ pc \in (Setup \ {"args"}) \cup Core => tier \in Tier

\* What is checked at each call.
CheckedInv ==
    /\ pc \in {"decode_receipt", "identity", "key_hash"} => key.form = "ok"
    /\ pc \in {"identity", "key_hash"} => receipt.form = "ok"
    /\ pc = "key_hash" => receipt.identity = key.identity
    /\ pc \in Binding => V!Bound(key, receipt)
    /\ pc \in Binding \ {"deserialize_key"} => key.payload = "ok"
    /\ pc \in {"fetch", "await"} \cup Opening => TierRequiresAudit(tier)
    /\ pc \in {"audit_hash", "audit_tier", "challenge"} => audit.form = "ok"
    /\ pc \in {"audit_tier", "challenge"} => audit.receipt_hash = receipt
    /\ pc = "challenge" => audit.tier = tier
    /\ pc = "upstream" /\ TierRequiresAudit(tier) =>
          /\ audit \in AuditFile
          /\ audit.form = "ok" /\ audit.receipt_hash = receipt /\ audit.tier = tier
          /\ audit.challenge \notin WideChallenge

\* A result is the verdict on the loaded inputs.
VerdictInv == result # "none" => (result = "pass" <=> V!Acceptable(tier, receipt, key, audit))

Inv ==
    /\ TypeOK
    /\ PcInv
    /\ LoadedInv
    /\ CheckedInv
    /\ VerdictInv
    /\ AuditAskedForBoundReceipt

-----------------------------------------------------------------------------
\* A decoder returns "ok" or an error category.
LEMMA HeaderForms ==
    /\ \A k \in KeyFile : k.form \in Form
    /\ \A r \in ReceiptFile : r.form \in Form
    /\ \A a \in AuditFile : a.form \in AuditForm
  BY ConstantTypes DEF Key, Receipt, Audit

\* Identities that agree field by field are equal.
LEMMA IdentityByFields ==
    ASSUME NEW k \in KeyFile, NEW r \in ReceiptFile,
           r.identity.model_id = k.identity.model_id,
           r.identity.checkpoint_hash = k.identity.checkpoint_hash,
           r.identity.commitllm_pin = k.identity.commitllm_pin
    PROVE  r.identity = k.identity
<1>1. k.identity \in IdentityFields /\ r.identity \in IdentityFields
  BY ConstantTypes DEF Key, Receipt
<1>2. QED
  BY <1>1 DEF IdentityFields

\* A run exits with 0 on a pass only, and never with the status of SIGINT.
LEMMA ExitCodes ==
    \A c \in Category \cup {"pass"} :
        /\ ExitCode[c] \in {0, 1, 2, 3, 4, 6, 7, 8, 9}
        /\ ExitCode[c] = 0 <=> c = "pass"
  BY DEF ExitCode, Category

\* The walk is inside VERIFY_PHASES as long as fewer than 14 events are out.
LEMMA NextPhaseType == events \in Seq(PhaseEvent) /\ Len(events) < 14 => NextPhase \in Phase
<1> SUFFICES ASSUME events \in Seq(PhaseEvent), Len(events) < 14 PROVE NextPhase \in Phase
  OBVIOUS
<1>1. Len(events) \div 2 + 1 \in 1..7
  OBVIOUS
<1>2. QED
  BY <1>1 DEF NextPhase, Phase

\* The upstream verifier names phases of the project.
LEMMA UpstreamFailuresType ==
    ASSUME receipt \in ReceiptFile, TierRequiresAudit(tier) => audit \in AuditFile
    PROVE  UpstreamFailures \in Seq(Phase)
<1>1. "attention_corridor" \in Phase
  BY VerifyPhases[4] = "attention_corridor" DEF Phase, VerifyPhases
<1>2. CASE TierRequiresAudit(tier)
  <2>1. audit.failures \in Seq(Phase)
    BY <1>2, ConstantTypes DEF Audit
  <2>2. Append(audit.failures, "attention_corridor") \in Seq(Phase)
    BY <1>1, <2>1
  <2> QED
    BY <1>2, <2>1, <2>2 DEF UpstreamFailures, ChallengedFailures
<1>3. CASE ~TierRequiresAudit(tier)
  BY <1>3, ConstantTypes DEF UpstreamFailures, Receipt
<1>4. QED
  BY <1>2, <1>3

\* Every step of the run keeps the types of the variables.
LEMMA TypeStep == Inv /\ [Next]_vars => TypeOK'
<1> SUFFICES ASSUME Inv, [Next]_vars PROVE TypeOK'
  OBVIOUS
<1> USE ConstantTypes, RunConstants DEF Inv, TypeOK, PcInv, LoadedInv, Tier, PC, Setup,
    Core, Category, Form, AuditForm, Payload, Call, GoTo, Fail, vars, input, env,
    loaded, verdict, output
<1>1. CASE ParseArgs
  BY <1>1 DEF ParseArgs
<1>2. CASE ReadReceipt
  BY <1>2 DEF ReadReceipt
<1>3. CASE ReadKey
  BY <1>3 DEF ReadKey
<1>4. CASE BuildProvider
  BY <1>4 DEF BuildProvider
<1>5. CASE DecodeKey
  <2>1. key.form \in Form
    BY <1>5, HeaderForms DEF DecodeKey
  <2> QED
    BY <1>5, <2>1 DEF DecodeKey
<1>6. CASE DecodeReceipt
  <2>1. receipt.form \in Form
    BY <1>6, HeaderForms DEF DecodeReceipt
  <2> QED
    BY <1>6, <2>1 DEF DecodeReceipt
<1>7. CASE CheckIdentity
  BY <1>7 DEF CheckIdentity, CheckReceiptIdentity
<1>8. CASE CheckKeyHash
  BY <1>8 DEF CheckKeyHash, CheckReceiptKeyHash
<1>9. CASE DeserializeKey
  BY <1>9 DEF DeserializeKey
<1>10. CASE FetchAudit
  <2>1. pc = "fetch" /\ receipt \in ReceiptFile /\ tier \in Tier
    BY <1>10 DEF FetchAudit
  <2>2. AuditRequestToSend \in AuditRequest
    BY <2>1 DEF AuditRequestToSend, AuditRequest
  <2>3. request' \in Seq(AuditRequest)
    BY <1>10, <2>2 DEF FetchAudit
  <2> QED
    BY <1>10, <2>3 DEF FetchAudit
<1>11. CASE FetchFails
  BY <1>11 DEF FetchFails
<1>12. CASE DecodeAudit
  <2>1. audit.form \in AuditForm
    BY <1>12, HeaderForms DEF DecodeAudit, Opening
  <2> QED
    BY <1>12, <2>1 DEF DecodeAudit
<1>13. CASE CheckAuditHash
  BY <1>13 DEF CheckAuditHash, CheckAuditReceiptHash
<1>14. CASE CheckTier
  BY <1>14 DEF CheckTier, CheckAuditTier
<1>15. CASE DeriveChallenge
  BY <1>15 DEF DeriveChallenge
<1>16. CASE VerifyUpstream
  <2>1. failedPhase' \in Phase \cup {"none"}
    <3>1. CASE UpstreamFailures = <<>>
      BY <1>16, <3>1 DEF VerifyUpstream
    <3>2. CASE UpstreamFailures # <<>>
      <4>1. UpstreamFailures \in Seq(Phase)
        BY <1>16, UpstreamFailuresType DEF VerifyUpstream, CheckedInv
      <4> QED
        BY <1>16, <3>2, <4>1, EmptySeq DEF VerifyUpstream
    <3> QED
      BY <3>1, <3>2
  <2>2. result' \in Category \cup {"pass"} /\ pc' = "events"
    BY <1>16 DEF VerifyUpstream
  <2> QED
    BY <1>16, <2>1, <2>2 DEF VerifyUpstream
<1>17. CASE StartPhase
  <2>1. NextPhase \in Phase
    BY <1>17, NextPhaseType DEF StartPhase
  <2>2. events' \in Seq(PhaseEvent)
    BY <1>17, <2>1 DEF StartPhase, PhaseEvent
  <2> QED
    BY <1>17, <2>2 DEF StartPhase
<1>18. CASE EndPhase
  <2>1. NextPhase \in Phase
    BY <1>18, NextPhaseType DEF EndPhase
  <2>2. events' \in Seq(PhaseEvent)
    BY <1>18, <2>1 DEF EndPhase, PhaseEvent
  <2>3. pc' \in PC
    BY <1>18 DEF EndPhase
  <2> QED
    BY <1>18, <2>2, <2>3 DEF EndPhase
<1>19. CASE Report
  BY <1>19 DEF Report
<1>20. CASE Exit
  <2>1. exit' \in {0, 1, 2, 3, 4, 6, 7, 8, 9}
    BY <1>20, ExitCodes DEF Exit
  <2> QED
    BY <1>20, <2>1 DEF Exit
<1>21. CASE ProviderAnswers
  BY <1>21 DEF ProviderAnswers
<1>22. CASE Sigint
  BY <1>22 DEF Sigint
<1>23. CASE ReplaceFile
  BY <1>23 DEF ReplaceFile
<1>24. CASE UNCHANGED vars
  BY <1>24
<1>25. QED
  BY <1>1, <1>2, <1>3, <1>4, <1>5, <1>6, <1>7, <1>8, <1>9, <1>10, <1>11, <1>12, <1>13,
      <1>14, <1>15, <1>16, <1>17, <1>18, <1>19, <1>20, <1>21, <1>22, <1>23, <1>24 DEF
      Next, Program

\* Where the run stands decides what it has loaded, decided and printed: no
\* handler moves on before it has done its part.
LEMMA PcStep == Inv /\ [Next]_vars => PcInv'
<1> SUFFICES ASSUME Inv, [Next]_vars PROVE PcInv'
  OBVIOUS
<1> USE DEF Inv, TypeOK, PcInv, LoadedInv, Setup, Core, Category, Call, GoTo, Fail,
    vars, input, env, loaded, verdict, output
<1>1. CASE ParseArgs
  BY <1>1 DEF ParseArgs
<1>2. CASE ReadReceipt
  BY <1>2 DEF ReadReceipt
<1>3. CASE ReadKey
  BY <1>3 DEF ReadKey
<1>4. CASE BuildProvider
  BY <1>4 DEF BuildProvider
<1>5. CASE DecodeKey
  <2>1. key.form \in Form
    BY <1>5, HeaderForms DEF DecodeKey, Opening
  <2> QED
    BY <1>5, <2>1 DEF DecodeKey, Form, AuditForm
<1>6. CASE DecodeReceipt
  <2>1. receipt.form \in Form
    BY <1>6, HeaderForms DEF DecodeReceipt, Opening
  <2> QED
    BY <1>6, <2>1 DEF DecodeReceipt, Form, AuditForm
<1>7. CASE CheckIdentity
  BY <1>7 DEF CheckIdentity, CheckReceiptIdentity
<1>8. CASE CheckKeyHash
  BY <1>8 DEF CheckKeyHash, CheckReceiptKeyHash
<1>9. CASE DeserializeKey
  BY <1>9 DEF DeserializeKey
<1>10. CASE FetchAudit
  BY <1>10 DEF FetchAudit, AuditRequestToSend, AuditRequest
<1>11. CASE FetchFails
  BY <1>11 DEF FetchFails
<1>12. CASE DecodeAudit
  <2>1. audit.form \in AuditForm
    BY <1>12, HeaderForms DEF DecodeAudit, Opening
  <2> QED
    BY <1>12, <2>1 DEF DecodeAudit, Form, AuditForm
<1>13. CASE CheckAuditHash
  BY <1>13 DEF CheckAuditHash, CheckAuditReceiptHash
<1>14. CASE CheckTier
  BY <1>14 DEF CheckTier, CheckAuditTier
<1>15. CASE DeriveChallenge
  BY <1>15 DEF DeriveChallenge
<1>16. CASE VerifyUpstream
  BY <1>16 DEF VerifyUpstream, UpstreamPayload, UpstreamFailures, ChallengedFailures
<1>17. CASE StartPhase
  <2>1. Len(events') = Len(events) + 1
    BY <1>17 DEF StartPhase
  <2> QED
    BY <1>17, <2>1 DEF StartPhase
<1>18. CASE EndPhase
  <2>1. Len(events') = Len(events) + 1
    BY <1>18 DEF EndPhase
  <2>2. pc' = "events" => Len(events') < 14
    BY <1>18, <2>1 DEF EndPhase, WalkEnds
  <2> QED
    BY <1>18, <2>2 DEF EndPhase
<1>19. CASE Report
  BY <1>19 DEF Report
<1>20. CASE Exit
  <2>1. exit' # Running
    BY <1>20, ExitCodes, SMTT(30) DEF Exit, Running
  <2> QED
    BY <1>20, <2>1 DEF Exit
<1>21. CASE ProviderAnswers
  BY <1>21 DEF ProviderAnswers
<1>22. CASE Sigint
  BY <1>22 DEF Sigint, SigintExit, Running
<1>23. CASE ReplaceFile
  BY <1>23 DEF ReplaceFile
<1>24. CASE UNCHANGED vars
  BY <1>24
<1>25. QED
  BY <1>1, <1>2, <1>3, <1>4, <1>5, <1>6, <1>7, <1>8, <1>9, <1>10, <1>11, <1>12, <1>13,
      <1>14, <1>15, <1>16, <1>17, <1>18, <1>19, <1>20, <1>21, <1>22, <1>23, <1>24 DEF
      Next, Program

\* What run_verification holds was decoded from a file that was there when it
\* was read, whatever the disk holds by now.
LEMMA LoadedStep == Inv /\ [Next]_vars => LoadedInv'
<1> SUFFICES ASSUME Inv, [Next]_vars PROVE LoadedInv'
  OBVIOUS
<1> USE ConstantTypes, NoFileIsNoFile DEF Inv, TypeOK, LoadedInv, CheckedInv, PcInv,
    Setup, Core, Binding, Opening, BeforeRequest, Call, GoTo, Fail, vars, input, env,
    loaded, verdict, output
<1>1. CASE ParseArgs
  BY <1>1 DEF ParseArgs
<1>2. CASE ReadReceipt
  BY <1>2 DEF ReadReceipt
<1>3. CASE ReadKey
  BY <1>3 DEF ReadKey
<1>4. CASE BuildProvider
  BY <1>4 DEF BuildProvider
<1>5. CASE DecodeKey
  BY <1>5 DEF DecodeKey
<1>6. CASE DecodeReceipt
  BY <1>6 DEF DecodeReceipt
<1>7. CASE CheckIdentity
  BY <1>7 DEF CheckIdentity, CheckReceiptIdentity
<1>8. CASE CheckKeyHash
  BY <1>8 DEF CheckKeyHash, CheckReceiptKeyHash
<1>9. CASE DeserializeKey
  BY <1>9 DEF DeserializeKey
<1>10. CASE FetchAudit
  BY <1>10 DEF FetchAudit, AuditRequestToSend, AuditRequest
<1>11. CASE FetchFails
  BY <1>11 DEF FetchFails
<1>12. CASE DecodeAudit
  BY <1>12 DEF DecodeAudit
<1>13. CASE CheckAuditHash
  BY <1>13 DEF CheckAuditHash, CheckAuditReceiptHash
<1>14. CASE CheckTier
  BY <1>14 DEF CheckTier, CheckAuditTier
<1>15. CASE DeriveChallenge
  BY <1>15 DEF DeriveChallenge
<1>16. CASE VerifyUpstream
  BY <1>16 DEF VerifyUpstream, UpstreamPayload, UpstreamFailures, ChallengedFailures
<1>17. CASE StartPhase
  BY <1>17 DEF StartPhase
<1>18. CASE EndPhase
  BY <1>18 DEF EndPhase
<1>19. CASE Report
  BY <1>19 DEF Report
<1>20. CASE Exit
  BY <1>20 DEF Exit
<1>21. CASE ProviderAnswers
  BY <1>21 DEF ProviderAnswers
<1>22. CASE Sigint
  BY <1>22 DEF Sigint
<1>23. CASE ReplaceFile
  BY <1>23 DEF ReplaceFile
<1>24. CASE UNCHANGED vars
  BY <1>24
<1>25. QED
  BY <1>1, <1>2, <1>3, <1>4, <1>5, <1>6, <1>7, <1>8, <1>9, <1>10, <1>11, <1>12, <1>13,
      <1>14, <1>15, <1>16, <1>17, <1>18, <1>19, <1>20, <1>21, <1>22, <1>23, <1>24 DEF
      Next, Program

\* Past each check of run_verification the artifacts are bound as it demands.
LEMMA CheckedStep == Inv /\ [Next]_vars => CheckedInv'
<1> SUFFICES ASSUME Inv, [Next]_vars PROVE CheckedInv'
  OBVIOUS
<1> USE ConstantTypes, NoFileIsNoFile DEF Inv, TypeOK, LoadedInv, CheckedInv, PcInv,
    Setup, Core, Binding, Opening, BeforeRequest, Call, GoTo, Fail, vars, input, env,
    loaded, verdict, output, V!Bound
<1>1. CASE ParseArgs
  BY <1>1 DEF ParseArgs
<1>2. CASE ReadReceipt
  BY <1>2 DEF ReadReceipt
<1>3. CASE ReadKey
  BY <1>3 DEF ReadKey
<1>4. CASE BuildProvider
  BY <1>4 DEF BuildProvider
<1>5. CASE DecodeKey
  BY <1>5 DEF DecodeKey
<1>6. CASE DecodeReceipt
  BY <1>6 DEF DecodeReceipt
<1>7. CASE CheckIdentity
  BY <1>7 DEF CheckIdentity, CheckReceiptIdentity
<1>8. CASE CheckKeyHash
  BY <1>8 DEF CheckKeyHash, CheckReceiptKeyHash
<1>9. CASE DeserializeKey
  BY <1>9 DEF DeserializeKey
<1>10. CASE FetchAudit
  BY <1>10 DEF FetchAudit, AuditRequestToSend, AuditRequest
<1>11. CASE FetchFails
  BY <1>11 DEF FetchFails
<1>12. CASE DecodeAudit
  BY <1>12 DEF DecodeAudit
<1>13. CASE CheckAuditHash
  BY <1>13 DEF CheckAuditHash, CheckAuditReceiptHash
<1>14. CASE CheckTier
  BY <1>14 DEF CheckTier, CheckAuditTier
<1>15. CASE DeriveChallenge
  BY <1>15 DEF DeriveChallenge
<1>16. CASE VerifyUpstream
  BY <1>16 DEF VerifyUpstream, UpstreamPayload, UpstreamFailures, ChallengedFailures
<1>17. CASE StartPhase
  BY <1>17 DEF StartPhase
<1>18. CASE EndPhase
  BY <1>18 DEF EndPhase
<1>19. CASE Report
  BY <1>19 DEF Report
<1>20. CASE Exit
  BY <1>20 DEF Exit
<1>21. CASE ProviderAnswers
  BY <1>21 DEF ProviderAnswers
<1>22. CASE Sigint
  BY <1>22 DEF Sigint
<1>23. CASE ReplaceFile
  BY <1>23 DEF ReplaceFile
<1>24. CASE UNCHANGED vars
  BY <1>24
<1>25. QED
  BY <1>1, <1>2, <1>3, <1>4, <1>5, <1>6, <1>7, <1>8, <1>9, <1>10, <1>11, <1>12, <1>13,
      <1>14, <1>15, <1>16, <1>17, <1>18, <1>19, <1>20, <1>21, <1>22, <1>23, <1>24 DEF
      Next, Program

\* A verdict is never taken back, and it is the one its artifacts earn.
LEMMA VerdictStep == Inv /\ [Next]_vars => VerdictInv'
<1> SUFFICES ASSUME Inv, [Next]_vars PROVE VerdictInv'
  OBVIOUS
<1> USE ConstantTypes, NoFileIsNoFile DEF Inv, TypeOK, LoadedInv, CheckedInv, PcInv,
    Setup, Core, Binding, Opening, BeforeRequest, Call, GoTo, Fail, vars, input, env,
    loaded, verdict, output, VerdictInv, V!Bound, V!Opens, V!Acceptable, Tier,
    TierRequiresAudit
<1>1. CASE ParseArgs
  BY <1>1 DEF ParseArgs
<1>2. CASE ReadReceipt
  BY <1>2 DEF ReadReceipt
<1>3. CASE ReadKey
  BY <1>3 DEF ReadKey
<1>4. CASE BuildProvider
  BY <1>4 DEF BuildProvider
<1>5. CASE DecodeKey
  <2>1. key.form \in Form
    BY <1>5, HeaderForms DEF DecodeKey, Opening
  <2> QED
    BY <1>5, <2>1 DEF DecodeKey, Form, AuditForm
<1>6. CASE DecodeReceipt
  <2>1. receipt.form \in Form
    BY <1>6, HeaderForms DEF DecodeReceipt, Opening
  <2> QED
    BY <1>6, <2>1 DEF DecodeReceipt, Form, AuditForm
<1>7. CASE CheckIdentity
  <2>1. V!Bound(key, receipt) => receipt.identity = key.identity
    BY IdentityByFields DEF V!Bound
  <2> QED
    BY <1>7, <2>1 DEF CheckIdentity, CheckReceiptIdentity
<1>8. CASE CheckKeyHash
  BY <1>8 DEF CheckKeyHash, CheckReceiptKeyHash
<1>9. CASE DeserializeKey
  BY <1>9 DEF DeserializeKey
<1>10. CASE FetchAudit
  BY <1>10 DEF FetchAudit, AuditRequestToSend, AuditRequest
<1>11. CASE FetchFails
  BY <1>11 DEF FetchFails
<1>12. CASE DecodeAudit
  <2>1. audit.form \in AuditForm
    BY <1>12, HeaderForms DEF DecodeAudit, Opening
  <2> QED
    BY <1>12, <2>1 DEF DecodeAudit, Form, AuditForm
<1>13. CASE CheckAuditHash
  BY <1>13 DEF CheckAuditHash, CheckAuditReceiptHash
<1>14. CASE CheckTier
  BY <1>14 DEF CheckTier, CheckAuditTier
<1>15. CASE DeriveChallenge
  BY <1>15 DEF DeriveChallenge
<1>16. CASE VerifyUpstream
  BY <1>16, SMTT(30) DEF VerifyUpstream, UpstreamPayload, UpstreamFailures, ChallengedFailures
<1>17. CASE StartPhase
  BY <1>17 DEF StartPhase
<1>18. CASE EndPhase
  BY <1>18 DEF EndPhase
<1>19. CASE Report
  BY <1>19 DEF Report
<1>20. CASE Exit
  BY <1>20 DEF Exit
<1>21. CASE ProviderAnswers
  BY <1>21 DEF ProviderAnswers
<1>22. CASE Sigint
  BY <1>22 DEF Sigint
<1>23. CASE ReplaceFile
  BY <1>23 DEF ReplaceFile
<1>24. CASE UNCHANGED vars
  BY <1>24
<1>25. QED
  BY <1>1, <1>2, <1>3, <1>4, <1>5, <1>6, <1>7, <1>8, <1>9, <1>10, <1>11, <1>12, <1>13,
      <1>14, <1>15, <1>16, <1>17, <1>18, <1>19, <1>20, <1>21, <1>22, <1>23, <1>24 DEF
      Next, Program

\* fetch_audit is called about the receipt that has just been bound.
LEMMA RequestStep == Inv /\ [Next]_vars => AuditAskedForBoundReceipt'
<1> SUFFICES ASSUME Inv, [Next]_vars PROVE AuditAskedForBoundReceipt'
  OBVIOUS
<1> USE DEF Inv, Call, GoTo, Fail, input, env, loaded, verdict, output,
    AuditAskedForBoundReceipt
<1>1. ASSUME UNCHANGED <<tier, receipt, key, request>> PROVE AuditAskedForBoundReceipt'
  BY <1>1
<1>2. ASSUME request' = <<>> PROVE AuditAskedForBoundReceipt'
  BY <1>2
<1>3. CASE ReadReceipt \/ ReadKey
  BY <1>2, <1>3 DEF ReadReceipt, ReadKey, LoadedInv, BeforeRequest, Setup
<1>4. CASE FetchAudit
  <2>1. request = <<>> /\ V!Bound(key, receipt) /\ TierRequiresAudit(tier)
    BY <1>4 DEF FetchAudit, LoadedInv, BeforeRequest, CheckedInv, Binding
  <2>2. request' = <<>> \/ request' = <<AuditRequestToSend>>
    BY <1>4, <2>1 DEF FetchAudit
  <2> QED
    BY <1>4, <2>1, <2>2 DEF FetchAudit, AuditRequestToSend
<1>5. CASE \/ ParseArgs \/ BuildProvider \/ DecodeKey \/ DecodeReceipt \/ CheckIdentity
           \/ CheckKeyHash \/ DeserializeKey \/ FetchFails \/ DecodeAudit \/ CheckAuditHash
           \/ CheckTier \/ DeriveChallenge
  BY <1>1, <1>5 DEF ParseArgs, BuildProvider, DecodeKey, DecodeReceipt, CheckIdentity,
    CheckKeyHash, DeserializeKey, FetchFails, DecodeAudit, CheckAuditHash, CheckTier,
    DeriveChallenge
<1>6. CASE \/ VerifyUpstream \/ StartPhase \/ EndPhase \/ Report \/ Exit
           \/ ProviderAnswers \/ Sigint \/ ReplaceFile \/ UNCHANGED vars
  BY <1>1, <1>6 DEF VerifyUpstream, StartPhase, EndPhase, Report, Exit, ProviderAnswers,
    Sigint, ReplaceFile, vars
<1> QED
  BY <1>3, <1>4, <1>5, <1>6 DEF Next, Program

-----------------------------------------------------------------------------
\* A run starts with nothing loaded and nothing decided.
LEMMA InitInv == Init => Inv
<1> SUFFICES ASSUME Init PROVE Inv
  OBVIOUS
<1> USE DEF Init
<1>1. TypeOK
  <2>1. disk \in [receipt : ReceiptFile \cup {NoFile}, key : KeyFile \cup {NoFile},
                  audit : AuditFile \cup {NoFile}]
    OBVIOUS
  <2>2. events \in Seq(PhaseEvent) /\ request \in Seq(AuditRequest)
        /\ replacements \in 0..MaxReplacements
    BY RunConstants
  <2> QED
    BY <2>1, <2>2 DEF TypeOK, PC, Setup
<1>2. PcInv /\ VerdictInv
  BY DEF PcInv, VerdictInv, Setup, Core
<1>3. LoadedInv /\ AuditAskedForBoundReceipt
  BY DEF LoadedInv, BeforeRequest, Setup, Core, Opening, AuditAskedForBoundReceipt
<1>4. CheckedInv
  BY DEF CheckedInv, Binding, Opening
<1>5. QED
  BY <1>1, <1>2, <1>3, <1>4 DEF Inv

\* The invariant is inductive.
THEOREM Invariance == Spec => []Inv
<1>1. Init => Inv
  BY InitInv
<1>2. Inv /\ [Next]_vars => Inv'
  BY TypeStep, PcStep, LoadedStep, CheckedStep, VerdictStep, RequestStep DEF Inv
<1>3. QED
  BY <1>1, <1>2, PTL DEF Spec

\* Type correctness of a run of `vi verify`, for every set of artifacts.
THEOREM TypeCorrectness == Spec => []TypeOK
  BY Invariance, PTL DEF Inv

\* A run that passes has bound the key, the receipt and, where the tier asks
\* for one, the opening.  (run_verification_core)
THEOREM PassBinding == Spec => []PassIsBound
<1>1. Inv => PassIsBound
  BY DEF Inv, VerdictInv, PassIsBound, V!Acceptable, V!Opens, TierRequiresAudit
<1>2. QED
  BY Invariance, <1>1, PTL

\* The audit provider is asked about the bound receipt only.  (fetch_audit)
THEOREM AuditRequestBinding == Spec => []AuditAskedForBoundReceipt
  BY Invariance, PTL DEF Inv

-----------------------------------------------------------------------------
\* The event log.

Even == {i \in DOMAIN events : i % 2 = 0}

\* The walk is an alternation of starts and ends.  While it goes on every end
\* is a pass, and the phase of the error is still to come.  Once it is over all
\* seven phases passed, or the last end is the failure.
LogInv ==
    /\ \A i \in DOMAIN events : events[i].type = "ended" <=> i % 2 = 0
    /\ result = "verification_failed" => failedPhase \in Phase
    /\ pc = "events" =>
          /\ \A i \in Even : events[i].passed
          /\ result # "pass" => \E j \in 1..7 : /\ PhaseForError = VerifyPhases[j]
                                                /\ Len(events) < 2 * j
    /\ pc \in {"report", "exiting", "done"} =>
          /\ \A i \in Even : ~events[i].passed => i = Len(events) /\ result # "pass"
          /\ pc # "done" \/ exit # SigintExit =>
                /\ result = "pass" => Len(events) = 14
                /\ result # "pass" /\ events # <<>> =>
                      Len(events) \in Even /\ ~events[Len(events)].passed
    /\ printed => result = "pass"
    /\ pc = "done" => exit = SigintExit \/ (result # "none" /\ exit = ExitCode[result])

\* A call before the walk goes on or ends with an error that names no phase.
BeforeWalk ==
    /\ pc \in Setup \cup Core /\ UNCHANGED <<events, printed, exit, failedPhase>>
    /\ \/ pc' \in Setup \cup Core /\ result' = result
       \/ /\ result' \in Category \ {"verification_failed"}
          /\ pc' = IF pc \in Setup THEN "report" ELSE "events"

LEMMA BeforeWalkStep ==
    ASSUME Inv,
           \/ ParseArgs \/ ReadReceipt \/ ReadKey \/ BuildProvider
           \/ DecodeKey \/ DecodeReceipt \/ CheckIdentity \/ CheckKeyHash \/ DeserializeKey
           \/ FetchAudit \/ FetchFails \/ DecodeAudit \/ CheckAuditHash \/ CheckTier
           \/ DeriveChallenge \/ ProviderAnswers
    PROVE  BeforeWalk
<1> USE DEF Inv, BeforeWalk, Setup, Core, Category, Call, GoTo, Fail, verdict, output
<1>1. CASE ParseArgs \/ ReadReceipt \/ ReadKey \/ BuildProvider
  BY <1>1 DEF ParseArgs, ReadReceipt, ReadKey, BuildProvider
<1>2. CASE DecodeKey
  <2>1. key.form \in Form
    BY <1>2, HeaderForms DEF DecodeKey, LoadedInv
  <2>2. QED
    BY <1>2, <2>1 DEF DecodeKey, Form, AuditForm
<1>3. CASE DecodeReceipt
  <2>1. receipt.form \in Form
    BY <1>3, HeaderForms DEF DecodeReceipt, LoadedInv
  <2>2. QED
    BY <1>3, <2>1 DEF DecodeReceipt, Form, AuditForm
<1>4. CASE DecodeAudit
  <2>1. audit.form \in AuditForm
    BY <1>4, HeaderForms DEF DecodeAudit, LoadedInv, Opening
  <2>2. QED
    BY <1>4, <2>1 DEF DecodeAudit, Form, AuditForm
<1>5. CASE CheckIdentity \/ CheckKeyHash \/ DeserializeKey
  BY <1>5 DEF CheckIdentity, CheckKeyHash, DeserializeKey
<1>6. CASE FetchAudit \/ FetchFails \/ ProviderAnswers
  BY <1>6 DEF FetchAudit, FetchFails, ProviderAnswers
<1>7. CASE CheckAuditHash \/ CheckTier \/ DeriveChallenge
  BY <1>7 DEF CheckAuditHash, CheckTier, DeriveChallenge
<1>8. QED
  BY <1>1, <1>2, <1>3, <1>4, <1>5, <1>6, <1>7

LEMMA LogStep == Inv /\ Inv' /\ LogInv /\ [Next]_vars => LogInv'
<1> SUFFICES ASSUME Inv, Inv', LogInv, [Next]_vars PROVE LogInv'
  OBVIOUS
<1>a. VerifyPhases[1] \in Phase /\ Phase = {VerifyPhases[j] : j \in 1..7}
  BY DEF Phase
<1>b. Running # SigintExit /\ (exit = Running <=> pc # "done")
  BY DEF Running, SigintExit, Inv, PcInv
<1>1. CASE BeforeWalk
  <2>1. /\ events = <<>> /\ events' = <<>> /\ result = "none" /\ exit' = exit /\ ~printed
        /\ printed' = printed /\ pc # "done" /\ failedPhase' = failedPhase
    <3>1. result = "none" /\ events = <<>> /\ pc # "done"
      BY <1>1 DEF BeforeWalk, Inv, PcInv, Setup, Core
    <3>2. UNCHANGED <<events, printed, exit, failedPhase>>
      BY <1>1 DEF BeforeWalk
    <3>3. ~printed
      BY <3>1 DEF LogInv
    <3>4. QED
      BY <3>1, <3>2, <3>3
  <2>2. pc' # "done"
    BY <1>1 DEF BeforeWalk, Setup, Core
  <2>3. CASE pc' \in Setup \cup Core /\ result' = result
    BY <2>1, <2>3 DEF LogInv, Even, Setup, Core
  <2>4. CASE /\ result' \in Category \ {"verification_failed"}
             /\ pc' = IF pc \in Setup THEN "report" ELSE "events"
    <3>1. PhaseForError' = VerifyPhases[1] /\ result' # "pass" /\ result' # "verification_failed"
      BY <2>4 DEF PhaseForError, Category
    <3>2. Even' = {} /\ Len(events') = 0 /\ 1 \in 1..7
      BY <2>1 DEF Even
    <3>3. QED
      BY <2>1, <2>2, <2>4, <3>1, <3>2 DEF LogInv
  <2>5. QED
    BY <1>1, <2>3, <2>4 DEF BeforeWalk
<1>2. CASE VerifyUpstream
  <2>1. /\ pc = "upstream" /\ pc' = "events" /\ UNCHANGED <<events, printed, exit>>
        /\ events = <<>> /\ result = "none"
    BY <1>2 DEF VerifyUpstream, output, Inv, PcInv, Core
  <2>2. ~printed
    BY <2>1 DEF LogInv
  <2>3. UpstreamFailures \in Seq(Phase)
    BY <2>1, UpstreamFailuresType DEF Inv, LoadedInv, CheckedInv, Core
  <2>4. result' = "verification_failed" => failedPhase' \in Phase
    BY <1>2, <2>3 DEF VerifyUpstream
  <2>5. \E j \in 1..7 : PhaseForError' = VerifyPhases[j] /\ 0 < 2 * j
    <3>1. PhaseForError' \in Phase
      BY <1>a, <2>4 DEF PhaseForError
    <3>2. QED
      BY <1>a, <3>1
  <2>6. QED
    BY <2>1, <2>2, <2>4, <2>5 DEF LogInv, Even
<1>3. CASE StartPhase
  <2>1. /\ pc = "events" /\ pc' = "events" /\ Len(events) % 2 = 0
        /\ UNCHANGED <<result, failedPhase, printed, exit>>
        /\ events \in Seq(PhaseEvent)
        /\ events' = Append(events, [type |-> "started", phase |-> NextPhase])
    BY <1>3 DEF StartPhase, verdict, Inv, TypeOK
  <2>2. /\ Len(events') = Len(events) + 1 /\ DOMAIN events' = 1..(Len(events) + 1)
        /\ DOMAIN events = 1..Len(events) /\ Len(events) \in Nat
        /\ \A i \in DOMAIN events : events'[i] = events[i]
        /\ events'[Len(events) + 1].type = "started"
    BY <2>1
  <2>3. \A i \in DOMAIN events' : events'[i].type = "ended" <=> i % 2 = 0
    <3>1. \A i \in DOMAIN events : events[i].type = "ended" <=> i % 2 = 0
      BY DEF LogInv
    <3>2. (Len(events) + 1) % 2 # 0
      BY <2>1, <2>2
    <3>3. QED
      BY <2>2, <3>1, <3>2
  <2>4. \A i \in Even' : events'[i].passed
    BY <2>1, <2>2, SMTT(30) DEF LogInv, Even
  <2>5. ASSUME result' # "pass"
        PROVE  \E j \in 1..7 : PhaseForError' = VerifyPhases[j] /\ Len(events') < 2 * j
    <3>1. PICK j \in 1..7 : PhaseForError = VerifyPhases[j] /\ Len(events) < 2 * j
      BY <2>1, <2>5 DEF LogInv
    <3>2. Len(events) + 1 < 2 * j
      BY <2>1, <2>2, <3>1, SMTT(30)
    <3>3. PhaseForError' = PhaseForError
      BY <2>1 DEF PhaseForError
    <3>4. QED
      BY <2>2, <3>1, <3>2, <3>3
  <2>6. QED
    BY <2>1, <2>3, <2>4, <2>5, Zenon DEF LogInv
<1>4. CASE EndPhase
  <2> DEFINE passed == result = "pass" \/ NextPhase # PhaseForError
             n == Len(events)
  <2>1. /\ pc = "events" /\ n % 2 = 1
        /\ UNCHANGED <<result, failedPhase, printed, exit>>
        /\ events \in Seq(PhaseEvent)
        /\ events' = Append(events, [type |-> "ended", phase |-> NextPhase, passed |-> passed])
        /\ pc' = IF WalkEnds(passed) THEN "report" ELSE "events"
    BY <1>4, Zenon DEF EndPhase, verdict, Inv, TypeOK
  <2>2. /\ Len(events') = n + 1 /\ DOMAIN events' = 1..(n + 1)
        /\ DOMAIN events = 1..n /\ n \in Nat /\ n < 14 /\ (n + 1) % 2 = 0
        /\ \A i \in DOMAIN events : events'[i] = events[i]
        /\ events'[n + 1] = [type |-> "ended", phase |-> NextPhase, passed |-> passed]
    BY <2>1, SMTT(30) DEF Inv, PcInv
  <2> HIDE DEF passed
  <2>3. events'[n + 1].type = "ended" /\ (events'[n + 1].passed <=> passed)
    BY <2>2
  <2>4. \A i \in DOMAIN events' : events'[i].type = "ended" <=> i % 2 = 0
    BY <2>1, <2>2, <2>3 DEF LogInv
  <2>5. \A i \in Even : events'[i].passed
    BY <2>1, <2>2 DEF LogInv, Even
  <2>6. Even' = Even \cup {n + 1}
    BY <2>2 DEF Even
  <2>7. ASSUME result # "pass"
        PROVE  \E j \in 1..7 : /\ PhaseForError = VerifyPhases[j] /\ n < 2 * j
                               /\ passed => n + 1 < 2 * j
    <3>1. PICK j \in 1..7 : PhaseForError = VerifyPhases[j] /\ n < 2 * j
      BY <2>1, <2>7 DEF LogInv
    <3>2. passed => j # n \div 2 + 1
      BY <2>7, <3>1 DEF passed, NextPhase
    <3>3. passed => n + 1 < 2 * j
      BY <2>1, <2>2, <3>1, <3>2
    <3>4. QED
      BY <3>1, <3>3
  <2>8. PhaseForError' = PhaseForError /\ (result = "pass" => passed)
    BY <2>1 DEF PhaseForError, passed
  <2>9. CASE WalkEnds(passed)
    <3>1. pc' = "report" /\ (~passed \/ n \div 2 = 6)
      BY <2>1, <2>9 DEF WalkEnds
    <3>2. result # "pass" => ~passed
      BY <2>2, <2>7, <3>1
    <3>3. result = "pass" => n + 1 = 14
      BY <2>1, <2>2, <2>8, <3>1
    <3>4. \A i \in Even' : ~events'[i].passed => i = n + 1 /\ result # "pass"
      BY <2>3, <2>5, <2>6, <2>8
    <3>5. /\ result' = "pass" => Len(events') = 14
          /\ result' # "pass" => Len(events') \in Even' /\ ~events'[Len(events')].passed
      BY <2>1, <2>2, <2>3, <2>6, <3>2, <3>3
    <3>6. pc' # "events" /\ pc' # "done" /\ (printed' => result' = "pass")
          /\ (result' = "verification_failed" => failedPhase' \in Phase)
      BY <2>1, <3>1 DEF LogInv
    <3>7. QED
      BY <2>1, <2>2, <2>4, <3>4, <3>5, <3>6, Zenon DEF LogInv
  <2>10. CASE ~WalkEnds(passed)
    <3>1. pc' = "events" /\ passed
      BY <2>1, <2>10 DEF WalkEnds
    <3>2. \A i \in Even' : events'[i].passed
      BY <2>3, <2>5, <2>6, <3>1
    <3>3. result' # "pass" => \E j \in 1..7 : PhaseForError' = VerifyPhases[j] /\ Len(events') < 2 * j
      BY <2>1, <2>2, <2>7, <2>8, <3>1
    <3>4. pc' \notin {"report", "exiting", "done"} /\ (printed' => result' = "pass")
          /\ (result' = "verification_failed" => failedPhase' \in Phase)
      BY <2>1, <3>1 DEF LogInv
    <3>5. QED
      BY <2>4, <3>1, <3>2, <3>3, <3>4, Zenon DEF LogInv
  <2>11. QED
    BY <2>9, <2>10
<1>5. CASE Report
  <2>1. pc = "report" /\ pc' = "exiting" /\ UNCHANGED <<result, failedPhase, events, exit>>
    BY <1>5 DEF Report, verdict
  <2>2. printed' => result = "pass"
    BY <1>5, Zenon DEF Report
  <2>3. QED
    BY <1>b, <2>1, <2>2 DEF LogInv, Even
<1>6. CASE Exit
  <2>1. /\ pc = "exiting" /\ pc' = "done" /\ UNCHANGED <<result, failedPhase, events, printed>>
        /\ exit' = ExitCode[result] /\ result # "none"
    BY <1>6 DEF Exit, verdict, Inv, PcInv
  <2>2. QED
    BY <2>1 DEF LogInv, Even
<1>7. CASE Sigint
  <2>1. /\ pc # "done" /\ pc' = "done" /\ exit' = SigintExit
        /\ UNCHANGED <<result, failedPhase, events, printed>>
    BY <1>7 DEF Sigint, verdict
  <2>2. \A i \in Even : ~events[i].passed => i = Len(events) /\ result # "pass"
    BY <2>1 DEF LogInv, Even, Inv, PcInv, TypeOK, PC
  <2>3. QED
    <3>1. Even' = Even /\ pc' # "events" /\ pc' # "report"
      BY <2>1 DEF Even
    <3>2. /\ \A i \in DOMAIN events : events[i].type = "ended" <=> i % 2 = 0
          /\ result = "verification_failed" => failedPhase \in Phase
          /\ printed => result = "pass"
      BY DEF LogInv
    <3>3. \A i \in DOMAIN events' : events'[i].type = "ended" <=> i % 2 = 0
      BY <2>1, <3>2
    <3>4. \A i \in Even' : ~events'[i].passed => i = Len(events') /\ result' # "pass"
      BY <2>1, <2>2, <3>1
    <3>5. /\ result' = "verification_failed" => failedPhase' \in Phase
          /\ printed' => result' = "pass"
      BY <2>1, <3>2
    <3>6. pc' # "events" /\ ~(pc' # "done" \/ exit' # SigintExit)
      BY <2>1
    <3>7. exit' = SigintExit
      BY <2>1
    <3>8. QED
      BY <3>3, <3>4, <3>5, <3>6, <3>7, Zenon DEF LogInv
<1>8. CASE ReplaceFile \/ UNCHANGED vars
  <2>1. UNCHANGED <<pc, result, failedPhase, events, printed, exit>>
    BY <1>8 DEF ReplaceFile, vars, verdict, output
  <2>2. QED
    BY <2>1 DEF LogInv, Even, PhaseForError
<1>9. QED
  BY <1>1, <1>2, <1>3, <1>4, <1>5, <1>6, <1>7, <1>8, BeforeWalkStep DEF Next, Program

\* The event log and the exit status of `vi verify` tell the same story, for
\* every set of artifacts.  (emit_phase_events, run_parsed_cli)
THEOREM PhaseLog == Spec => []PhaseLogTellsVerdict
<1>1. Init => LogInv
  BY DEF Init, LogInv, Even, Setup
<1>2. Spec => []LogInv
  BY <1>1, Invariance, LogStep, PTL DEF Spec
<1>3. Inv /\ LogInv => PhaseLogTellsVerdict
  <2> SUFFICES ASSUME Inv, LogInv PROVE PhaseLogTellsVerdict
    OBVIOUS
  <2>1. EndedFailed = {i \in Even : ~events[i].passed}
    BY DEF LogInv, EndedFailed, Ended, Even
  <2>2. /\ events \in Seq(PhaseEvent) /\ result \in Category \cup {"none", "pass"}
        /\ exit # Running <=> pc = "done"
        /\ pc \in PC
    BY DEF Inv, TypeOK, PcInv
  <2>3. EndedFailed # {} => result # "pass" /\ EndedFailed = {Len(events)}
    <3>1. pc \in Setup \cup Core \cup {"events"} => EndedFailed = {}
      BY <2>1 DEF LogInv, Even, Inv, PcInv
    <3>2. pc \in {"report", "exiting", "done"} =>
             \A i \in Even : ~events[i].passed => i = Len(events) /\ result # "pass"
      BY Zenon DEF LogInv
    <3>3. pc \in Setup \cup Core \cup {"events"} \/ pc \in {"report", "exiting", "done"}
      BY <2>2 DEF PC, Setup, Core
    <3>4. QED
      BY <2>1, <3>1, <3>2, <3>3
  <2>4. exit = 0 => result = "pass" /\ pc = "done" /\ exit # SigintExit
    BY <2>2, ExitCodes DEF LogInv, SigintExit, Running
  <2>5. exit = 0 => Len(events) = 14 /\ EndedFailed = {}
    BY <2>3, <2>4 DEF LogInv
  <2>6. EndedFailed # {} => exit # 0 /\ ~printed
    BY <2>3, <2>4 DEF LogInv
  <2>7. exit \notin {Running, 0, SigintExit} /\ events # <<>> => EndedFailed # {}
    <3>1. exit \notin {Running, 0, SigintExit} => pc = "done" /\ result # "pass"
      BY <2>2, ExitCodes DEF LogInv
    <3>2. QED
      BY <2>1, <3>1 DEF LogInv
  <2>8. QED
    BY <2>3, <2>5, <2>6, <2>7 DEF PhaseLogTellsVerdict
<1>4. QED
  BY <1>2, <1>3, Invariance, PTL

-----------------------------------------------------------------------------
\* A run starts as the abstract verdict does.
LEMMA InitRefines == Init => V!Init
  BY DEF Init, V!Init, V!Tier, Tier, Outcome, Running, SigintExit

\* A step of the run is a load, the decision, an abort, or invisible.
LEMMA StepRefines == Inv /\ Inv' /\ [Next]_vars => [V!Next]_(V!vars)
<1> SUFFICES ASSUME Inv, Inv', [Next]_vars PROVE [V!Next]_(V!vars)
  OBVIOUS
<1> USE DEF Call, GoTo, Fail, input, env, loaded, verdict, output, V!vars
<1>1. CASE ReadReceipt
  <2>1. exit = Running /\ exit' = Running /\ receipt = NoFile
    BY <1>1 DEF ReadReceipt, Inv, PcInv, LoadedInv
  <2>2. receipt' \in ReceiptFile \cup {NoFile}
    BY DEF Inv, TypeOK
  <2>3. UNCHANGED <<tier, key, audit>>
    BY <1>1 DEF ReadReceipt
  <2> QED
    BY <2>1, <2>2, <2>3 DEF V!Next, V!Load, Outcome, Running, SigintExit
<1>2. CASE ReadKey
  <2>1. exit = Running /\ exit' = Running /\ key = NoFile
    BY <1>2 DEF ReadKey, Inv, PcInv, LoadedInv
  <2>2. key' \in KeyFile \cup {NoFile}
    BY DEF Inv, TypeOK
  <2>3. UNCHANGED <<tier, receipt, audit>>
    BY <1>2 DEF ReadKey
  <2> QED
    BY <2>1, <2>2, <2>3 DEF V!Next, V!Load, Outcome, Running, SigintExit
<1>3. CASE FetchAudit \/ ProviderAnswers
  <2>1. exit = Running /\ exit' = Running /\ audit = NoFile
    BY <1>3 DEF FetchAudit, ProviderAnswers, Inv, PcInv, LoadedInv, BeforeRequest
  <2>2. audit' \in AuditFile \cup {NoFile}
    BY DEF Inv, TypeOK
  <2>3. UNCHANGED <<tier, receipt, key>>
    BY <1>3 DEF FetchAudit, ProviderAnswers
  <2> QED
    BY <2>1, <2>2, <2>3 DEF V!Next, V!Load, Outcome, Running, SigintExit
<1>4. CASE Exit
  <2>1. exit = Running /\ result \in Category \cup {"pass"} /\ exit' = ExitCode[result]
    BY <1>4 DEF Exit, Inv, TypeOK, PcInv
  <2>2. UNCHANGED <<tier, receipt, key, audit>>
    BY <1>4 DEF Exit
  <2>3. Outcome = "undecided"
    BY <2>1 DEF Outcome, Running, SigintExit
  <2>4. Outcome' = IF result = "pass" THEN "accepted" ELSE "rejected"
    BY <2>1, ExitCodes DEF Outcome, Running, SigintExit
  <2>5. result = "pass" <=> V!Acceptable(tier, receipt, key, audit)
    BY <2>1 DEF Inv, VerdictInv, Category
  <2> QED
    BY <2>2, <2>3, <2>4, <2>5 DEF V!Next, V!Decide
<1>5. CASE Sigint
  <2>1. exit = Running /\ exit' = SigintExit /\ UNCHANGED <<tier, receipt, key, audit>>
    BY <1>5 DEF Sigint, Inv, PcInv
  <2> QED
    BY <2>1 DEF V!Next, V!Abort, Outcome, Running, SigintExit
<1>6. ASSUME UNCHANGED <<tier, receipt, key, audit, exit>> PROVE UNCHANGED V!vars
  BY <1>6 DEF Outcome
<1>7. CASE ParseArgs \/ BuildProvider \/ DecodeKey \/ DecodeReceipt \/ CheckIdentity
           \/ CheckKeyHash \/ DeserializeKey
  BY <1>6, <1>7 DEF ParseArgs, BuildProvider, DecodeKey, DecodeReceipt, CheckIdentity,
                    CheckKeyHash, DeserializeKey
<1>8. CASE FetchFails \/ DecodeAudit \/ CheckAuditHash \/ CheckTier \/ DeriveChallenge
           \/ VerifyUpstream
  BY <1>6, <1>8 DEF FetchFails, DecodeAudit, CheckAuditHash, CheckTier, DeriveChallenge,
                    VerifyUpstream
<1>9. CASE StartPhase \/ EndPhase \/ Report \/ ReplaceFile \/ UNCHANGED vars
  BY <1>6, <1>9 DEF StartPhase, EndPhase, Report, ReplaceFile, vars
<1>10. QED
  BY <1>1, <1>2, <1>3, <1>4, <1>5, <1>7, <1>8, <1>9 DEF Next, Program

\* A run of `vi verify` implements the abstract promise, whatever files exist
\* and whatever is replaced while it runs.
THEOREM Implementation == Spec => ImplementsVerdict
<1>1. Init => V!Init
  BY InitRefines
<1>2. Inv /\ Inv' /\ [Next]_vars => [V!Next]_(V!vars)
  BY StepRefines
<1>3. QED
  BY Invariance, <1>1, <1>2, PTL DEF Spec, V!Spec, ImplementsVerdict
=============================================================================
