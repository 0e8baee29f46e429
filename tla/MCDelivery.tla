----------------------------- MODULE MCDelivery -----------------------------
(***************************************************************************)
(* Artifacts of every kind with names of one byte; opaque parts that hold  *)
(* nothing, or the bytes the multipart parser looks for.                   *)
(***************************************************************************)
EXTENDS Delivery

Zero8 == [i \in 1..8 |-> 0]

Key(model) ==
    [schema_version |-> 1, seed |-> [Zero8 EXCEPT ![1] = 7], model_id |-> model,
     checkpoint_hash |-> <<99>>, commitllm_pin |-> <<112>>]

Receipt(prompt, ans) ==
    [schema_version |-> 1, generated_token_count |-> [Zero8 EXCEPT ![1] = 2],
     model_id |-> <<109>>, checkpoint_hash |-> <<99>>, commitllm_pin |-> <<112>>,
     key_hash |-> <<107>>, prompt_hash |-> prompt, answer_hash |-> ans]

Audit(layers) ==
    [schema_version |-> 1, tier |-> 3, token_index |-> [Zero8 EXCEPT ![1] = 1],
     layer_indices |-> layers, receipt_hash |-> <<114>>]

MCBoundary == <<98, 99>>

\* CR LF - - inside a receipt: at its end, before the boundary's first byte,
\* and before something that ends a message.
MarkerEnds == CRLF \o Dashes
MarkerBoundary == CRLF \o Dashes \o <<98>>
MarkerCloses == CRLF \o Dashes \o <<1, 2>> \o Dashes

MCArtifact ==
    {[magic |-> "VIKY", header |-> Key(m), opaque |-> o] : m \in {<<>>, <<109>>}, o \in {<<>>, <<1, 2>>}}
        \cup {[magic |-> "VIKY", header |-> Key([i \in 1..65536 |-> 109]), opaque |-> <<>>],
              [magic |-> "VIKY", header |-> [Key(<<109>>) EXCEPT !.schema_version = 2], opaque |-> <<>>]}
        \cup {[magic |-> "VIRC", header |-> Receipt(<<113>>, <<97>>), opaque |-> o] :
                 o \in {<<>>, <<1, 13>>, MarkerEnds, MarkerBoundary, MarkerCloses}}
        \cup {[magic |-> "VIAU", header |-> Audit(l), opaque |-> <<5>>] :
                 l \in {<<>>, <<<<0, 0, 0, 0>>, <<3, 0, 0, 0>>>>}}
=============================================================================
