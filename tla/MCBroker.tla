------------------------------ MODULE MCBroker ------------------------------
(***************************************************************************)
(* The catalog of the fixture broker, which has two providers of the same  *)
(* model, one without receipts, and two decode policies that differ in the *)
(* smallest and the largest max_tokens it accepts.                         *)
(***************************************************************************)
EXTENDS Broker

MCProvider == {"lab-a100-01", "desk-a10g-cheap"}

MCCatalog ==
    [p \in MCProvider |->
        [model_id |-> "llama", checkpoint_hash |-> "ckpt", key_hash |-> "key",
         commitllm_pin |-> "pin", receipts |-> p = "lab-a100-01"]]

\* What a run may combine.  Either the clock runs and the broker restarts, or
\* bundles are put together, or their fields are edited; only the second needs
\* two prompts, and the third has one prompt and one policy.  Nobody touches a
\* bundle before the last chat: a chat does not read what circulates.
MCScenario ==
    LET prompts == {chats'[i].prompt : i \in DOMAIN chats'}
        policies == {q.decode_policy.max_tokens : q \in issued'}
    IN
    /\ now' > 1 \/ restarts' > 0 =>
          tampers' = 0 /\ splices' = 0 /\ prompts \subseteq {"rainbows"}
    /\ tampers' + splices' > 0 => Len(chats') = MaxChats /\ reply' \in {0, 200}
    /\ tampers' > 0 => splices' = 0 /\ prompts \subseteq {"rainbows"} /\ policies = {1}

MCNext == Next /\ MCScenario

MCSpec == Init /\ [][MCNext]_vars
=============================================================================
