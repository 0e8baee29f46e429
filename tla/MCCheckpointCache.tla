-------------------------- MODULE MCCheckpointCache --------------------------
(***************************************************************************)
(* A mirror whose files have a long and a short version.                   *)
(***************************************************************************)
EXTENDS CheckpointCache

MCSize == [v \in {"long", "short"} |-> IF v = "long" THEN 2 ELSE 1]

MCPublished == <<"long", "short">>
=============================================================================
