----------------------------- MODULE MCProvider -----------------------------
(***************************************************************************)
(* Two requests at a time against a limit of two in two and a half seconds,*)
(* and up to two signals.  The requests of a run that go far are made in a *)
(* provider that is up and stays up; before that, or when it ends, there   *)
(* are at most two.                                                        *)
(***************************************************************************)
EXTENDS Provider

MCUp == line' = "wait" /\ ~pending' /\ server' = "running" /\ healthz' = "running" /\ stderr'

MCNext == Next /\ (requests' > 1 \/ clock' > 1 => MCUp)

MCSpec == Init /\ [][MCNext]_vars /\ Fairness
=============================================================================
