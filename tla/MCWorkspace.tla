----------------------------- MODULE MCWorkspace -----------------------------
(***************************************************************************)
(* The command lines of the runs of Workspace.                             *)
(***************************************************************************)
EXTENDS Workspace

CONSTANTS K, v0, v1

Keygens ==
    [command : {"keygen"}, output : {K}, valid : {TRUE}, force : BOOLEAN,
     expected : {v0}, drift : {FALSE}]

\* A key for a given checkpoint, with and without --force; one for any, one
\* for a drift, one that is refused; and a chat that writes to the same path.
Jobs ==
    Keygens \cup
    {[command |-> "keygen", output |-> K, valid |-> TRUE, force |-> FALSE,
      expected |-> v1, drift |-> TRUE],
     [command |-> "keygen", output |-> K, valid |-> TRUE, force |-> FALSE,
      expected |-> Any, drift |-> FALSE],
     [command |-> "keygen", output |-> K, valid |-> FALSE, force |-> FALSE,
      expected |-> Any, drift |-> FALSE],
     [command |-> "chat", output |-> K, valid |-> TRUE, force |-> FALSE,
      expected |-> Any, drift |-> FALSE],
     [command |-> "chat", output |-> K, valid |-> FALSE, force |-> FALSE,
      expected |-> Any, drift |-> FALSE]}
=============================================================================
