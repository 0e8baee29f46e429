------------------------------ MODULE MCFrame -------------------------------
(***************************************************************************)
(* The processes TLC starts: every command line of the grammar with one    *)
(* simple environment, and a plain command line in every environment.      *)
(***************************************************************************)
EXTENDS Frame

MCCommand == {"vi", "keygen", "chat", "verify", "tui", "__panic", "__error"}

\* The values the other options of a line are given.
MCValue ==
    { <<>>, <<Plain("hello")>>, <<Plain("hello"), KeyFlag>>,
      <<Plain("hello"), KeyFlag, Plain("hello")>>, << <<"VI_API_KEY=", "hello">> >> }

MCOption == {"--prompt", "--receipt-out", "--model", "--receipt", "--endpoint"}

MCText == MCOption \cup {"hello"}

\* The arguments besides the key.
MCArgs(command, value) ==
    CASE command = "vi" -> <<>>
      [] command = "chat" ->
            << <<Plain("chat")>>, <<Plain("--prompt")>>, value, <<Plain("--receipt-out")>>, value >>
      [] command = "keygen" -> << <<Plain("keygen")>>, <<Plain("--model")>>, value >>
      [] command = "verify" -> << <<Plain("verify")>>, <<Plain("--receipt")>>, value >>
      [] command = "tui" -> << <<Plain("tui")>>, <<Plain("--endpoint")>>, value >>
      [] command = "__panic" -> << <<Plain("__panic")>> >>
      [] command = "__error" -> << <<Plain("__error")>>, value >>

\* Where the key may go: not between an option and its value.
Places(args) ==
    { n \in 0..Len(args) : n = 0 \/ args[n] \notin { <<Plain(o)>> : o \in MCOption } }

MCApiKey == {NoKey, <<>>, <<"k1">>, <<"k1", "k2">>}

MCLinesOf(command, value) ==
    LET args == MCArgs(command, value) IN
    { [command |-> command, api_key |-> key, glued |-> glued,
       front |-> SubSeq(args, 1, n), back |-> SubSeq(args, n + 1, Len(args))] :
          key \in MCApiKey, glued \in BOOLEAN, n \in Places(args) }

MCLine ==
    { l \in UNION { MCLinesOf(c, v) : c \in MCCommand, v \in MCValue } :
          l.api_key = NoKey => ~l.glued /\ l.back = <<>> }

PlainEnv ==
    [vi_log |-> "info", rust_log |-> "absent", trace |-> FALSE, endpoint |-> TRUE,
     test_hooks |-> TRUE]

MCFilter == {"absent", "blank", "info", "debug", "invalid"}

MCLines ==
    { <<[clap |-> "ok", line |-> l, log |-> "absent", endpoint |-> FALSE, receipt |-> "file",
         deep |-> FALSE], PlainEnv>> : l \in MCLine }

MCPlainLine(command) ==
    [command |-> command, api_key |-> NoKey, glued |-> FALSE,
     front |-> MCArgs(command, <<Plain("hello")>>), back |-> <<>>]

\* What a command does not look at keeps one value.
MCEnvsOf(command) ==
    { <<[clap |-> "ok", line |-> MCPlainLine(command), log |-> f, endpoint |-> e, receipt |-> r,
         deep |-> p],
        [vi_log |-> v, rust_log |-> w, trace |-> t, endpoint |-> FALSE, test_hooks |-> h]>> :
        f \in MCFilter,
        e \in IF command \in {"chat", "verify"} THEN BOOLEAN ELSE {FALSE},
        r \in IF command = "chat" THEN {"file", "none", "both", "neither"} ELSE {"file"},
        p \in IF command = "verify" THEN BOOLEAN ELSE {FALSE},
        v \in MCFilter, w \in {"absent", "debug", "invalid"}, t \in BOOLEAN,
        h \in IF command \in {"__panic", "__error"} THEN BOOLEAN ELSE {FALSE} }

\* clap is done before anything but the trace id is looked at.
MCRefused ==
    { <<[clap |-> c, line |-> MCPlainLine("vi"), log |-> "absent", endpoint |-> FALSE,
         receipt |-> "file", deep |-> FALSE], [PlainEnv EXCEPT !.trace = t]>> :
        c \in {"usage", "help"}, t \in BOOLEAN }

MCInvocation == MCLines \cup MCRefused \cup UNION { MCEnvsOf(d) : d \in MCCommand }
=============================================================================
