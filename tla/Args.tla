-------------------------------- MODULE Args --------------------------------
(***************************************************************************)
(* The command line of `vi` as its log shows it: process.start carries the *)
(* arguments joined with spaces, and the redaction of vi-log takes the     *)
(* line apart at white space again to hide the API key.                    *)
(*                                                                         *)
(* An argument is the sequence of its words, the parts of it that hold no  *)
(* white space.  A word is a pair: what it starts with, one of the two     *)
(* prefixes the redaction knows or nothing, and the rest of it.            *)
(***************************************************************************)
EXTENDS Naturals, Sequences, SequencesExt

CONSTANTS
    Command,     \* the subcommands of Cli, and "vi" for none
    Text,        \* words of the other arguments
    KeyText,     \* words of API keys
    NoKey        \* no --api-key

Plain(text) == <<"", text>>
KeyFlag == Plain("--api-key")
Redacted == "[REDACTED]"

Prefix == {"", "--api-key=", "VI_API_KEY="}
OtherText == Command \cup Text \cup {"", "vi", "--api-key", Redacted}
Word == Prefix \X (OtherText \cup KeyText)

\* A word of a key is known when it is seen: it is the word of nothing else.
ASSUME ArgsConstants == KeyText \cap OtherText = {}

Arg == Seq(Prefix \X OtherText)

\* Cli: the command, the API key if the line gives one and how it gives it, and
\* the other arguments, which do not repeat the key.  The flag is global: it may
\* stand before, between and behind them.
Line ==
    [command : Command, api_key : Seq(KeyText) \cup {NoKey},
     glued : BOOLEAN,       \* --api-key=KEY, rather than KEY an argument of its own
     front : Seq(Arg), back : Seq(Arg)]

PlainWords(texts) == [i \in DOMAIN texts |-> Plain(texts[i])]

KeyArgs(line) ==
    IF line.api_key = NoKey THEN <<>>
    ELSE IF ~line.glued THEN << <<KeyFlag>>, PlainWords(line.api_key) >>
    ELSE IF line.api_key = <<>> THEN << << <<"--api-key=", "">> >> >>
    ELSE << << <<"--api-key=", Head(line.api_key)>> >> \o PlainWords(Tail(line.api_key)) >>

FrontArgs(line) == << <<Plain("vi")>> >> \o line.front

Argv(line) == FrontArgs(line) \o KeyArgs(line) \o line.back

-----------------------------------------------------------------------------
\* The words of the joined arguments: where one argument ends and the next
\* begins is lost, and so is an argument without words.
Tokens(argv) == FlattenSeq(argv)

\* Mutant: the value is looked for in an argument of its own only.
ShownAlone(word) == word

\* What stands in the log for a word that is not the value of a flag.
Shown(word) == IF word[1] = "" THEN word ELSE <<word[1], Redacted>>

\* redact_next, behind each word: set by a bare flag, unless that is itself the
\* value of one.
RedactNext(words) ==
    LET redact_next[i \in 0..Len(words)] ==
            IF i = 0 THEN FALSE ELSE ~redact_next[i - 1] /\ words[i] = KeyFlag
    IN redact_next

SanitizeArgs(argv) ==
    LET words == Tokens(argv)
        redact_next == RedactNext(words)
    IN [i \in DOMAIN words |->
           IF redact_next[i - 1] THEN Plain(Redacted) ELSE Shown(words[i])]
=============================================================================
