------------------------------ MODULE Options -------------------------------
(***************************************************************************)
(* The command lines of vcache-server and vcache-cli.  An argument is a    *)
(* word; only parseByteSize looks at the characters of one.                *)
(***************************************************************************)
EXTENDS Integers, Sequences, SequencesExt, Functions

CONSTANTS
    Kilo,       \* 1024, or less
    SizeMax,    \* the largest size_t
    Numerals    \* the words that are integers, to the last character: a function

\* The decimal value of some digits.
Digit == ("0" :> 0) @@ ("1" :> 1) @@ ("2" :> 2) @@ ("5" :> 5) @@ ("6" :> 6)
Decimal(digits) == FoldLeft(LAMBDA n, d : n * 10 + Digit[d], 0, digits)

\* What each suffix multiplies by, in either case.
Upper(c) == CASE c = "k" -> "K" [] c = "b" -> "B" [] OTHER -> c
Multiplier ==
    (<<>> :> 1) @@ (<<"B">> :> 1)
    @@ (<<"K">> :> Kilo) @@ (<<"K", "B">> :> Kilo)
    @@ (<<"M">> :> Kilo * Kilo) @@ (<<"M", "B">> :> Kilo * Kilo)
    @@ (<<"G">> :> Kilo * Kilo * Kilo) @@ (<<"G", "B">> :> Kilo * Kilo * Kilo)

\* Where the digits at the start of a text end, and what follows them.
DigitEnd(text) == Max({n \in 0 .. Len(text) : \A i \in 1 .. n : text[i] \in DOMAIN Digit})
Suffix(text) == [i \in 1 .. Len(text) - DigitEnd(text) |-> Upper(text[DigitEnd(text) + i])]
Number(text) == Decimal(SubSeq(text, 1, DigitEnd(text)))

\* Mutant of parseByteSize: it multiplies first and sees what came out.
parseByteSizeLate(text) ==
    IF DigitEnd(text) = 0 \/ Suffix(text) \notin DOMAIN Multiplier \/ Number(text) > SizeMax THEN -1
    ELSE LET bytes == (Number(text) * Multiplier[Suffix(text)]) % (SizeMax + 1)
         IN  IF bytes < Number(text) THEN -1 ELSE bytes

\* parseByteSize; -1 when it refuses the text.  stoull refuses more than SizeMax.
parseByteSize(text) ==
    IF DigitEnd(text) = 0 \/ Suffix(text) \notin DOMAIN Multiplier \/ Number(text) > SizeMax THEN -1
    ELSE IF Number(text) > SizeMax \div Multiplier[Suffix(text)] THEN -1
    ELSE Number(text) * Multiplier[Suffix(text)]

-----------------------------------------------------------------------------
\* The server's options, the values they take and the defaults.  For --max-memory a
\* word is a size when it is a number.
ServerDefaults ==
    ("--port" :> 6379) @@ ("--bind" :> "127.0.0.1") @@ ("--threads" :> 64) @@ ("--shards" :> 64)
    @@ ("--dbfile" :> "") @@ ("--save-interval" :> 0) @@ ("--max-memory" :> 0)
ServerOptions == DOMAIN ServerDefaults
Textual == {"--bind", "--dbfile", "--host"}

\* An empty --save-interval passes for 0: stoll throws, none of the word was consumed,
\* and that is all of it.
InRange(n, low, high) == low <= n /\ n <= high
Accepts(option, word) ==
    \/ option \in Textual
    \/ option = "--save-interval" /\ word = ""
    \/ /\ word \in DOMAIN Numerals
       /\ CASE option = "--port" -> InRange(Numerals[word], 0, 65535)
            [] option \in {"--threads", "--shards"} -> InRange(Numerals[word], 1, 4096)
            [] OTHER -> Numerals[word] >= 0
Meaning(option, word) ==
    IF option \in Textual THEN word ELSE IF word = "" THEN 0 ELSE Numerals[word]

Refused == [ok |-> FALSE, exit |-> FALSE, config |-> ServerDefaults]
RECURSIVE ParseServer(_, _, _)
ParseServer(argv, i, config) ==
    IF i > Len(argv) THEN [ok |-> TRUE, exit |-> FALSE, config |-> config]
    ELSE IF argv[i] \in {"--help", "-h"} THEN [ok |-> TRUE, exit |-> TRUE, config |-> config]
    ELSE IF argv[i] \notin ServerOptions \/ i = Len(argv) THEN Refused
    ELSE IF ~Accepts(argv[i], argv[i + 1]) THEN Refused
    ELSE ParseServer(argv, i + 2, [config EXCEPT ![argv[i]] = Meaning(argv[i], argv[i + 1])])

\* main goes on to start a server.
Starts(argv) ==
    LET parsed == ParseServer(argv, 1, ServerDefaults)
    IN  /\ parsed.ok /\ ~parsed.exit
        /\ ~(parsed.config["--save-interval"] > 0 /\ parsed.config["--dbfile"] = "")

\* The client's options; the first word that is none starts a command.
ClientDefaults == ("--host" :> "127.0.0.1") @@ ("--port" :> 6379)
ClientAccepts(option, word) ==
    option = "--host" \/ (word \in DOMAIN Numerals /\ InRange(Numerals[word], 1, 65535))
NoOptions == [ok |-> FALSE, help |-> FALSE, config |-> ClientDefaults, oneShot |-> <<>>]

RECURSIVE ParseClient(_, _, _)
ParseClient(argv, i, config) ==
    IF i > Len(argv) THEN [ok |-> TRUE, help |-> FALSE, config |-> config, oneShot |-> <<>>]
    ELSE IF argv[i] \in {"--help", "-h"} THEN [ok |-> TRUE, help |-> TRUE, config |-> config, oneShot |-> <<>>]
    ELSE IF argv[i] \notin DOMAIN ClientDefaults
    THEN [ok |-> TRUE, help |-> FALSE, config |-> config, oneShot |-> SubSeq(argv, i, Len(argv))]
    ELSE IF i = Len(argv) \/ ~ClientAccepts(argv[i], argv[i + 1]) THEN NoOptions
    ELSE ParseClient(argv, i + 2, [config EXCEPT ![argv[i]] = Meaning(argv[i], argv[i + 1])])
=============================================================================
