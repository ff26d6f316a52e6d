---------------------------- MODULE CommandText -----------------------------
(***************************************************************************)
(* The text of commands and replies: CommandParser's tokenizer and grammar,*)
(* CommandExecutor::escapeForWire, and what vcache-cli does to the lines   *)
(* and arguments it is given.  Text is a sequence of bytes; a byte is named*)
(* by the character it is, or by its number when it has none.              *)
(***************************************************************************)
EXTENDS Integers, Sequences, SequencesExt, Functions

CONSTANTS kMaxExpireSeconds, kMaxEchoedVerbLength

Space == " "
Tab == "tab"
CR == "cr"
LF == "lf"
Quote == "\""
Backslash == "\\"

\* Three of the sixteen digits, and the bytes two of them make.
HexDigits == {"0", "7", "8"}
HexByte ==
    (<<"0", "0">> :> "0x00") @@ (<<"0", "7">> :> "0x07") @@ (<<"0", "8">> :> "0x08")
    @@ (<<"7", "0">> :> "p") @@ (<<"7", "7">> :> "w") @@ (<<"7", "8">> :> "x")
    @@ (<<"8", "0">> :> "0x80") @@ (<<"8", "7">> :> "0x87") @@ (<<"8", "8">> :> "0x88")
Unprintable == {Tab, CR, LF, "0x00", "0x07", "0x08", "0x80", "0x87", "0x88"}

isSpace(c) == c \in {Space, Tab}

\* What a character stands for after a backslash in quotes, other than x.
Escapes == ("n" :> LF) @@ ("r" :> CR) @@ ("t" :> Tab) @@ ("b" :> "0x08") @@ ("a" :> "0x07")
Unescape(c) == IF c \in DOMAIN Escapes THEN Escapes[c] ELSE c

\* The line without the CR and LF characters it ends in.
RECURSIVE Chomp(_)
Chomp(line) == IF line # <<>> /\ Last(line) \in {CR, LF} THEN Chomp(Front(line)) ELSE line

\* The rest of a quoted token from position i on: its bytes, whether its closing
\* quote was found, and the position after it.
RECURSIVE Quoted(_, _)
Quoted(line, i) ==
    IF i > Len(line) THEN [bytes |-> <<>>, closed |-> FALSE, next |-> i]
    ELSE IF line[i] = Backslash /\ i < Len(line)
    THEN LET hex == line[i + 1] = "x" /\ i + 3 <= Len(line) /\ {line[i + 2], line[i + 3]} \subseteq HexDigits
             byte == IF hex THEN HexByte[<<line[i + 2], line[i + 3]>>] ELSE Unescape(line[i + 1])
         IN  [Quoted(line, i + IF hex THEN 4 ELSE 2) EXCEPT !.bytes = <<byte>> \o @]
    ELSE IF line[i] = Quote THEN [bytes |-> <<>>, closed |-> TRUE, next |-> i + 1]
    ELSE [Quoted(line, i + 1) EXCEPT !.bytes = <<line[i]>> \o @]

\* The tokens of a line from position i on, or the error: a quote that is not
\* closed, or closed in the middle of a token.
Unbalanced == [ok |-> FALSE, tokens |-> <<>>]

\* Mutant of TokensFrom: a token may go on after its closing quote.
RECURSIVE TokensFromGlued(_, _)
TokensFromGlued(line, i) ==
    IF i > Len(line) THEN [ok |-> TRUE, tokens |-> <<>>]
    ELSE IF isSpace(line[i]) THEN TokensFromGlued(line, i + 1)
    ELSE IF line[i] = Quote
    THEN LET q == Quoted(line, i + 1)
             more == TokensFromGlued(line, q.next)
         IN  IF ~q.closed \/ ~more.ok THEN Unbalanced ELSE [more EXCEPT !.tokens = <<q.bytes>> \o @]
    ELSE LET ends == {j \in i .. Len(line) : isSpace(line[j])}
             end == IF ends = {} THEN Len(line) + 1 ELSE Min(ends)
             more == TokensFromGlued(line, end)
         IN  IF ~more.ok THEN Unbalanced ELSE [more EXCEPT !.tokens = <<SubSeq(line, i, end - 1)>> \o @]

RECURSIVE TokensFrom(_, _)
TokensFrom(line, i) ==
    IF i > Len(line) THEN [ok |-> TRUE, tokens |-> <<>>]
    ELSE IF isSpace(line[i]) THEN TokensFrom(line, i + 1)
    ELSE IF line[i] = Quote
    THEN LET q == Quoted(line, i + 1)
             more == TokensFrom(line, q.next)
         IN  IF ~q.closed \/ (q.next <= Len(line) /\ ~isSpace(line[q.next])) \/ ~more.ok THEN Unbalanced
             ELSE [more EXCEPT !.tokens = <<q.bytes>> \o @]
    ELSE LET ends == {j \in i .. Len(line) : isSpace(line[j])}
             end == IF ends = {} THEN Len(line) + 1 ELSE Min(ends)
             more == TokensFrom(line, end)
         IN  IF ~more.ok THEN Unbalanced ELSE [more EXCEPT !.tokens = <<SubSeq(line, i, end - 1)>> \o @]

tokenize(line) == TokensFrom(Chomp(line), 1)

\* Mutant of EscapeByte: a backslash stays as it is.
EscapeByteBackslash(c) ==
    CASE c = Quote -> <<Backslash, c>>
      [] c = LF -> <<Backslash, "n">>
      [] c = CR -> <<Backslash, "r">>
      [] c = Tab -> <<Backslash, "t">>
      [] c \in Unprintable \ {LF, CR, Tab} -> <<Backslash, "x">> \o (CHOOSE h \in DOMAIN HexByte : HexByte[h] = c)
      [] OTHER -> <<c>>

\* escapeForWire.
EscapeByte(c) ==
    CASE c \in {Backslash, Quote} -> <<Backslash, c>>
      [] c = LF -> <<Backslash, "n">>
      [] c = CR -> <<Backslash, "r">>
      [] c = Tab -> <<Backslash, "t">>
      [] c \in Unprintable \ {LF, CR, Tab} -> <<Backslash, "x">> \o (CHOOSE h \in DOMAIN HexByte : HexByte[h] = c)
      [] OTHER -> <<c>>
escapeForWire(raw) == FlattenSeq([i \in DOMAIN raw |-> EscapeByte(raw[i])])

\* The verb an error message repeats.
Printable(c) == c \notin Unprintable
sanitizeForEcho(verb) ==
    LET limit == IF Len(verb) < kMaxEchoedVerbLength THEN Len(verb) ELSE kMaxEchoedVerbLength
    IN  [i \in 1 .. limit |-> IF Printable(verb[i]) THEN verb[i] ELSE "?"]
        \o (IF Len(verb) > limit THEN <<".", ".", ".">> ELSE <<>>)

\* joinOneShot: arguments with white space in them are quoted again.
NeedsQuotes(part) == part = <<>> \/ \E i \in DOMAIN part : isSpace(part[i])

Requote(part) ==
    <<Quote>>
    \o FlattenSeq([i \in DOMAIN part |->
           IF part[i] \in {Quote, Backslash} THEN <<Backslash, part[i]>> ELSE <<part[i]>>])
    \o <<Quote>>
joinOneShot(parts) ==
    FlattenSeq([i \in DOMAIN parts |->
        (IF i > 1 THEN <<Space>> ELSE <<>>) \o (IF NeedsQuotes(parts[i]) THEN Requote(parts[i]) ELSE parts[i])])

\* Mutant of Sends: only the empty line counts as blank.
SendsNonempty(line) == line # <<>>

\* The lines of its input vcache-cli sends to the server: not the blank ones.  (The
\* local commands exit, quit and help are words like any other here.)
Sends(line) == \E i \in DOMAIN line : line[i] \notin {Space, Tab, CR}

-----------------------------------------------------------------------------
\* parse works on tokens.  Here a token is a word: a verb or EX in either case,
\* a number, or something else.
kCommands ==
    ("SET" :> [min |-> 2, max |-> 4]) @@ ("GET" :> [min |-> 1, max |-> 1])
    @@ ("DEL" :> [min |-> 1, max |-> 1]) @@ ("EXISTS" :> [min |-> 1, max |-> 1])
    @@ ("KEYS" :> [min |-> 0, max |-> 0]) @@ ("SAVE" :> [min |-> 0, max |-> 0])

toUpperAscii(word) ==
    CASE word = "set" -> "SET" [] word = "get" -> "GET" [] word = "keys" -> "KEYS" [] word = "ex" -> "EX"
      [] OTHER -> word

\* The words that are 64-bit integers.  99 stands for one above the longest expiry;
\* a number that does not fit, or has something behind it, is no integer.
parseInt64 == ("-1" :> -1) @@ ("0" :> 0) @@ ("1" :> 1) @@ ("99" :> 99)

Failure == [ok |-> FALSE]
Command(type, key, value, seconds) ==
    [ok |-> TRUE, type |-> type, key |-> key, value |-> value, expireSeconds |-> seconds]

parse(tokens) ==
    IF tokens = <<>> THEN Command("Empty", "", "", 0)
    ELSE LET verb == toUpperAscii(tokens[1])
             args == Len(tokens) - 1
             arg(i) == IF i <= args THEN tokens[i + 1] ELSE ""
             option == verb = "SET" /\ args > 2
         IN  IF \/ verb \notin DOMAIN kCommands
                \/ args < kCommands[verb].min \/ args > kCommands[verb].max
                \/ option /\ (args # 4 \/ toUpperAscii(tokens[4]) # "EX")
                \/ option /\ tokens[5] \notin DOMAIN parseInt64
                \/ option /\ parseInt64[tokens[5]] \notin 1 .. kMaxExpireSeconds
             THEN Failure
             ELSE Command(verb, arg(1), arg(2), IF option THEN parseInt64[tokens[5]] ELSE 0)
=============================================================================
