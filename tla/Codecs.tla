------------------------------- MODULE Codecs -------------------------------
(***************************************************************************)
(* The pure functions of the program, against what they are for: parsing   *)
(* and quoting (CommandText), the snapshot file (SnapshotFormat) and the   *)
(* command line (Options).  A behaviour picks a kind of input and grows one*)
(* piece by piece; the properties are about every input on the way.        *)
(***************************************************************************)
EXTENDS CommandText, SnapshotFormat, Options

CONSTANTS
    Pieces,   \* for each kind of input, the pieces it is made of
    Longest,  \* and the most pieces it has
    Times     \* the times a snapshot may be written and read

VARIABLES kind, input

Init == kind \in DOMAIN Pieces /\ input = <<>>
Next ==
    /\ Len(input) < Longest[kind]
    /\ \E piece \in Pieces[kind] : input' = Append(input, piece)
    /\ kind' = kind
Spec == Init /\ [][Next]_<<kind, input>>

-----------------------------------------------------------------------------
\* The grammar of a line, as a machine that reads it one byte at a time.
Start == [mode |-> "gap", tokens |-> <<>>, word |-> <<>>]
Go(s, mode) == [s EXCEPT !.mode = mode]
Add(s, c) == [s EXCEPT !.mode = "quoted", !.word = Append(@, c)]
EndToken(s) == [mode |-> "gap", tokens |-> Append(s.tokens, s.word), word |-> <<>>]
InQuotes(s, c) ==
    CASE c = Backslash -> Go(s, "escape") [] c = Quote -> Go(s, "closed") [] OTHER -> Add(s, c)
Feed(s, c) ==
    CASE s.mode = "gap" /\ isSpace(c) -> s
      [] s.mode = "gap" /\ c = Quote -> Go(s, "quoted")
      [] s.mode \in {"gap", "bare"} /\ ~isSpace(c) -> Go(Add(s, c), "bare")
      [] s.mode \in {"bare", "closed"} /\ isSpace(c) -> EndToken(s)
      [] s.mode = "quoted" -> InQuotes(s, c)
      [] s.mode = "escape" -> IF c = "x" THEN Go(s, "hex") ELSE Add(s, Unescape(c))
      [] s.mode = "hex" -> IF c \in HexDigits THEN Go(s, c) ELSE InQuotes(Add(s, "x"), c)
      [] s.mode \in HexDigits ->
            IF c \in HexDigits THEN Add(s, HexByte[<<s.mode, c>>])
            ELSE InQuotes(Add(Add(s, "x"), s.mode), c)
      [] OTHER -> Go(s, "bad")
Result(s) ==
    CASE s.mode = "gap" -> [ok |-> TRUE, tokens |-> s.tokens]
      [] s.mode \in {"bare", "closed"} -> [ok |-> TRUE, tokens |-> EndToken(s).tokens]
      [] OTHER -> Unbalanced

\* tokenize, which looks ahead and jumps, agrees with the grammar read byte by byte:
\* bare words, quoted ones with their escapes, and the lines that are refused.  parse
\* accepts the commands of the grammar and no others, and a key gets an expiry exactly
\* when one within bounds was asked for.
ParserIsTheGrammar ==
    /\ kind = "line" => tokenize(input) = Result(FoldLeft(Feed, Start, Chomp(input)))
    /\ kind = "words" =>
           LET verb == toUpperAscii(input[1])
               expiry == Len(input) = 5 /\ verb = "SET" /\ toUpperAscii(input[4]) = "EX"
                         /\ input[5] \in DOMAIN parseInt64 /\ parseInt64[input[5]] \in 1 .. kMaxExpireSeconds
               command == parse(input)
           IN  /\ command.ok <=>
                     \/ input = <<>>
                     \/ Len(input) = 1 /\ verb \in {"KEYS", "SAVE"}
                     \/ Len(input) = 2 /\ verb \in {"GET", "DEL", "EXISTS"}
                     \/ Len(input) = 3 /\ verb = "SET"
                     \/ expiry
               /\ command.ok => command.expireSeconds = IF expiry THEN parseInt64[input[5]] ELSE 0

\* vcache-cli waits for a reply to every line typed at its prompt that it sends, and
\* the server gives none to a blank one: whatever passes the prompt's filter for blank
\* lines is a command or an error to the server's tokenizer, never blank.  (A one-shot
\* command passes no filter.)
SentLinesAreAnswered ==
    kind = "line" /\ Sends(input) => tokenize(input) # [ok |-> TRUE, tokens |-> <<>>]

\* What escapeForWire makes of a value, put in quotes, is that value again to
\* tokenize, byte for byte, and no stored byte can end a reply's line early, nor can
\* a verb that an error message repeats.
ValuesSurviveTheWire ==
    kind = "value" =>
        /\ tokenize(<<Quote>> \o escapeForWire(input) \o <<Quote>>) = [ok |-> TRUE, tokens |-> <<input>>]
        /\ \A c \in Range(escapeForWire(input)) \cup Range(sanitizeForEcho(input)) : Printable(c)

\* The arguments of a one-shot command reach the server as the shell passed them,
\* white space, quotes and backslashes included.  The exceptions: a word that is sent
\* as it is and starts with a quote, and one that ends the line with a CR.
ArgumentsSurviveJoining ==
    kind = "arguments" =>
        \/ tokenize(joinOneShot(input)) = [ok |-> TRUE, tokens |-> input]
        \/ \E i \in DOMAIN input :
              ~NeedsQuotes(input[i]) /\ (Head(input[i]) = Quote \/ (i = Len(input) /\ Last(input[i]) = CR))

\* Text comes through quoting and unquoting unchanged: the values in the server's
\* replies (escapeForWire) and the arguments of the CLI (joinOneShot).
TextSurvivesTheWire == ValuesSurviveTheWire /\ ArgumentsSurviveJoining

\* A size that parseByteSize accepts is the size that was written, and it refuses only
\* what is not a size or does not fit a size_t.
SizesAreExact ==
    kind = "size" =>
        LET written == DigitEnd(input) > 0 /\ Suffix(input) \in DOMAIN Multiplier
            size == Number(input) * Multiplier[Suffix(input)]
        IN  parseByteSize(input) = IF written /\ size <= SizeMax THEN size ELSE -1

\* A server starts only with a configuration it can run: every option has the last
\* value it was given, in range, and no saves are scheduled without a file for them.
\* The exception: an empty --save-interval is taken for 0.
StartsAsConfigured ==
    kind = "server" /\ Starts(input) =>
        LET config == ParseServer(input, 1, ServerDefaults).config
            given(o) == {i \in DOMAIN input : i % 2 = 1 /\ input[i] = o}
            says(o, word) ==
                \/ o \in Textual /\ config[o] = word
                \/ o \notin Textual /\ word \in DOMAIN Numerals /\ config[o] = Numerals[word]
                \/ o = "--save-interval" /\ word = "" /\ config[o] = 0
        IN  /\ \A o \in ServerOptions :
                  IF given(o) = {} THEN config[o] = ServerDefaults[o] ELSE says(o, input[Max(given(o)) + 1])
            /\ config["--port"] \in 0 .. 65535 /\ config["--threads"] > 0 /\ config["--shards"] > 0
            /\ config["--save-interval"] > 0 => config["--dbfile"] # ""

\* The one-shot command of vcache-cli is everything after its own options, and none
\* of them.
OneShotIsTheRest ==
    kind = "client" =>
        LET parsed == ParseClient(input, 1, ClientDefaults)
            options == Len(input) - Len(parsed.oneShot)
        IN  parsed.ok /\ ~parsed.help =>
                /\ options % 2 = 0 /\ parsed.oneShot = SubSeq(input, options + 1, Len(input))
                /\ \A i \in 1 .. options : i % 2 = 1 => input[i] \in DOMAIN ClientDefaults
                /\ parsed.oneShot # <<>> => parsed.oneShot[1] \notin DOMAIN ClientDefaults

\* What the programs run with is what their command lines say (parseArguments and
\* parseByteSize): no size wraps around, no option is lost or made up, and no word of
\* a one-shot command is taken for one.
OptionsAreHonoured == SizesAreExact /\ StartsAsConfigured /\ OneShotIsTheRest

-----------------------------------------------------------------------------
\* The entry e, written at t.t1 and t.t2, is the restored entry r: the same key and
\* value, no expiry where there was none, and otherwise one that has moved by no more
\* than the reading of the clocks takes and a millisecond.
Same(e, r, t) ==
    LET kept == e.expiration + t.s1 + (t.t2 - t.t1) + (t.t4 - t.t3)
    IN  /\ r.key = e.key /\ r.value = e.value
        /\ e.expiration = NoExpiry <=> r.expiration = NoExpiry
        /\ e.expiration # NoExpiry =>
               r.expiration + t.s2 > kept - Milli - 2 * Micro /\ r.expiration + t.s2 < kept + 2 * Micro

\* decode undoes encode, for an empty keyspace and empty keys and values too: every
\* key that was there is there again, in its place, with its expiry; but the ones that
\* had expired when they were written, and those with at most a millisecond left when
\* they are read.
SnapshotsRestore ==
    kind = "entries" =>
        \A t \in Times : \A back \in {decode(encode(input, t.s1, t.now, t.t1, t.t2), t.s2, t.t3, t.t4)} :
            LET expires(e) == e.expiration + t.s1
                may(e) == e.expiration = NoExpiry \/ expires(e) > t.now
                must(e) == e.expiration = NoExpiry \/ (may(e) /\ expires(e) >= t.t3 + Milli + 2 * Micro)
            IN  /\ back.ok
                /\ \E kept \in SUBSET DOMAIN input :
                      LET order == SetToSortSeq(kept, <)
                      IN  /\ \A i \in DOMAIN input : (must(input[i]) => i \in kept) /\ (i \in kept => may(input[i]))
                          /\ Len(order) = Len(back.entries)
                          /\ \A j \in DOMAIN order : Same(input[order[j]], back.entries[j], t)

\* A snapshot with one byte changed, wherever it is, is refused.
ChangedByteIsRefused ==
    kind = "entries" =>
        LET data == encode(input, 0, 0, 0, 0)
        IN  \A i \in DOMAIN data, byte \in 0 .. Base - 1 :
                byte # data[i] => ~decode([data EXCEPT ![i] = byte], 0, 0, 0).ok

\* decode accepts no payload, however well its checksum matches, that is not the
\* encoding of what it read: no bytes are left over, shared by two fields or taken
\* from the checksum.
AcceptsOnlyEncodings ==
    kind = "file" =>
        \A back \in {decode(Sealed(kMagic \o <<kFormatVersion>> \o input), 0, 0, 0)} :
            LET millis(e) == IF e.expiration = NoExpiry THEN 0 ELSE e.expiration \div Milli
                written(e) == appendLE(Len(e.key), LengthWidth) \o e.key \o appendLE(Len(e.value), LengthWidth)
                              \o e.value \o appendLE(millis(e), ExpiryWidth)
            IN  back.ok =>
                    input = appendLE(Len(back.entries), CountWidth)
                            \o FlattenSeq([i \in DOMAIN back.entries |-> written(back.entries[i])])

\* decode restores what encode wrote, or nothing: neither a damaged snapshot nor a
\* payload of another form is taken for one.
OnlySnapshotsAreDecoded == ChangedByteIsRefused /\ AcceptsOnlyEncodings
=============================================================================
