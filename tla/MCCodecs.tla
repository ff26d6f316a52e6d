------------------------------ MODULE MCCodecs ------------------------------
EXTENDS Codecs

\* Everything the tokenizer tells apart.
MCBytes == {Space, Tab, CR, LF, Quote, Backslash, "n", "x", "7", "0x08", "0x80"}

\* The arguments of up to three bytes.
MCArguments == UNION {[1 .. n -> {Space, CR, Quote, Backslash, "n"}] : n \in 0 .. 3}

MCEntries ==
    {[key |-> k, value |-> v, expiration |-> e] :
        k \in {<<>>, <<3>>}, v \in {<<>>, <<1>>}, e \in {NoExpiry, 4 * Milli + 999, 8 * Milli - 1}}

MCPieces ==
    [line |-> {Space, CR, Quote, Backslash, "x", "7"},
     value |-> MCBytes,
     arguments |-> MCArguments,
     words |-> {"SET", "set", "GET", "KEYS", "ex", "k", "-1", "0", "1", "99"},
     size |-> {"0", "1", "2", "5", "6", "k", "B", "M", "G"},
     server |-> {"--help", "--port", "--threads", "--dbfile", "--save-interval", "--max-memory", "", "0", "5000", "70000",
                "x"},
     client |-> {"-h", "--host", "--port", "", "0", "5000", "GET"},
     entries |-> MCEntries,
     file |-> 0 .. 2]

MCLongest ==
    [line |-> 6, value |-> 4, arguments |-> 2, words |-> 5, size |-> 5, server |-> 4, client |-> 5,
     entries |-> 2, file |-> 9]

MCNumerals == ("0" :> 0) @@ ("5000" :> 5000) @@ ("70000" :> 70000)

\* The writer's steady clock started at 1 ms.  Writing starts before, at and after the expiries; reading at once, just before an
\* expiry, just after, and much later, by a process whose steady clock is new.
MCTimes ==
    {[now |-> now, t1 |-> now + late, t2 |-> now + late + 1500, t3 |-> t3, t4 |-> t3 + gap, s1 |-> Milli, s2 |-> s2] :
        now \in {2 * Milli, 5 * Milli + 998, 5 * Milli + 999}, late \in {0, 2},
        t3 \in {6 * Milli, 9 * Milli - 2 * Micro, 20 * Milli}, gap \in {0, 700}, s2 \in {0, 6 * Milli}}
=============================================================================
