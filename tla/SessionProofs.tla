--------------------------- MODULE SessionProofs ----------------------------
(***************************************************************************)
(* Session for every set of command lines, any number of calls and of      *)
(* connections, and any limit on a line.                                   *)
(*                                                                         *)
(* The argument is about the stream of a connection: what handleConnection *)
(* holds, what is under way to it and what sendAll has still to send, as   *)
(* one sequence.  However the bytes are cut up, a step leaves a stream     *)
(* alone, takes its first line away, shortens it at the end or appends a   *)
(* command to it.  The first half of the module shows that each of the     *)
(* four keeps the streams orderly, the second that every step is one of    *)
(* them and keeps the client in step with the reply that is coming.        *)
(***************************************************************************)
EXTENDS Session, TLAPS

Units == [of : Nat, part : Nat, nl : BOOLEAN]
Tags == {"+", "-", "_", "$", ":", "*", "nl"}
LineUnits == [of : Nat, tag : Tags, count : Nat, nl : BOOLEAN]

\* A unit of one of the commands cs, and what comes next after it.
UnitOf(u, cs) ==
    /\ u.of \in 1 .. Len(cs)
    /\ u.part \in 1 .. cs[u.of].size + 1
    /\ u.nl <=> u.part = cs[u.of].size + 1
Follows(u, v) ==
    IF u.nl THEN v.part = 1 ELSE v.of = u.of /\ v.part = u.part + 1

\* The units between two newlines are consecutive ones of one command.
Unbroken(s) ==
    \A i, j \in 1 .. Len(s) : i <= j /\ (\A k \in i .. j - 1 : ~s[k].nl) =>
        s[j].of = s[i].of /\ s[j].part = s[i].part + (j - i)

\* A sequence of units that can be the start of a conversation: whole commands of
\* cs in the order of their numbers, the last one perhaps cut off.
WellFramed(s, cs) ==
    /\ \A i \in 1 .. Len(s) : UnitOf(s[i], cs)
    /\ s # <<>> => s[1].part = 1
    /\ \A i \in 2 .. Len(s) : Follows(s[i - 1], s[i])
    /\ \A i, j \in 1 .. Len(s) : i < j /\ s[i].nl => s[i].of < s[j].of
    /\ Unbroken(s)

\* The executor got all of one of the commands cs.
WholeOf(text, cs) ==
    LET n == text[1].of
    IN  n \in 1 .. Len(cs) /\ text = SubSeq(Framed(n, cs[n].size), 1, cs[n].size)

\* Every command travels on one connection,
Apart(S) ==
    \A c, d \in Conns : c # d =>
        \A i \in 1 .. Len(S[c]), j \in 1 .. Len(S[d]) : S[c][i].of # S[d][j].of

\* after those of its connection that were executed, and only once;
Later(S, ex) ==
    \A e \in 1 .. Len(ex), c \in Conns : ex[e][2] # <<>> =>
        \A i \in 1 .. Len(S[c]) :
            /\ ex[e][2][1].of # S[c][i].of
            /\ ex[e][1] = c => ex[e][2][1].of < S[c][i].of

\* and so they were executed in order.
InOrder(ex) ==
    \A e, f \in 1 .. Len(ex) :
        e < f /\ ex[e][2] # <<>> /\ ex[f][2] # <<>> =>
            /\ ex[e][2][1].of # ex[f][2][1].of
            /\ ex[e][1] = ex[f][1] => ex[e][2][1].of < ex[f][2][1].of

\* The streams S carry the commands cs, and those in ex were executed.
Orderly(S, cs, ex) ==
    /\ \A c \in Conns : WellFramed(S[c], cs)
    /\ Apart(S) /\ Later(S, ex) /\ InOrder(ex)
    /\ \A e \in 1 .. Len(ex) : ex[e][2] # <<>> => WholeOf(ex[e][2], cs)

\* t is the beginning of s.
Begins(t, s) == Len(t) <= Len(s) /\ \A i \in 1 .. Len(t) : t[i] = s[i]

\* What will be read from each connection, of what the client has been asked to
\* send: handleConnection's pending, what is under way, and sendAll's rest unless
\* nothing is read any more.
StreamsOf(p, u, r, f, a, sh) ==
    [c \in Conns |-> IF c = f /\ ~(a[c] = "closed" \/ sh) THEN (p[c] \o u[c]) \o r ELSE p[c] \o u[c]]
Streams == StreamsOf(pending, up, rest, fd, at, shut)

\* The client has read got of the reply r, wants so many lines more, and d is what
\* has arrived or is under way of the rest.
Coming(r, got, wanted, d) ==
    /\ got = <<>> \/ Len(got) < Len(r)
    /\ \A i \in 1 .. Len(got) : got[i] = r[i]
    /\ wanted = IF got = <<>> THEN 0 ELSE Len(r) - Len(got)
    /\ Len(d) <= 2 * (Len(r) - Len(got))
    /\ \A j \in 1 .. Len(d) : d[j] = FramedLines(r)[2 * Len(got) + j]

\* Nothing of the last command has been cut yet, and nothing has been answered.
Unanswered(s, label, sh, d, cs, got, wanted) ==
    LET frame == Framed(Len(cs), cs[Len(cs)].size)
    IN  /\ IF label = "closed" \/ sh THEN Begins(s, frame) ELSE s = frame
        /\ d = <<>> /\ got = <<>> /\ wanted = 0

\* It was executed, and what its reply has not lost is coming.
Answered(s, label, sh, d, cs, got, wanted) ==
    /\ s = <<>> /\ label \in {"recv", "cut", "lost", "closed"}
    /\ \E r \in Replies(Len(cs), cs[Len(cs)].kind) :
          /\ Coming(r, got, wanted, d)
          /\ ~sh /\ label \in {"recv", "cut"} => Len(d) = 2 * (Len(r) - Len(got))

\* The server has said why it closes the connection.
Refusal == <<Line(0, "-", 0)>>
TurnedAway(s, label, d, got, wanted) ==
    s = <<>> /\ label = "closed" /\ d = FramedLines(Refusal) /\ got = <<>> /\ wanted = 0

Talking(s, label, sh, d, cs, got, wanted) ==
    \/ Unanswered(s, label, sh, d, cs, got, wanted)
    \/ Answered(s, label, sh, d, cs, got, wanted)
    \/ TurnedAway(s, label, d, got, wanted)

\* Between commands nothing is under way, or a refusal.
Rested(s, label, b, d, got, wanted) ==
    /\ s = <<>> /\ b = <<>> /\ got = <<>> /\ wanted = 0
    /\ d = <<>> \/ TurnedAway(s, label, d, got, wanted)

InStep ==
    /\ pc = "idle" /\ fd # 0 => Rested(Streams[fd], at[fd], buffer, down[fd], reply, want)
    /\ pc \in {"send", "read"} =>
          Talking(Streams[fd], at[fd], shut, buffer \o down[fd], calls, reply, want)

Labels == {"none", "backlog", "queued", "recv", "cut", "lost", "closed"}

Typed ==
    /\ running \in BOOLEAN /\ shut \in BOOLEAN
    /\ at \in [Conns -> Labels]
    /\ up \in [Conns -> Seq(Units)] /\ pending \in [Conns -> Seq(Units)]
    /\ down \in [Conns -> Seq(LineUnits)] /\ open \in [Conns -> BOOLEAN]
    /\ fd \in 0 .. MaxConns
    /\ buffer \in Seq(LineUnits) /\ rest \in Seq(Units)
    /\ pc \in {"idle", "send", "read", "raw", "killed"}
    /\ reply \in Seq(LineUnits) /\ want \in Nat /\ faults \in 0 .. MaxFaults
    /\ calls \in Seq(Lines) /\ executed \in Seq(Conns \X Seq(Units))

\* How the parts of a connection belong together.
Coupled ==
    /\ pc \in {"raw", "killed"} => fd = 0
    /\ pc \in {"send", "read"} => fd # 0 /\ Len(calls) > 0
    /\ pc # "send" => rest = <<>>
    /\ pc = "idle" => reply = <<>> /\ want = 0
    /\ fd # 0 => open[fd] /\ at[fd] # "none"
    /\ \A c \in Conns : at[c] = "none" => down[c] = <<>>
    /\ \A c \in Conns : at[c] \in {"none", "backlog", "queued", "closed"} => pending[c] = <<>>
    /\ \A c \in Conns : at[c] \in {"none", "closed"} => up[c] = <<>>
    /\ \A c \in Conns : at[c] = "recv" => ~HasLine(pending[c])
    /\ pc = "raw" => at[1] # "none"
    /\ pc = "raw" => Streams[1] = <<>> \/ Streams[1][Len(Streams[1])].nl

\* Why command fails.
Reasons == {"not connected", "send", "closed", "late", "waiting", "silent", "unrecognised"}
Outcomes == [delivered : {FALSE}, why : Reasons] \cup [delivered : {TRUE}, lines : Seq(LineUnits)]

\* One outcome for each command that has returned.
Recorded ==
    /\ outcome \in Seq(Outcomes)
    /\ Len(outcome) = IF pc \in {"send", "read", "killed"} THEN Len(calls) - 1
                      ELSE IF pc = "idle" THEN Len(calls) ELSE 0
    /\ DeliveredAnswersTheCall
    /\ OnlyBlankIsSilent

IInv == Typed /\ Coupled /\ Recorded /\ Orderly(Streams, calls, executed) /\ InStep

-----------------------------------------------------------------------------
(* Sequences.                                                              *)

\* A length is a number.
LEMMA LenNat == ASSUME NEW X, NEW s \in Seq(X) PROVE Len(s) \in Nat
OBVIOUS

\* Sequences that agree everywhere are equal.
LEMMA SeqEqual ==
    ASSUME NEW X, NEW s \in Seq(X), NEW t \in Seq(X), Len(s) = Len(t),
           \A i \in 1 .. Len(s) : s[i] = t[i]
    PROVE  s = t
OBVIOUS

\* Two recv calls get what one would have got.
LEMMA Split ==
    ASSUME NEW X, NEW s \in Seq(X), NEW k \in 0 .. Len(s)
    PROVE  /\ SubSeq(s, 1, k) \in Seq(X) /\ Rest(s, k) \in Seq(X)
           /\ Len(SubSeq(s, 1, k)) = k /\ Len(Rest(s, k)) = Len(s) - k
           /\ \A i \in 1 .. k : SubSeq(s, 1, k)[i] = s[i]
           /\ \A i \in 1 .. Len(s) - k : Rest(s, k)[i] = s[k + i]
BY DEF Rest

\* What append does to a buffer.
LEMMA Joined ==
    ASSUME NEW X, NEW s \in Seq(X), NEW t \in Seq(X)
    PROVE  /\ s \o t \in Seq(X) /\ Len(s \o t) = Len(s) + Len(t)
           /\ \A i \in 1 .. Len(s) : (s \o t)[i] = s[i]
           /\ \A i \in 1 .. Len(t) : (s \o t)[Len(s) + i] = t[i]
           /\ \A i \in Len(s) + 1 .. Len(s) + Len(t) : (s \o t)[i] = t[i - Len(s)]
OBVIOUS

\* Appending twice is appending once.
LEMMA Associative ==
    ASSUME NEW X, NEW s \in Seq(X), NEW l \in Seq(X), NEW r \in Seq(X)
    PROVE  (s \o l) \o r = s \o (l \o r)
<1> DEFINE a == s \o l
           b == l \o r
           x == a \o r
           y == s \o b
<1>0. a \in Seq(X) /\ b \in Seq(X)
  OBVIOUS
<1>1. /\ Len(a) = Len(s) + Len(l)
      /\ \A i \in 1 .. Len(s) : a[i] = s[i]
      /\ \A i \in Len(s) + 1 .. Len(s) + Len(l) : a[i] = l[i - Len(s)]
  BY Joined
<1>2. /\ Len(b) = Len(l) + Len(r)
      /\ \A i \in 1 .. Len(l) : b[i] = l[i]
      /\ \A i \in Len(l) + 1 .. Len(l) + Len(r) : b[i] = r[i - Len(l)]
  BY Joined
<1>3. /\ Len(x) = Len(a) + Len(r)
      /\ \A i \in 1 .. Len(a) : x[i] = a[i]
      /\ \A i \in Len(a) + 1 .. Len(a) + Len(r) : x[i] = r[i - Len(a)]
  <2> HIDE DEF a, b
  <2> QED BY <1>0, Joined
<1>4. /\ Len(y) = Len(s) + Len(b)
      /\ \A i \in 1 .. Len(s) : y[i] = s[i]
      /\ \A i \in Len(s) + 1 .. Len(s) + Len(b) : y[i] = b[i - Len(s)]
  <2> HIDE DEF a, b
  <2> QED BY <1>0, Joined
<1>5. Len(s) \in Nat /\ Len(l) \in Nat /\ Len(r) \in Nat
  OBVIOUS
<1> HIDE DEF a, b, x, y
<1>9. x \in Seq(X) /\ y \in Seq(X)
  BY <1>0 DEF x, y
<1>6. Len(x) = Len(y)
  BY <1>1, <1>2, <1>3, <1>4, <1>5
<1>7. \A i \in 1 .. Len(x) : x[i] = y[i]
  <2> TAKE i \in 1 .. Len(x)
  <2>1. CASE i \in 1 .. Len(s)
    BY <2>1, <1>1, <1>3, <1>4, <1>5
  <2>2. CASE i \in Len(s) + 1 .. Len(s) + Len(l)
    <3> DEFINE j == i - Len(s)
    <3>1. j \in 1 .. Len(l) /\ i \in 1 .. Len(a) /\ i \in Len(s) + 1 .. Len(s) + Len(b)
      BY <2>2, <1>1, <1>2, <1>5
    <3>2. x[i] = a[i] /\ a[i] = l[j] /\ y[i] = b[j]
      BY <2>2, <3>1, <1>1, <1>3, <1>4, Zenon
    <3>3. b[j] = l[j]
      BY <3>1, <1>2, Zenon
    <3> QED BY <3>2, <3>3, Zenon
  <2>3. CASE i \in Len(s) + Len(l) + 1 .. Len(s) + Len(l) + Len(r)
    <3> DEFINE j == i - Len(s)
    <3>1. /\ j \in Len(l) + 1 .. Len(l) + Len(r) /\ i - Len(a) = j - Len(l)
          /\ i \in Len(a) + 1 .. Len(a) + Len(r) /\ i \in Len(s) + 1 .. Len(s) + Len(b)
      BY <2>3, <1>1, <1>2, <1>5
    <3>2. x[i] = r[i - Len(a)] /\ y[i] = b[j]
      BY <3>1, <1>3, <1>4, Zenon
    <3>3. b[j] = r[j - Len(l)]
      BY <3>1, <1>2, Zenon
    <3> QED BY <3>1, <3>2, <3>3, Zenon
  <2> QED BY <2>1, <2>2, <2>3, <1>1, <1>3, <1>5
<1>8. x = y
  BY <1>9, <1>6, <1>7, SeqEqual, Zenon
<1> QED BY <1>8, Zenon DEF a, b, x, y

\* A buffer is its first k units and the rest.
LEMMA Whole ==
    ASSUME NEW X, NEW t \in Seq(X), NEW k \in 0 .. Len(t)
    PROVE  SubSeq(t, 1, k) \o Rest(t, k) = t
<1> DEFINE l == SubSeq(t, 1, k)
           r == Rest(t, k)
           x == l \o r
<1>1. /\ l \in Seq(X) /\ r \in Seq(X) /\ Len(l) = k /\ Len(r) = Len(t) - k
      /\ \A i \in 1 .. k : l[i] = t[i]
      /\ \A i \in 1 .. Len(t) - k : r[i] = t[k + i]
  BY Split, ZenonT(40)
<1> HIDE DEF l, r
<1>2. /\ x \in Seq(X) /\ Len(x) = Len(l) + Len(r)
      /\ \A i \in 1 .. Len(l) : x[i] = l[i]
      /\ \A i \in Len(l) + 1 .. Len(l) + Len(r) : x[i] = r[i - Len(l)]
  BY <1>1, Joined
<1> HIDE DEF x
<1>3. Len(x) = Len(t) /\ Len(t) \in Nat
  BY <1>1, <1>2
<1>4. \A i \in 1 .. Len(x) : x[i] = t[i]
  BY <1>1, <1>2, <1>3
<1>5. x = t
  BY <1>2, <1>3, <1>4, SeqEqual, Zenon
<1> QED BY <1>5, Zenon DEF l, r, x

\* What is moved from the head of t to the end of s stays where it is in the stream.
LEMMA Moved ==
    ASSUME NEW X, NEW s \in Seq(X), NEW t \in Seq(X), NEW k \in 0 .. Len(t)
    PROVE  (s \o SubSeq(t, 1, k)) \o Rest(t, k) = s \o t
<1> DEFINE l == SubSeq(t, 1, k)
           r == Rest(t, k)
<1>1. l \in Seq(X) /\ r \in Seq(X)
  BY Split, Zenon
<1>2. l \o r = t
  BY Whole, Zenon
<1> HIDE DEF l, r
<1>3. (s \o l) \o r = s \o (l \o r)
  <2>1. ASSUME NEW u \in Seq(X), NEW v \in Seq(X), NEW w \in Seq(X)
        PROVE  (u \o v) \o w = u \o (v \o w)
    BY Associative, SMTT(30)
  <2> QED BY <1>1, <2>1, ZenonT(40)
<1> QED BY <1>2, <1>3, Zenon DEF l, r

\* Cutting the head of s \o w, within s.
LEMMA HeadCut ==
    ASSUME NEW X, NEW s \in Seq(X), NEW w \in Seq(X), NEW e \in 1 .. Len(s)
    PROVE  /\ Rest(s \o w, e) = Rest(s, e) \o w
           /\ SubSeq(s \o w, 1, e - 1) = SubSeq(s, 1, e - 1)
           /\ e \in 1 .. Len(s \o w) /\ \A j \in 1 .. Len(s) : (s \o w)[j] = s[j]
<1> DEFINE x == s \o w
           y == Rest(s, e)
           z == Rest(x, e)
           v == y \o w
<1>1. /\ x \in Seq(X) /\ Len(x) = Len(s) + Len(w)
      /\ \A i \in 1 .. Len(s) : x[i] = s[i]
      /\ \A i \in Len(s) + 1 .. Len(s) + Len(w) : x[i] = w[i - Len(s)]
  BY Joined, ZenonT(40)
<1>2. Len(s) \in Nat /\ Len(w) \in Nat /\ e \in Nat /\ e \in 0 .. Len(s)
  OBVIOUS
<1>3. y \in Seq(X) /\ Len(y) = Len(s) - e /\ \A i \in 1 .. Len(s) - e : y[i] = s[e + i]
  BY <1>2, Split, Zenon
<1> HIDE DEF x, y
<1>4. e \in 0 .. Len(x) /\ e \in 1 .. Len(x)
  BY <1>1, <1>2
<1>5. z \in Seq(X) /\ Len(z) = Len(x) - e /\ \A i \in 1 .. Len(x) - e : z[i] = x[e + i]
  BY <1>1, <1>4, Split, ZenonT(40)
<1>6. /\ v \in Seq(X) /\ Len(v) = Len(y) + Len(w)
      /\ \A i \in 1 .. Len(y) : v[i] = y[i]
      /\ \A i \in Len(y) + 1 .. Len(y) + Len(w) : v[i] = w[i - Len(y)]
  <2>1. y \in Seq(X)
    BY <1>3, Zenon
  <2> QED BY <2>1, Joined
<1> HIDE DEF z, v
<1>7. Len(z) = Len(v)
  BY <1>1, <1>2, <1>3, <1>5, <1>6
<1>8. \A i \in 1 .. Len(z) : z[i] = v[i]
  <2> TAKE i \in 1 .. Len(z)
  <2>1. z[i] = x[e + i]
    BY <1>5, Zenon
  <2>2. CASE i \in 1 .. Len(y)
    <3>1. e + i \in 1 .. Len(s) /\ i \in 1 .. Len(s) - e
      BY <2>2, <1>2, <1>3
    <3> QED BY <3>1, <2>1, <2>2, <1>1, <1>3, <1>6, Zenon
  <2>3. CASE i \in Len(y) + 1 .. Len(y) + Len(w)
    <3>1. e + i \in Len(s) + 1 .. Len(s) + Len(w) /\ (e + i) - Len(s) = i - Len(y)
      BY <2>3, <1>2, <1>3
    <3>2. x[e + i] = w[i - Len(y)]
      BY <3>1, <1>1, Zenon
    <3>3. v[i] = w[i - Len(y)]
      BY <2>3, <1>6, Zenon
    <3> QED BY <2>1, <3>2, <3>3, Zenon
  <2> QED BY <2>2, <2>3, <1>2, <1>3, <1>6, <1>7
<1>9. z = v
  BY <1>5, <1>6, <1>7, <1>8, SeqEqual, Zenon
<1>10. SubSeq(x, 1, e - 1) = SubSeq(s, 1, e - 1)
  BY <1>1, <1>2
<1> QED BY <1>1, <1>4, <1>9, <1>10, Zenon DEF x, y, z, v

\* find('\n'): End is the first newline of a buffer that has one.
LEMMA FirstLine ==
    ASSUME NEW X, NEW b \in Seq(X), HasLine(b)
    PROVE  /\ End(b) \in 1 .. Len(b) /\ b[End(b)].nl
           /\ \A j \in 1 .. End(b) - 1 : ~b[j].nl
<1>1. DOMAIN b = 1 .. Len(b)
  OBVIOUS
<1>2. End(b) \in DOMAIN b /\ EndsAt(b, End(b))
  BY Zenon DEF HasLine, End
<1> QED BY <1>1, <1>2, Zenon DEF EndsAt

-----------------------------------------------------------------------------
(* Streams.                                                                *)

\* The units before the first newline of a stream are those of one command.
LEMMA OneCommand ==
    ASSUME NEW cs, NEW s \in Seq(Units), WellFramed(s, cs), NEW e \in 1 .. Len(s),
           \A j \in 1 .. e - 1 : ~s[j].nl
    PROVE  \A i \in 1 .. e : s[i].of = s[1].of /\ s[i].part = i
<1> TAKE i \in 1 .. e
<1>1. 1 \in 1 .. Len(s) /\ i \in 1 .. Len(s) /\ 1 <= i /\ \A k \in 1 .. i - 1 : k \in 1 .. e - 1
  OBVIOUS
<1>2. s # <<>>
  BY <1>1
<1>3. s[i].of = s[1].of /\ s[i].part = s[1].part + (i - 1) /\ s[1].part = 1
  BY <1>1, <1>2, Zenon DEF WellFramed, Unbroken
<1>4. 1 + (i - 1) = i
  OBVIOUS
<1> QED BY <1>3, <1>4, Zenon

\* One unit for each piece of text and one for the newline.
IsFrame(F, n, size) ==
    /\ F \in Seq(Units) /\ Len(F) = size + 1
    /\ \A i \in 1 .. size + 1 : F[i].of = n /\ F[i].part = i /\ (F[i].nl <=> i = size + 1)

\* A command goes over the wire as its text and a newline.
LEMMA FrameShape ==
    ASSUME NEW n \in Nat, NEW size \in Nat
    PROVE  IsFrame(Framed(n, size), n, size)
<1> DEFINE u(i) == [of |-> n, part |-> i, nl |-> i = size + 1]
<1>1. \A i \in 1 .. size + 1 :
          /\ u(i) \in Units /\ u(i).of = n /\ u(i).part = i /\ (u(i).nl <=> i = size + 1)
  <2> TAKE i \in 1 .. size + 1
  <2>1. \A b \in BOOLEAN : [of |-> n, part |-> i, nl |-> b] \in Units
    BY DEF Units
  <2>2. (i = size + 1) \in BOOLEAN
    BY Zenon
  <2>3. u(i) \in Units
    BY <2>1, <2>2, Zenon
  <2>4. u(i).of = n /\ u(i).part = i /\ u(i).nl = (i = size + 1)
    BY Zenon
  <2> QED BY <2>3, <2>4, Zenon
<1>2. Framed(n, size) = [i \in 1 .. size + 1 |-> u(i)]
  BY Zenon DEF Framed
<1> HIDE DEF u
<1> QED BY <1>1, <1>2 DEF IsFrame

\* A unit is its three parts.
LEMMA SameUnit ==
    ASSUME NEW u \in Units, NEW v \in Units, u.of = v.of, u.part = v.part, u.nl <=> v.nl
    PROVE  u = v
<1>1. u.nl \in BOOLEAN /\ v.nl \in BOOLEAN
  BY Zenon DEF Units
<1>2. u.nl = v.nl
  BY <1>1, Zenon
<1>3. /\ u = [of |-> u.of, part |-> u.part, nl |-> u.nl]
      /\ v = [of |-> v.of, part |-> v.part, nl |-> v.nl]
  BY Zenon DEF Units
<1> QED BY <1>2, <1>3, Zenon

\* What handleConnection cuts out of a stream at its first newline is all of one
\* command, and the newline is that command's own.
LEMMA CutsWhole ==
    ASSUME NEW cs \in Seq(Lines), NEW s \in Seq(Units), WellFramed(s, cs),
           NEW e \in 1 .. Len(s), s[e].nl, \A j \in 1 .. e - 1 : ~s[j].nl
    PROVE  /\ s[1].of \in 1 .. Len(cs) /\ e = cs[s[1].of].size + 1
           /\ SubSeq(s, 1, e - 1) = SubSeq(Framed(s[1].of, cs[s[1].of].size), 1, cs[s[1].of].size)
<1> DEFINE n == s[1].of
           size == cs[n].size
           F == Framed(n, size)
<1>1. \A i \in 1 .. e : s[i].of = n /\ s[i].part = i
  BY OneCommand, Zenon
<1>2. 1 \in 1 .. Len(s) /\ e \in 1 .. Len(s) /\ e \in 1 .. e
  OBVIOUS
<1>3. n \in 1 .. Len(cs)
  BY <1>2, Zenon DEF WellFramed, UnitOf
<1>4. size \in Nat /\ n \in Nat
  BY <1>3 DEF Lines
<1>5. s[e].of = n /\ s[e].part = e
  BY <1>1, <1>2, Zenon
<1>6. e = size + 1
  BY <1>2, <1>5, Zenon DEF WellFramed, UnitOf
<1>7. IsFrame(F, n, size)
  BY <1>4, FrameShape, Zenon
<1> HIDE DEF n, size, F
<1>8. \A i \in 1 .. size : s[i] = F[i]
  <2> TAKE i \in 1 .. size
  <2>1. i \in 1 .. e /\ i \in 1 .. e - 1 /\ i \in 1 .. Len(s) /\ i \in 1 .. size + 1 /\ i # size + 1
    BY <1>4, <1>6
  <2>2. s[i] \in Units /\ F[i] \in Units
    BY <2>1, <1>7 DEF IsFrame
  <2>3. s[i].of = F[i].of /\ s[i].part = F[i].part /\ ~s[i].nl /\ ~F[i].nl
    BY <2>1, <1>1, <1>7 DEF IsFrame
  <2> QED BY <2>2, <2>3, SameUnit, Zenon
<1>9. SubSeq(s, 1, size) = SubSeq(F, 1, size)
  BY <1>4, <1>6, <1>7, <1>8 DEF IsFrame
<1> QED BY <1>3, <1>4, <1>6, <1>9, SMTT(30) DEF n, size, F

\* A stream stays well framed when its end is lost,
LEMMA BeginningFramed ==
    ASSUME NEW cs, NEW s \in Seq(Units), NEW t \in Seq(Units), Begins(t, s), WellFramed(s, cs)
    PROVE  WellFramed(t, cs)
<1>1. /\ Len(t) \in Nat /\ Len(s) \in Nat /\ Len(t) <= Len(s)
      /\ \A i \in 1 .. Len(t) : t[i] = s[i] /\ i \in 1 .. Len(s)
      /\ t # <<>> => s # <<>> /\ 1 \in 1 .. Len(t)
  BY DEF Begins
<1>2. \A i \in 2 .. Len(t) : i \in 1 .. Len(t) /\ i - 1 \in 1 .. Len(t) /\ i \in 2 .. Len(s)
  BY <1>1
<1>3. \A i, j \in 1 .. Len(t) : \A k \in i .. j - 1 : k \in 1 .. Len(t)
  BY <1>1
<1>4. Unbroken(t)
  <2> SUFFICES ASSUME NEW i \in 1 .. Len(t), NEW j \in 1 .. Len(t), i <= j, \A k \in i .. j - 1 : ~t[k].nl
               PROVE  t[j].of = t[i].of /\ t[j].part = t[i].part + (j - i)
    BY Zenon DEF Unbroken
  <2>1. \A k \in i .. j - 1 : ~s[k].nl
    BY <1>1, <1>3, Zenon
  <2>2. s[j].of = s[i].of /\ s[j].part = s[i].part + (j - i)
    BY <1>1, <2>1, Zenon DEF WellFramed, Unbroken
  <2> QED BY <1>1, <2>2, Zenon
<1> QED BY <1>1, <1>2, <1>4, Zenon DEF WellFramed

\* when its first line is taken away,
LEMMA RestFramed ==
    ASSUME NEW cs, NEW s \in Seq(Units), WellFramed(s, cs), NEW e \in 1 .. Len(s), s[e].nl
    PROVE  WellFramed(Rest(s, e), cs)
<1> DEFINE t == Rest(s, e)
<1>1. /\ t \in Seq(Units) /\ Len(t) = Len(s) - e
      /\ \A i \in 1 .. Len(s) - e : t[i] = s[e + i]
  <2>1. e \in 0 .. Len(s)
    OBVIOUS
  <2> QED BY <2>1 DEF Rest
<1>2. Len(s) \in Nat /\ e \in Nat
  OBVIOUS
<1> HIDE DEF t
<1>3. \A i \in 1 .. Len(t) : t[i] = s[e + i] /\ e + i \in 1 .. Len(s)
  BY <1>1, <1>2
<1>4. \A i \in 1 .. Len(t) : UnitOf(t[i], cs)
  BY <1>3, Zenon DEF WellFramed
<1>5. t # <<>> => t[1].part = 1
  <2> SUFFICES ASSUME t # <<>> PROVE t[1].part = 1
    BY Zenon
  <2>1. 1 \in 1 .. Len(t) /\ (e + 1) - 1 = e /\ e + 1 \in 2 .. Len(s)
    BY <1>1, <1>2
  <2>2. t[1] = s[e + 1]
    BY <2>1, <1>3, Zenon
  <2>3. Follows(s[e], s[e + 1])
    BY <2>1, Zenon DEF WellFramed
  <2> QED BY <2>2, <2>3, Zenon DEF Follows
<1>6. \A i \in 2 .. Len(t) : Follows(t[i - 1], t[i])
  <2> TAKE i \in 2 .. Len(t)
  <2>1. i \in 1 .. Len(t) /\ i - 1 \in 1 .. Len(t) /\ e + i \in 2 .. Len(s) /\ e + (i - 1) = (e + i) - 1
    BY <1>1, <1>2
  <2>2. t[i] = s[e + i] /\ t[i - 1] = s[e + (i - 1)]
    BY <2>1, <1>3, Zenon
  <2> QED BY <2>1, <2>2, Zenon DEF WellFramed
<1>8. \A i, j \in 1 .. Len(t) : i < j /\ t[i].nl => t[i].of < t[j].of
  <2> TAKE i, j \in 1 .. Len(t)
  <2>1. i < j => e + i < e + j
    BY <1>1, <1>2
  <2> QED BY <2>1, <1>3, Zenon DEF WellFramed
<1>9. Unbroken(t)
  <2> SUFFICES ASSUME NEW i \in 1 .. Len(t), NEW j \in 1 .. Len(t), i <= j, \A k \in i .. j - 1 : ~t[k].nl
               PROVE  t[j].of = t[i].of /\ t[j].part = t[i].part + (j - i)
    BY Zenon DEF Unbroken
  <2>1. e + i <= e + j /\ (e + j) - (e + i) = j - i
    BY <1>1, <1>2
  <2>2. \A k \in e + i .. (e + j) - 1 : k - e \in i .. j - 1 /\ k - e \in 1 .. Len(t) /\ e + (k - e) = k
    BY <1>1, <1>2, SMTT(30)
  <2>3. \A k \in e + i .. (e + j) - 1 : ~s[k].nl
    BY <2>2, <1>3, Zenon
  <2>4. s[e + j].of = s[e + i].of /\ s[e + j].part = s[e + i].part + ((e + j) - (e + i))
    BY <2>1, <2>3, <1>3, Zenon DEF WellFramed, Unbroken
  <2> QED BY <2>1, <2>4, <1>3, Zenon
<1>10. WellFramed(t, cs)
  BY <1>4, <1>5, <1>6, <1>8, <1>9, Zenon DEF WellFramed
<1> QED BY <1>10, Zenon DEF t

\* when there are more commands,
LEMMA GrownFramed ==
    ASSUME NEW cs \in Seq(Lines), NEW x \in Lines, NEW s \in Seq(Units), WellFramed(s, cs)
    PROVE  WellFramed(s, Append(cs, x))
<1>1. \A n \in 1 .. Len(cs) : Append(cs, x)[n] = cs[n] /\ n \in 1 .. Len(Append(cs, x))
  OBVIOUS
<1>2. \A u : UnitOf(u, cs) => UnitOf(u, Append(cs, x))
  BY <1>1, Zenon DEF UnitOf
<1> QED BY <1>2, Zenon DEF WellFramed

\* and when a new command follows a newline or nothing.
LEMMA ExtendedFramed ==
    ASSUME NEW cs \in Seq(Lines), NEW x \in Lines, NEW s \in Seq(Units), WellFramed(s, cs),
           s = <<>> \/ s[Len(s)].nl
    PROVE  WellFramed(s \o Framed(Len(cs) + 1, x.size), Append(cs, x))
<1> DEFINE n == Len(cs) + 1
           size == x.size
           F == Framed(n, size)
           t == s \o F
           l == Len(s)
           cs2 == Append(cs, x)
<1>1. n \in Nat /\ size \in Nat /\ l \in Nat /\ Len(cs) \in Nat /\ n > Len(cs)
  BY DEF Lines
<1>2. IsFrame(F, n, size)
  BY <1>1, FrameShape, Zenon
<1>3. F \in Seq(Units) /\ Len(F) = size + 1
  BY <1>2, Zenon DEF IsFrame
<1>4. cs2[n] = x /\ Len(cs2) = n
  OBVIOUS
<1>5. WellFramed(s, cs2)
  BY GrownFramed, Zenon
<1> HIDE DEF F, size
<1>6. /\ t \in Seq(Units) /\ Len(t) = l + size + 1
      /\ \A i \in 1 .. l : t[i] = s[i]
      /\ \A i \in 1 .. size + 1 : t[l + i] = F[i]
  BY <1>1, <1>3
<1>7. \A i \in 1 .. l : s[i].of \in Nat /\ s[i].of < n
  BY <1>1 DEF WellFramed, UnitOf
<1> HIDE DEF t, cs2, n, l
<1>8. \A i \in 1 .. size + 1 : UnitOf(F[i], cs2)
  BY <1>1, <1>2, <1>4, SMTT(30) DEF IsFrame, UnitOf, size
<1>9. \A i \in 1 .. Len(t) : i \in 1 .. l \/ (i - l \in 1 .. size + 1 /\ t[i] = F[i - l])
  <2> TAKE i \in 1 .. Len(t)
  <2>1. i \in 1 .. l \/ (i - l \in 1 .. size + 1 /\ l + (i - l) = i)
    BY <1>1, <1>6
  <2> QED BY <2>1, <1>6, Zenon
<1>10. \A i \in 1 .. Len(t) : UnitOf(t[i], cs2)
  BY <1>5, <1>6, <1>8, <1>9, Zenon DEF WellFramed, l
<1>11. t[1].part = 1
  <2>1. CASE l = 0
    <3>1. 1 \in 1 .. size + 1 /\ l + 1 = 1
      BY <2>1, <1>1
    <3> QED BY <3>1, <1>2, <1>6 DEF IsFrame
  <2>2. CASE l > 0
    <3>1. 1 \in 1 .. l /\ s # <<>>
      BY <2>2, <1>1 DEF l
    <3> QED BY <3>1, <1>5, <1>6, Zenon DEF WellFramed
  <2> QED BY <2>1, <2>2, <1>1
<1>12. \A i \in 2 .. Len(t) : Follows(t[i - 1], t[i])
  <2> TAKE i \in 2 .. Len(t)
  <2>1. CASE i <= l
    <3>1. i \in 2 .. l /\ i \in 1 .. l /\ i - 1 \in 1 .. l
      BY <2>1, <1>1
    <3>2. Follows(s[i - 1], s[i])
      BY <3>1, <1>5, Zenon DEF WellFramed, l
    <3> QED BY <3>1, <3>2, <1>6, Zenon
  <2>2. CASE i = l + 1
    <3>1. 1 \in 1 .. size + 1 /\ i - 1 = l /\ l \in 1 .. l /\ s # <<>>
      BY <2>2, <1>1 DEF l
    <3>2. t[i] = F[1] /\ F[1].part = 1 /\ t[i - 1] = s[l]
      BY <3>1, <2>2, <1>2, <1>6 DEF IsFrame
    <3>3. s[l].nl
      BY <3>1, Zenon DEF l
    <3> QED BY <3>2, <3>3, Zenon DEF Follows
  <2>3. CASE i > l + 1
    <3> DEFINE j == i - l
    <3>1. j \in 2 .. size + 1 /\ j \in 1 .. size + 1 /\ j - 1 \in 1 .. size + 1 /\ j - 1 # size + 1
          /\ l + j = i /\ l + (j - 1) = i - 1
      BY <2>3, <1>1, <1>6
    <3>2. t[i] = F[j] /\ t[i - 1] = F[j - 1]
      BY <3>1, <1>6, Zenon
    <3>3. F[j].of = n /\ F[j].part = j /\ F[j - 1].of = n /\ F[j - 1].part = j - 1 /\ ~F[j - 1].nl
      BY <3>1, <1>2, Zenon DEF IsFrame
    <3> QED BY <3>1, <3>2, <3>3 DEF Follows
  <2> QED BY <2>1, <2>2, <2>3, <1>1, <1>6, SMTT(30)
<1>13. \A i, j \in 1 .. Len(t) : i < j /\ t[i].nl => t[i].of < t[j].of
  <2> SUFFICES ASSUME NEW i \in 1 .. Len(t), NEW j \in 1 .. Len(t), i < j, t[i].nl
               PROVE  t[i].of < t[j].of
    BY Zenon
  <2>1. i \in 1 .. l
    <3> SUFFICES ASSUME i - l \in 1 .. size + 1, t[i] = F[i - l] PROVE FALSE
      BY <1>9, Zenon
    <3>1. i - l = size + 1
      BY <1>2, Zenon DEF IsFrame
    <3> QED BY <3>1, <1>1, <1>6
  <2>2. CASE j \in 1 .. l
    BY <2>1, <2>2, <1>5, <1>6, Zenon DEF WellFramed, l
  <2>3. CASE j - l \in 1 .. size + 1 /\ t[j] = F[j - l]
    <3>1. t[j].of = n
      BY <2>3, <1>2, ZenonT(40) DEF IsFrame
    <3> QED BY <3>1, <2>1, <1>6, <1>7, Zenon
  <2> QED BY <2>2, <2>3, <1>9, Zenon
<1>14. Unbroken(t)
  <2> SUFFICES ASSUME NEW i \in 1 .. Len(t), NEW j \in 1 .. Len(t), i <= j, \A k \in i .. j - 1 : ~t[k].nl
               PROVE  t[j].of = t[i].of /\ t[j].part = t[i].part + (j - i)
    BY Zenon DEF Unbroken
  <2>1. CASE i \in 1 .. l /\ j \in 1 .. l
    <3>1. \A k \in i .. j - 1 : k \in 1 .. l
      BY <2>1, <1>1
    <3>2. \A k \in i .. j - 1 : ~s[k].nl
      BY <3>1, <1>6, Zenon
    <3>3. s[j].of = s[i].of /\ s[j].part = s[i].part + (j - i)
      BY <2>1, <3>2, <1>5, Zenon DEF WellFramed, Unbroken, l
    <3> QED BY <2>1, <3>3, <1>6, Zenon
  <2>2. CASE i \in 1 .. l /\ j \notin 1 .. l
    <3>1. l \in i .. j - 1 /\ l \in 1 .. l /\ s # <<>>
      BY <2>2, <1>1, <1>6 DEF l
    <3> QED BY <3>1, <1>6, Zenon DEF l
  <2>3. CASE i \notin 1 .. l
    <3>1. j \notin 1 .. l /\ (j - l) - (i - l) = j - i
      BY <2>3, <1>1, <1>6
    <3>2. i - l \in 1 .. size + 1 /\ t[i] = F[i - l] /\ j - l \in 1 .. size + 1 /\ t[j] = F[j - l]
      BY <2>3, <3>1, <1>9, Zenon
    <3>3. F[i - l].of = n /\ F[i - l].part = i - l /\ F[j - l].of = n /\ F[j - l].part = j - l
      BY <3>2, <1>2, Zenon DEF IsFrame
    <3>4. (i - l) + (j - i) = j - l
      BY <1>1, <1>6
    <3> QED BY <3>2, <3>3, <3>4, Zenon
  <2> QED BY <2>1, <2>2, <2>3, Zenon
<1>15. WellFramed(t, cs2)
  BY <1>10, <1>11, <1>12, <1>13, <1>14, Zenon DEF WellFramed
<1> QED BY <1>15, Zenon DEF t, cs2, n, F, size

-----------------------------------------------------------------------------
(* The four things that happen to streams keep them orderly.               *)

StreamSet == [Conns -> Seq(Units)]
ExecutedSet == Seq(Conns \X Seq(Units))

\* Streams that lose their ends: a send that fails, a connection that is closed.
LEMMA ShortenedOrderly ==
    ASSUME NEW S \in StreamSet, NEW T \in StreamSet, NEW cs, NEW ex,
           Orderly(S, cs, ex), \A c \in Conns : Begins(T[c], S[c])
    PROVE  Orderly(T, cs, ex)
<1>1. \A c \in Conns : WellFramed(T[c], cs)
  BY BeginningFramed, Zenon DEF Orderly, StreamSet
<1>2. \A c \in Conns : \A i \in 1 .. Len(T[c]) : i \in 1 .. Len(S[c]) /\ T[c][i] = S[c][i]
  BY DEF Begins, StreamSet
<1>3. Apart(T)
  <2> SUFFICES ASSUME NEW c \in Conns, NEW d \in Conns, c # d,
                      NEW i \in 1 .. Len(T[c]), NEW j \in 1 .. Len(T[d])
               PROVE  T[c][i].of # T[d][j].of
    BY Zenon DEF Apart
  <2>1. /\ i \in 1 .. Len(S[c]) /\ T[c][i] = S[c][i]
        /\ j \in 1 .. Len(S[d]) /\ T[d][j] = S[d][j]
    BY <1>2, Zenon
  <2>2. Apart(S)
    BY Zenon DEF Orderly
  <2> QED BY <2>1, <2>2, ZenonT(40) DEF Apart
<1>4. Later(T, ex)
  BY <1>2, SMTT(30) DEF Orderly, Later
<1> QED BY <1>1, <1>3, <1>4, Zenon DEF Orderly

\* A command that has only been asked for.
LEMMA GrownOrderly ==
    ASSUME NEW S \in StreamSet, NEW cs \in Seq(Lines), NEW x \in Lines, NEW ex, Orderly(S, cs, ex)
    PROVE  Orderly(S, Append(cs, x), ex)
<1>1. \A c \in Conns : WellFramed(S[c], Append(cs, x))
  BY GrownFramed, Zenon DEF Orderly, StreamSet
<1>2. \A n \in 1 .. Len(cs) : Append(cs, x)[n] = cs[n] /\ n \in 1 .. Len(Append(cs, x))
  OBVIOUS
<1>3. \A text : WholeOf(text, cs) => WholeOf(text, Append(cs, x))
  BY <1>2, Zenon DEF WholeOf
<1> QED BY <1>1, <1>3, Zenon DEF Orderly

\* A new command after the others of its connection.
LEMMA ExtendedOrderly ==
    ASSUME NEW S \in StreamSet, NEW cs \in Seq(Lines), NEW x \in Lines, NEW ex \in ExecutedSet,
           Orderly(S, cs, ex), NEW c \in Conns, S[c] = <<>> \/ S[c][Len(S[c])].nl
    PROVE  Orderly([S EXCEPT ![c] = @ \o Framed(Len(cs) + 1, x.size)], Append(cs, x), ex)
<1> DEFINE n == Len(cs) + 1
           F == Framed(n, x.size)
           s == S[c]
           t == s \o F
           T == [S EXCEPT ![c] = t]
           cs2 == Append(cs, x)
<1>1. Orderly(S, cs2, ex) /\ s \in Seq(Units) /\ n \in Nat /\ x.size \in Nat
  BY GrownOrderly DEF StreamSet, Lines
<1>2. WellFramed(t, cs2)
  BY <1>1, ExtendedFramed, Zenon DEF Orderly
<1>3. IsFrame(F, n, x.size)
  BY <1>1, FrameShape, Zenon
<1> HIDE DEF F
<1>4. \A i \in 1 .. Len(t) : (i \in 1 .. Len(s) /\ t[i] = s[i]) \/ t[i].of = n
  <2>1. F \in Seq(Units) /\ \A i \in 1 .. Len(F) : F[i].of = n
    BY <1>3, Zenon DEF IsFrame
  <2>2. /\ Len(s) \in Nat /\ Len(F) \in Nat /\ Len(t) = Len(s) + Len(F)
        /\ \A i \in 1 .. Len(s) : t[i] = s[i]
        /\ \A i \in 1 .. Len(t) : i \in 1 .. Len(s) \/ (i - Len(s) \in 1 .. Len(F) /\ t[i] = F[i - Len(s)])
    <3> HIDE DEF s
    <3> QED BY <1>1, <2>1
  <2> HIDE DEF s, t
  <2> QED BY <2>1, <2>2, Zenon
<1>5. \A d \in Conns : T[d] = IF d = c THEN t ELSE S[d]
  BY Zenon DEF StreamSet
<1>6. \A d \in Conns : \A i \in 1 .. Len(S[d]) : S[d][i].of # n
  BY SMTT(30) DEF Orderly, WellFramed, UnitOf
<1>7. \A e \in 1 .. Len(ex) : ex[e][2] # <<>> => ex[e][2][1].of \in Nat /\ ex[e][2][1].of < n
  BY DEF Orderly, WholeOf
<1>13. n \in Nat
  BY <1>1, Zenon
<1> HIDE DEF t, n, T, cs2
<1>8. \A d \in Conns : WellFramed(T[d], cs2)
  BY <1>1, <1>2, <1>5, Zenon DEF Orderly
<1>9. \A d \in Conns : \A i \in 1 .. Len(T[d]) :
          (i \in 1 .. Len(S[d]) /\ T[d][i] = S[d][i]) \/ (d = c /\ T[d][i].of = n)
  BY <1>4, <1>5, Zenon
<1>10. Apart(T)
  <2> SUFFICES ASSUME NEW b \in Conns, NEW d \in Conns, b # d,
                      NEW i \in 1 .. Len(T[b]), NEW j \in 1 .. Len(T[d])
               PROVE  T[b][i].of # T[d][j].of
    BY Zenon DEF Apart
  <2>1. Apart(S)
    BY Zenon DEF Orderly
  <2>2. /\ (i \in 1 .. Len(S[b]) /\ T[b][i] = S[b][i]) \/ (b = c /\ T[b][i].of = n)
        /\ (j \in 1 .. Len(S[d]) /\ T[d][j] = S[d][j]) \/ (d = c /\ T[d][j].of = n)
    BY <1>9, Zenon
  <2>3. CASE i \in 1 .. Len(S[b]) /\ T[b][i] = S[b][i] /\ j \in 1 .. Len(S[d]) /\ T[d][j] = S[d][j]
    <3>1. S[b][i].of # S[d][j].of
      BY <2>1, <2>3, Zenon DEF Apart
    <3> QED BY <2>3, <3>1, Zenon
  <2>4. CASE i \in 1 .. Len(S[b]) /\ T[b][i] = S[b][i] /\ d = c /\ T[d][j].of = n
    BY <2>4, <1>6, Zenon
  <2>5. CASE b = c /\ T[b][i].of = n /\ j \in 1 .. Len(S[d]) /\ T[d][j] = S[d][j]
    BY <2>5, <1>6, Zenon
  <2> QED BY <2>2, <2>3, <2>4, <2>5, Zenon
<1>11. Later(T, ex)
  <2> SUFFICES ASSUME NEW e \in 1 .. Len(ex), NEW d \in Conns, ex[e][2] # <<>>, NEW i \in 1 .. Len(T[d])
               PROVE  ex[e][2][1].of # T[d][i].of /\ (ex[e][1] = d => ex[e][2][1].of < T[d][i].of)
    BY Zenon DEF Later
  <2>1. CASE i \in 1 .. Len(S[d]) /\ T[d][i] = S[d][i]
    BY <2>1, Zenon DEF Orderly, Later
  <2>2. CASE T[d][i].of = n
    <3>1. ex[e][2][1].of \in Nat /\ ex[e][2][1].of < n
      BY <1>7, Zenon
    <3> QED BY <3>1, <2>2, <1>13
  <2> QED BY <2>1, <2>2, <1>9, Zenon
<1>12. Orderly(T, cs2, ex)
  BY <1>1, <1>8, <1>10, <1>11, Zenon DEF Orderly
<1> QED BY <1>12, Zenon DEF T, t, F, n, cs2

\* The first line of a stream is cut out and executed.
LEMMA CutOrderly ==
    ASSUME NEW S \in StreamSet, NEW cs \in Seq(Lines), NEW ex \in ExecutedSet,
           Orderly(S, cs, ex), NEW c \in Conns, NEW e \in 1 .. Len(S[c]),
           S[c][e].nl, \A j \in 1 .. e - 1 : ~S[c][j].nl
    PROVE  Orderly([S EXCEPT ![c] = Rest(@, e)], cs, Append(ex, <<c, SubSeq(S[c], 1, e - 1)>>))
<1> DEFINE s == S[c]
           n == s[1].of
           t == Rest(s, e)
           T == [S EXCEPT ![c] = t]
           text == SubSeq(s, 1, e - 1)
           ex2 == Append(ex, <<c, text>>)
           l == Len(ex)
<1>1. s \in Seq(Units) /\ l \in Nat /\ WellFramed(s, cs)
  BY DEF StreamSet, ExecutedSet, Orderly
<1>2. /\ n \in 1 .. Len(cs) /\ e = cs[n].size + 1
      /\ text = SubSeq(Framed(n, cs[n].size), 1, cs[n].size)
  BY <1>1, CutsWhole, Zenon
<1>3. WellFramed(t, cs)
  BY <1>1, RestFramed, Zenon
<1>4. text \in Seq(Units) /\ (text # <<>> => text[1] = s[1])
  BY <1>1
<1>5. s[e].of = n
  BY <1>1, OneCommand, SMTT(30)
<1>6. \A i \in 1 .. Len(t) : e + i \in 1 .. Len(s) /\ t[i] = s[e + i] /\ n < t[i].of
  <2> TAKE i \in 1 .. Len(t)
  <2>1. Len(t) = Len(s) - e /\ Len(s) \in Nat /\ e \in 0 .. Len(s)
    BY <1>1 DEF Rest
  <2>2. i \in 1 .. Len(s) - e /\ e + i \in 1 .. Len(s) /\ e < e + i
    BY <2>1
  <2>3. t[i] = s[e + i]
    BY <1>1, <2>1, <2>2 DEF Rest
  <2> QED BY <2>2, <2>3, <1>1, <1>5, Zenon DEF WellFramed
<1>7. \A d \in Conns : T[d] = IF d = c THEN t ELSE S[d]
  BY Zenon DEF StreamSet
<1>8. /\ Len(ex2) = l + 1 /\ ex2[l + 1] = <<c, text>> /\ \A f \in 1 .. l : ex2[f] = ex[f]
      /\ \A f \in 1 .. l + 1 : f \in 1 .. l \/ f = l + 1
  BY <1>1, <1>4, SMTT(30) DEF ExecutedSet
<1>9. n \in Nat /\ 1 \in 1 .. Len(s)
  <2>1. Len(s) \in Nat /\ Len(cs) \in Nat
    BY <1>1
  <2>2. 1 \in 1 .. Len(s)
    BY <2>1
  <2>3. n \in Nat
    <3> HIDE DEF n
    <3> QED BY <1>2, <2>1
  <2> QED BY <2>2, <2>3, Zenon
<1>10. \A f \in 1 .. l : ex[f][2] # <<>> => ex[f][2][1].of # n /\ (ex[f][1] = c => ex[f][2][1].of < n)
  BY <1>9, Zenon DEF Orderly, Later
<1>11. \A d \in Conns : d # c => \A i \in 1 .. Len(S[d]) : S[d][i].of # n
  BY <1>9, Zenon DEF Orderly, Apart
<1> HIDE DEF T, t, ex2, text, l, n
<1>12. \A d \in Conns : \A i \in 1 .. Len(T[d]) :
           /\ \E j \in 1 .. Len(S[d]) : T[d][i] = S[d][j]
           /\ T[d][i].of # n /\ (d = c => n < T[d][i].of)
  <2> TAKE d \in Conns
  <2> TAKE i \in 1 .. Len(T[d])
  <2>1. CASE d = c
    <3>1. T[d] = t /\ i \in 1 .. Len(t)
      BY <2>1, <1>7, Zenon
    <3>2. e + i \in 1 .. Len(S[d]) /\ T[d][i] = S[d][e + i] /\ n < T[d][i].of
      BY <3>1, <2>1, <1>6, Zenon
    <3>3. T[d][i].of \in Nat
      <4>1. S[d] \in Seq(Units)
        BY Zenon DEF StreamSet
      <4>2. S[d][e + i] \in Units
        BY <4>1, <3>2
      <4> QED BY <4>2, <3>2, Zenon DEF Units
    <3> QED BY <3>2, <3>3, <1>9
  <2>2. CASE d # c
    BY <2>2, <1>7, <1>11, Zenon
  <2> QED BY <2>1, <2>2, Zenon
<1>13. \A d \in Conns : WellFramed(T[d], cs)
  BY <1>3, <1>7, Zenon DEF Orderly
<1>14. Apart(T)
  <2> SUFFICES ASSUME NEW b \in Conns, NEW d \in Conns, b # d,
                      NEW i \in 1 .. Len(T[b]), NEW j \in 1 .. Len(T[d])
               PROVE  T[b][i].of # T[d][j].of
    BY Zenon DEF Apart
  <2>1. PICK k \in 1 .. Len(S[b]) : T[b][i] = S[b][k]
    BY <1>12, Zenon
  <2>2. PICK m \in 1 .. Len(S[d]) : T[d][j] = S[d][m]
    BY <1>12, Zenon
  <2>3. Apart(S)
    BY Zenon DEF Orderly
  <2>4. S[b][k].of # S[d][m].of
    BY <2>3, Zenon DEF Apart
  <2> QED BY <2>1, <2>2, <2>4, Zenon
<1>15. Later(T, ex2)
  <2> SUFFICES ASSUME NEW f \in 1 .. l + 1, NEW d \in Conns, ex2[f][2] # <<>>, NEW i \in 1 .. Len(T[d])
               PROVE  ex2[f][2][1].of # T[d][i].of /\ (ex2[f][1] = d => ex2[f][2][1].of < T[d][i].of)
    BY <1>8, ZenonT(40) DEF Later
  <2>1. CASE f \in 1 .. l
    <3>1. PICK k \in 1 .. Len(S[d]) : T[d][i] = S[d][k]
      BY <1>12, Zenon
    <3>2. ex2[f] = ex[f] /\ f \in 1 .. Len(ex)
      BY <2>1, <1>8, Zenon DEF l
    <3> QED BY <3>1, <3>2, ZenonT(40) DEF Orderly, Later
  <2>2. CASE f = l + 1
    <3>1. ex2[f][1] = c /\ ex2[f][2] = text /\ text # <<>> /\ ex2[f][2][1].of = n
      BY <2>2, <1>4, <1>8 DEF n
    <3> QED BY <3>1, <1>12, Zenon
  <2> QED BY <2>1, <2>2, <1>8, Zenon
<1>16. InOrder(ex2)
  <2> SUFFICES ASSUME NEW f \in 1 .. l + 1, NEW g \in 1 .. l + 1, f < g, ex2[f][2] # <<>>, ex2[g][2] # <<>>
               PROVE  ex2[f][2][1].of # ex2[g][2][1].of /\ (ex2[f][1] = ex2[g][1] => ex2[f][2][1].of < ex2[g][2][1].of)
    BY <1>8, Zenon DEF InOrder
  <2>1. f \in 1 .. l
    BY <1>1, SMTT(30) DEF l
  <2>2. CASE g \in 1 .. l
    BY <2>1, <2>2, <1>8, SMTT(30) DEF Orderly, InOrder, l
  <2>3. CASE g = l + 1
    <3>1. ex2[g][1] = c /\ ex2[g][2] = text /\ text # <<>> /\ ex2[g][2][1].of = n /\ ex2[f] = ex[f]
      BY <2>1, <2>3, <1>4, <1>8 DEF n
    <3> QED BY <3>1, <2>1, <1>10, Zenon
  <2> QED BY <2>2, <2>3, <1>8, Zenon
<1>17. \A f \in 1 .. Len(ex2) : ex2[f][2] # <<>> => WholeOf(ex2[f][2], cs)
  <2> SUFFICES ASSUME NEW f \in 1 .. l + 1, ex2[f][2] # <<>> PROVE WholeOf(ex2[f][2], cs)
    BY <1>8, Zenon
  <2>1. CASE f \in 1 .. l
    BY <2>1, <1>8, Zenon DEF Orderly, l
  <2>2. CASE f = l + 1
    <3>1. ex2[f][2] = text /\ text # <<>> /\ text[1].of = n
      BY <2>2, <1>4, <1>8 DEF n
    <3> QED BY <3>1, <1>2, Zenon DEF WholeOf
  <2> QED BY <2>1, <2>2, <1>8, Zenon
<1>18. Orderly(T, cs, ex2)
  BY <1>13, <1>14, <1>15, <1>16, <1>17, Zenon DEF Orderly
<1> QED BY <1>18, Zenon DEF T, t, ex2, text

-----------------------------------------------------------------------------
(* Replies.                                                                *)

\* A reply is nothing, one line, or a header and as many lines as it announces.
IsReply(r) ==
    /\ r \in Seq(LineUnits)
    /\ r # <<>> => r[1].count = Len(r) - 1
    /\ \A i \in 1 .. Len(r) : ~r[i].nl

\* protocol::status and the others make lines.
LEMMA LineShape ==
    ASSUME NEW n \in Nat, NEW tag \in Tags, NEW k \in Nat
    PROVE  Line(n, tag, k) \in LineUnits /\ ~Line(n, tag, k).nl /\ Line(n, tag, k).count = k
BY Zenon DEF Line, LineUnits

\* A reply of one line.
LEMMA SingleLine ==
    ASSUME NEW n \in Nat, NEW tag \in Tags
    PROVE  IsReply(<<Line(n, tag, 0)>>) /\ <<Line(n, tag, 0)>> # <<>>
<1> DEFINE x == Line(n, tag, 0)
<1>1. x \in LineUnits /\ ~x.nl /\ x.count = 0
  BY LineShape, Zenon
<1> HIDE DEF x
<1>2. IsReply(<<x>>) /\ <<x>> # <<>>
  BY <1>1 DEF IsReply
<1> QED BY <1>2, Zenon DEF x

\* The reply to KEYS.
LEMMA ArrayReply ==
    ASSUME NEW n \in Nat, NEW k \in Nat
    PROVE  LET r == <<Line(n, "*", k)>> \o [i \in 1 .. k |-> Line(n, "$", 0)]
           IN  IsReply(r) /\ r # <<>>
<1> DEFINE x == Line(n, "*", k)
           y == Line(n, "$", 0)
           h == <<x>>
           t == [i \in 1 .. k |-> y]
           r == h \o t
<1>1. x \in LineUnits /\ ~x.nl /\ x.count = k /\ y \in LineUnits /\ ~y.nl
  BY LineShape, Zenon DEF Tags
<1> HIDE DEF x, y
<1>2. h \in Seq(LineUnits) /\ Len(h) = 1 /\ h[1] = x
  BY <1>1
<1>3. t \in Seq(LineUnits) /\ Len(t) = k /\ \A i \in 1 .. k : t[i] = y
  BY <1>1
<1> HIDE DEF h, t
<1>4. /\ r \in Seq(LineUnits) /\ Len(r) = k + 1 /\ r[1] = x
      /\ \A i \in 2 .. k + 1 : r[i] = y
  <2>1. /\ r \in Seq(LineUnits) /\ Len(r) = Len(h) + Len(t)
        /\ \A i \in 1 .. Len(h) : r[i] = h[i]
        /\ \A i \in Len(h) + 1 .. Len(h) + Len(t) : r[i] = t[i - Len(h)]
    BY <1>2, <1>3, Joined, ZenonT(40)
  <2> HIDE DEF r
  <2> QED BY <2>1, <1>2, <1>3
<1> HIDE DEF r
<1>5. \A i \in 1 .. Len(r) : i = 1 \/ i \in 2 .. k + 1
  BY <1>4
<1>6. IsReply(r) /\ r # <<>>
  BY <1>1, <1>4, <1>5 DEF IsReply
<1> QED BY <1>6, Zenon DEF r, h, t, x, y

\* execute answers everything but a blank line.
LEMMA RepliesShape ==
    ASSUME NEW n \in Nat, NEW kind \in Kinds, NEW r \in Replies(n, kind)
    PROVE  IsReply(r) /\ (r = <<>> <=> kind = "Empty")
<1>1. \A tag \in Tags : IsReply(<<Line(n, tag, 0)>>) /\ <<Line(n, tag, 0)>> # <<>>
  BY SingleLine, Zenon
<1>2. "+" \in Tags /\ "-" \in Tags /\ "_" \in Tags /\ "$" \in Tags /\ ":" \in Tags
  BY Zenon DEF Tags
<1>3. CASE kind \in {"Set", "Save"}
  BY <1>1, <1>2, <1>3, Zenon DEF Replies
<1>4. CASE kind = "Get"
  BY <1>1, <1>2, <1>4, Zenon DEF Replies
<1>5. CASE kind \in {"Del", "Exists"}
  BY <1>1, <1>2, <1>5, Zenon DEF Replies
<1>6. CASE kind = "Keys"
  <2>1. PICK k \in 0 .. MaxKeys : r = <<Line(n, "*", k)>> \o [i \in 1 .. k |-> Line(n, "$", 0)]
    BY <1>6, Zenon DEF Replies
  <2> QED BY <2>1, <1>6, ArrayReply, BoundsAssumption
<1>7. CASE kind = "Bad"
  BY <1>1, <1>2, <1>7, Zenon DEF Replies
<1>8. CASE kind = "Empty"
  BY <1>8 DEF Replies, IsReply
<1> QED BY <1>3, <1>4, <1>5, <1>6, <1>7, <1>8, Zenon DEF Kinds

\* sendLine puts a newline after every line.
LEMMA LinesShape ==
    ASSUME NEW r, IsReply(r)
    PROVE  /\ FramedLines(r) \in Seq(LineUnits) /\ Len(FramedLines(r)) = 2 * Len(r)
           /\ \A j \in 1 .. Len(r) : FramedLines(r)[2 * j - 1] = r[j] /\ FramedLines(r)[2 * j].nl
<1> DEFINE F == FramedLines(r)
           l == Len(r)
<1>1. l \in Nat /\ r \in Seq(LineUnits)
  BY DEF IsReply
<1>2. \A j \in 1 .. l : /\ 2 * j - 1 \in 1 .. 2 * l /\ (2 * j - 1) % 2 = 1 /\ ((2 * j - 1) + 1) \div 2 = j
                        /\ 2 * j \in 1 .. 2 * l /\ (2 * j) % 2 = 0 /\ (2 * j) \div 2 = j
  BY <1>1
<1>3. \A i \in 1 .. 2 * l : \E j \in 1 .. l : i = 2 * j - 1 \/ i = 2 * j
  <2> TAKE i \in 1 .. 2 * l
  <2>1. CASE i % 2 = 1
    <3>1. (i + 1) \div 2 \in 1 .. l /\ i = 2 * ((i + 1) \div 2) - 1
      BY <1>1, <2>1
    <3> QED BY <3>1, Zenon
  <2>2. CASE i % 2 = 0
    <3>1. i \div 2 \in 1 .. l /\ i = 2 * (i \div 2)
      BY <1>1, <2>2
    <3> QED BY <3>1, Zenon
  <2> QED BY <2>1, <2>2, <1>1
<1>4. \A n \in Nat : Newline(n) \in LineUnits /\ Newline(n).nl
  BY Zenon DEF Newline, LineUnits, Tags
<1>5. \A j \in 1 .. l : F[2 * j - 1] = r[j] /\ F[2 * j] = Newline(r[j].of)
  BY <1>2 DEF FramedLines
<1>6. \A j \in 1 .. l : r[j] \in LineUnits /\ r[j].of \in Nat
  <2>1. \A j \in 1 .. l : r[j] \in LineUnits
    BY <1>1
  <2> QED BY <2>1, Zenon DEF LineUnits
<1>7. F = [i \in 1 .. 2 * l |-> F[i]] /\ 2 * l \in Nat
  BY <1>1 DEF FramedLines
<1> HIDE DEF F
<1>8. \A i \in 1 .. 2 * l : F[i] \in LineUnits
  BY <1>3, <1>4, <1>5, <1>6, Zenon
<1>9. F \in Seq(LineUnits) /\ Len(F) = 2 * l
  BY <1>7, <1>8
<1> QED BY <1>4, <1>5, <1>6, <1>9, Zenon DEF F

\* The first unit of a buffer.
LEMMA FirstUnit ==
    ASSUME NEW X, NEW b \in Seq(X), Len(b) >= 1
    PROVE  SubSeq(b, 1, 1) = <<b[1]>>
<1> DEFINE t == SubSeq(b, 1, 1)
           u == <<b[1]>>
<1>1. t \in Seq(X) /\ Len(t) = 1 /\ t[1] = b[1]
  OBVIOUS
<1>2. u \in Seq(X) /\ Len(u) = 1 /\ u[1] = b[1]
  OBVIOUS
<1> HIDE DEF t, u
<1>3. t = u
  BY <1>1, <1>2, SeqEqual
<1> QED BY <1>3, Zenon DEF t, u

\* The line readLine cuts out of b is the next one of the reply r, w is still under
\* way, and so is the rest of r.
NextIs(r, got, wanted, b, w) ==
    LET left == IF got # <<>> THEN wanted - 1 ELSE Text(b)[1].count
    IN  /\ Text(b) = <<r[Len(got) + 1]>> /\ Text(b) \in Seq(LineUnits)
        /\ left \in Nat /\ After(b) \in Seq(LineUnits)
        /\ left = 0 => got \o Text(b) = r /\ After(b) = <<>> /\ w = <<>>
        /\ left > 0 =>
              /\ Coming(r, got \o Text(b), left, After(b) \o w)
              /\ Len(After(b) \o w) = Len(b \o w) - 2
              /\ Len(got \o Text(b)) = Len(got) + 1

\* readLine gets the next line of the reply, and command knows when it was the last.
LEMMA NextLine ==
    ASSUME NEW r, IsReply(r), NEW got \in Seq(LineUnits), NEW wanted \in Nat,
           NEW b \in Seq(LineUnits), NEW w \in Seq(LineUnits),
           Coming(r, got, wanted, b \o w), HasLine(b)
    PROVE  NextIs(r, got, wanted, b, w)
<1> DEFINE m == Len(got)
           l == Len(r)
           F == FramedLines(r)
           d == b \o w
           x == r[m + 1]
           e == End(b)
<1>1. m \in Nat /\ l \in Nat /\ r \in Seq(LineUnits) /\ Len(b) \in Nat /\ Len(w) \in Nat
  BY DEF IsReply
<1>2. \A j \in 1 .. l : F[2 * j - 1] = r[j] /\ F[2 * j].nl
  BY LinesShape, Zenon
<1>3. e \in 1 .. Len(b) /\ b[e].nl /\ \A j \in 1 .. e - 1 : ~b[j].nl
  BY FirstLine, Zenon
<1>4. d \in Seq(LineUnits) /\ Len(d) = Len(b) + Len(w) /\ \A i \in 1 .. Len(b) : d[i] = b[i]
  BY Joined, ZenonT(40)
<1>5. Len(d) <= 2 * (l - m) /\ \A j \in 1 .. Len(d) : d[j] = F[2 * m + j]
  BY Zenon DEF Coming
<1> HIDE DEF F, d, e, m, l
<1>6. m < l /\ m + 1 \in 1 .. l /\ 2 * (m + 1) - 1 = 2 * m + 1 /\ 2 * (m + 1) = 2 * m + 2
  BY <1>1, <1>3, <1>4, <1>5
<1>7. x \in LineUnits /\ ~x.nl
  BY <1>1, <1>6 DEF IsReply, l
<1>8. b[1] = x
  <2>1. 1 \in 1 .. Len(b) /\ 1 \in 1 .. Len(d)
    BY <1>1, <1>3, <1>4
  <2>2. b[1] = F[2 * (m + 1) - 1]
    BY <2>1, <1>4, <1>5, <1>6, Zenon
  <2> QED BY <2>2, <1>2, <1>6, Zenon
<1>9. e # 1
  BY <1>3, <1>7, <1>8, Zenon
<1>10. 2 \in 1 .. Len(b) /\ b[2].nl
  <2>1. 2 \in 1 .. Len(b) /\ 2 \in 1 .. Len(d)
    BY <1>1, <1>3, <1>4, <1>9
  <2>2. b[2] = F[2 * (m + 1)]
    BY <2>1, <1>4, <1>5, <1>6, Zenon
  <2> QED BY <2>1, <2>2, <1>2, <1>6, Zenon
<1>11. e = 2
  BY <1>1, <1>3, <1>9, <1>10
<1>12. Text(b) = <<x>>
  <2>1. Text(b) = SubSeq(b, 1, 1)
    BY <1>11 DEF Text, e
  <2>2. Len(b) >= 1
    BY <1>1, <1>10
  <2>3. SubSeq(b, 1, 1) = <<b[1]>>
    BY <2>2, FirstUnit, Zenon
  <2> QED BY <2>1, <2>3, <1>8, Zenon
<1>13. /\ After(b) \in Seq(LineUnits) /\ Len(After(b)) = Len(b) - 2
       /\ \A i \in 1 .. Len(b) - 2 : After(b)[i] = b[i + 2]
  <2>1. After(b) = Rest(b, 2)
    BY <1>11, Zenon DEF After, Rest, e
  <2>2. 2 \in 0 .. Len(b)
    BY <1>1, <1>10
  <2>3. /\ Rest(b, 2) \in Seq(LineUnits) /\ Len(Rest(b, 2)) = Len(b) - 2
        /\ \A i \in 1 .. Len(b) - 2 : Rest(b, 2)[i] = b[2 + i]
    BY <2>2, Split
  <2>4. \A i \in 1 .. Len(b) - 2 : 2 + i = i + 2
    BY <1>1
  <2> HIDE DEF x
  <2> QED BY <2>1, <2>3, <2>4, Zenon
<1> DEFINE left == IF got # <<>> THEN wanted - 1 ELSE Text(b)[1].count
           g == got \o Text(b)
           a == After(b)
           dd == a \o w
<1>14. left = l - m - 1
  <2>1. CASE got = <<>>
    <3>1. m = 0 /\ r # <<>>
      BY <2>1, <1>1, <1>6 DEF m, l
    <3>2. r[1].count = l - 1 /\ Text(b)[1] = r[1]
      BY <3>1, <1>12 DEF IsReply, l
    <3> QED BY <3>1, <3>2, <2>1, <1>1
  <2>2. CASE got # <<>>
    BY <2>2, <1>1, Zenon DEF Coming, m, l
  <2> QED BY <2>1, <2>2, Zenon
<1>15. /\ g \in Seq(LineUnits) /\ Len(g) = m + 1
       /\ \A i \in 1 .. m + 1 : g[i] = r[i]
  <2>1. /\ g \in Seq(LineUnits) /\ Len(g) = m + 1 /\ g[m + 1] = x
        /\ \A i \in 1 .. m : g[i] = got[i]
    BY <1>7, <1>12 DEF m
  <2>2. \A i \in 1 .. m : got[i] = r[i]
    BY Zenon DEF Coming, m
  <2>3. \A i \in 1 .. m + 1 : i \in 1 .. m \/ i = m + 1
    BY <1>1
  <2> HIDE DEF g
  <2> QED BY <2>1, <2>2, <2>3, Zenon
<1>16. /\ dd \in Seq(LineUnits) /\ Len(dd) = Len(d) - 2
       /\ \A i \in 1 .. Len(dd) : dd[i] = d[i + 2]
  <2>0. a \in Seq(LineUnits)
    BY <1>13, Zenon
  <2>1. Len(a) = Len(b) - 2
    BY <1>13, Zenon
  <2>2. \A i \in 1 .. Len(a) : a[i] = b[i + 2] /\ i + 2 \in 1 .. Len(b)
    BY <1>1, <1>13
  <2> HIDE DEF a
  <2>3. /\ dd \in Seq(LineUnits) /\ Len(dd) = Len(a) + Len(w)
        /\ \A i \in 1 .. Len(a) : dd[i] = a[i]
        /\ \A i \in Len(a) + 1 .. Len(a) + Len(w) : dd[i] = w[i - Len(a)]
    BY <2>0, Joined
  <2>4. \A i \in Len(b) + 1 .. Len(b) + Len(w) : d[i] = w[i - Len(b)]
    BY Joined, Zenon DEF d
  <2> HIDE DEF dd
  <2>5. Len(dd) = Len(d) - 2
    BY <2>1, <2>3, <1>1, <1>4
  <2>6. \A i \in 1 .. Len(dd) : dd[i] = d[i + 2]
    <3> TAKE i \in 1 .. Len(dd)
    <3>1. CASE i \in 1 .. Len(a)
      BY <3>1, <2>2, <2>3, <1>4, Zenon
    <3>2. CASE i \in Len(a) + 1 .. Len(a) + Len(w)
      <4>1. i + 2 \in Len(b) + 1 .. Len(b) + Len(w) /\ (i + 2) - Len(b) = i - Len(a)
        BY <3>2, <2>1, <1>1
      <4> QED BY <4>1, <3>2, <2>3, <2>4, Zenon
    <3> QED BY <3>1, <3>2, <2>1, <2>3, <1>1
  <2> QED BY <2>3, <2>5, <2>6, Zenon
<1> HIDE DEF g, a, dd, left
<1>17. ASSUME left = 0 PROVE g = r /\ a = <<>> /\ w = <<>>
  <2>1. l = m + 1 /\ Len(b) = 2 /\ Len(w) = 0
    <3>1. l = m + 1
      BY <1>17, <1>1, <1>14
    <3>2. Len(b) + Len(w) <= 2 /\ Len(b) >= 2
      BY <3>1, <1>1, <1>4, <1>5, <1>10
    <3>3. \A i, j \in Nat : i + j <= 2 /\ i >= 2 => i = 2 /\ j = 0
      OBVIOUS
    <3>4. Len(b) = 2 /\ Len(w) = 0
      BY <3>2, <3>3, <1>1, Zenon
    <3> QED BY <3>1, <3>4, Zenon
  <2>2. g = r
    BY <2>1, <1>1, <1>15, SeqEqual, Zenon DEF l
  <2>3. w = <<>>
    BY <2>1
  <2>4. a = <<>>
    BY <2>1, <1>13 DEF a
  <2> QED BY <2>2, <2>3, <2>4, Zenon
<1>18. ASSUME left > 0 PROVE Coming(r, g, left, dd)
  <2>1. m + 1 < l /\ left = l - (m + 1)
    BY <1>18, <1>1, <1>14
  <2>2. Len(g) < Len(r) /\ g # <<>> /\ left = Len(r) - Len(g)
    BY <2>1, <1>1, <1>15 DEF l
  <2>3. Len(dd) <= 2 * (Len(r) - Len(g))
    BY <1>1, <1>4, <1>5, <1>15, <1>16, SMTT(30) DEF l
  <2>4. \A i \in 1 .. Len(dd) : dd[i] = F[2 * Len(g) + i]
    <3> TAKE i \in 1 .. Len(dd)
    <3>1. i + 2 \in 1 .. Len(d) /\ 2 * m + (i + 2) = 2 * Len(g) + i
      BY <1>1, <1>4, <1>15, <1>16
    <3> QED BY <3>1, <1>5, <1>16, Zenon
  <2> QED BY <2>2, <2>3, <2>4, <1>15, Zenon DEF Coming, F
<1>19. left \in Nat
  BY <1>1, <1>6, <1>14
<1> QED BY <1>7, <1>12, <1>13, <1>15, <1>16, <1>17, <1>18, <1>19 DEF NextIs, left, g, a, dd, d, m

-----------------------------------------------------------------------------
(* What the steps do to the streams.                                       *)

\* f is g but for connection c.
Only(f, g, c) == \A d \in Conns : d # c => f[d] = g[d]

\* Streams are sequences of units.
LEMMA StreamsType ==
    ASSUME NEW p \in StreamSet, NEW u \in StreamSet, NEW r \in Seq(Units), NEW f, NEW a, NEW sh
    PROVE  StreamsOf(p, u, r, f, a, sh) \in StreamSet
<1>1. \A c \in Conns : p[c] \o u[c] \in Seq(Units) /\ (p[c] \o u[c]) \o r \in Seq(Units)
  <2> TAKE c \in Conns
  <2> DEFINE x == p[c] \o u[c]
  <2>1. x \in Seq(Units)
    BY DEF StreamSet
  <2> HIDE DEF x
  <2>2. x \o r \in Seq(Units)
    BY <2>1
  <2> QED BY <2>1, <2>2, Zenon DEF x
<1> QED BY <1>1, Zenon DEF StreamsOf, StreamSet

\* What handleConnection holds and what is under way to it.
OnTheWay(p, u) == [c \in Conns |-> p[c] \o u[c]]

\* When sendAll has nothing to send, the client does not matter.
LEMMA PlainStreams ==
    ASSUME NEW p \in StreamSet, NEW u \in StreamSet, NEW f, NEW a, NEW sh
    PROVE  StreamsOf(p, u, <<>>, f, a, sh) = OnTheWay(p, u)
<1>1. \A c \in Conns : (p[c] \o u[c]) \o <<>> = p[c] \o u[c]
  <2> TAKE c \in Conns
  <2> DEFINE x == p[c] \o u[c]
  <2>1. x \in Seq(Units)
    BY DEF StreamSet
  <2> HIDE DEF x
  <2>2. x \o <<>> = x
    BY <2>1
  <2> QED BY <2>2, Zenon DEF x
<1> QED BY <1>1, Zenon DEF StreamsOf, OnTheWay

\* Appending twice, to a stream.
LEMMA AssociativeUnits ==
    \A s, l, r \in Seq(Units) : (s \o l) \o r = s \o (l \o r)
<1>1. ASSUME NEW s \in Seq(Units), NEW l \in Seq(Units), NEW r \in Seq(Units)
      PROVE  (s \o l) \o r = s \o (l \o r)
  BY Associative, SMTT(30)
<1> QED BY <1>1, ZenonT(40)

\* One stream: what send takes is still in front of the rest.
LEMMA SentStream ==
    ASSUME NEW b \in Seq(Units), NEW w \in Seq(Units), NEW r \in Seq(Units), NEW k \in 1 .. Len(r)
    PROVE  (b \o (w \o SubSeq(r, 1, k))) \o Rest(r, k) = (b \o w) \o r
<1> DEFINE x == SubSeq(r, 1, k)
           y == Rest(r, k)
           q == b \o w
<1>1. x \in Seq(Units) /\ y \in Seq(Units) /\ q \in Seq(Units) /\ k \in 0 .. Len(r)
  BY Split
<1>2. (q \o x) \o y = q \o r
  <2> HIDE DEF q
  <2> QED BY <1>1, Moved, Zenon
<1>3. b \in Seq(Units) /\ w \in Seq(Units) /\ x \in Seq(Units)
  BY <1>1, Zenon
<1> HIDE DEF x, y
<1>4. (b \o w) \o x = b \o (w \o x)
  BY <1>3, AssociativeUnits, ZenonT(40)
<1> QED BY <1>2, <1>4, Zenon DEF x, y

\* send moves units from the client to the wire.
LEMMA SentStreams ==
    ASSUME NEW p \in StreamSet, NEW u \in StreamSet, NEW r \in Seq(Units), NEW f \in Conns,
           NEW a, NEW sh, NEW k \in 1 .. Len(r), NEW v, Only(v, u, f)
    PROVE  v[f] = (IF a[f] = "closed" \/ sh THEN u[f] ELSE u[f] \o SubSeq(r, 1, k)) =>
               StreamsOf(p, v, Rest(r, k), f, a, sh) = StreamsOf(p, u, r, f, a, sh)
<1> DEFINE x == SubSeq(r, 1, k)
           y == Rest(r, k)
           dead == a[f] = "closed" \/ sh
<1>1. x \in Seq(Units) /\ y \in Seq(Units)
  BY Split
<1>2. p[f] \in Seq(Units) /\ u[f] \in Seq(Units)
  BY Zenon DEF StreamSet
<1>3. (p[f] \o (u[f] \o x)) \o y = (p[f] \o u[f]) \o r
  <2> DEFINE pf == p[f]
             uf == u[f]
  <2>1. pf \in Seq(Units) /\ uf \in Seq(Units)
    BY <1>2, Zenon
  <2> HIDE DEF pf, uf
  <2>2. (pf \o (uf \o SubSeq(r, 1, k))) \o Rest(r, k) = (pf \o uf) \o r
    BY <2>1, SentStream, ZenonT(60)
  <2> QED BY <2>2, Zenon DEF pf, uf
<1> HAVE v[f] = IF dead THEN u[f] ELSE u[f] \o x
<1> HIDE DEF x, y
<1>4. \A c \in Conns :
          (IF c = f /\ ~(a[c] = "closed" \/ sh) THEN (p[c] \o v[c]) \o y ELSE p[c] \o v[c])
          = (IF c = f /\ ~(a[c] = "closed" \/ sh) THEN (p[c] \o u[c]) \o r ELSE p[c] \o u[c])
  <2> TAKE c \in Conns
  <2>1. CASE c = f /\ ~dead
    <3>1. v[c] = u[f] \o x
      BY <2>1, Zenon
    <3> QED BY <3>1, <2>1, <1>3, Zenon
  <2>2. CASE ~(c = f /\ ~dead)
    <3>1. v[c] = u[c]
      BY <2>2, Zenon DEF Only
    <3> QED BY <3>1, <2>2, Zenon
  <2> QED BY <2>1, <2>2, Zenon
<1> QED BY <1>4, Zenon DEF StreamsOf, x, y

\* The same units are on their way on c.
Kept(q, v, p, u, c) == q[c] \o v[c] = p[c] \o u[c]

\* recv moves units from the wire to pending, and a label other than "closed" does
\* not matter.
LEMMA ReceivedStreams ==
    ASSUME NEW p \in StreamSet, NEW u \in StreamSet, NEW r \in Seq(Units), NEW f,
           NEW a \in [Conns -> Labels], NEW sh, NEW c \in Conns,
           NEW q \in StreamSet, Only(q, p, c), NEW v \in StreamSet, Only(v, u, c), Kept(q, v, p, u, c),
           NEW b \in [Conns -> Labels], Only(b, a, c), a[c] # "closed", b[c] # "closed"
    PROVE  StreamsOf(q, v, r, f, b, sh) = StreamsOf(p, u, r, f, a, sh)
<1>4. \A d \in Conns : q[d] \o v[d] = p[d] \o u[d]
  BY Zenon DEF Only, Kept
<1>5. \A d \in Conns : b[d] = "closed" <=> a[d] = "closed"
  BY Zenon DEF Only
<1> DEFINE Of(d, x, z) == IF d = f /\ ~(x = "closed" \/ sh) THEN z \o r ELSE z
<1>6. \A d \in Conns : Of(d, b[d], q[d] \o v[d]) = Of(d, a[d], p[d] \o u[d])
  BY <1>4, <1>5, Zenon
<1> QED BY <1>6, Zenon DEF StreamsOf

\* The label alone.
LEMMA RelabelledStreams ==
    ASSUME NEW p, NEW u, NEW r, NEW f, NEW a \in [Conns -> Labels], NEW sh, NEW c \in Conns,
           a[c] # "closed", NEW b, Only(b, a, c), b[c] # "closed"
    PROVE  StreamsOf(p, u, r, f, b, sh) = StreamsOf(p, u, r, f, a, sh)
<1>1. \A d \in Conns : b[d] = "closed" <=> a[d] = "closed"
  BY Zenon DEF Only
<1> QED BY <1>1, Zenon DEF StreamsOf

\* close: nothing is read any more.
LEMMA ClosedStreams ==
    ASSUME NEW p \in StreamSet, NEW u \in StreamSet, NEW r, NEW f,
           NEW a \in [Conns -> Labels], NEW sh, NEW c \in Conns,
           NEW q, Only(q, p, c), q[c] = <<>>, NEW v, Only(v, u, c), v[c] = <<>>,
           NEW b, Only(b, a, c), b[c] = "closed"
    PROVE  /\ StreamsOf(q, v, r, f, b, sh)[c] = <<>>
           /\ Only(StreamsOf(q, v, r, f, b, sh), StreamsOf(p, u, r, f, a, sh), c)
<1>1. <<>> \o <<>> = <<>>
  OBVIOUS
<1> QED BY <1>1, Zenon DEF StreamsOf, Only

\* The client lets go of its connection, or shutdownActiveConnections cuts all of
\* them: what sendAll had still to send is not sent.
LEMMA DroppedStreams ==
    ASSUME NEW p \in StreamSet, NEW u \in StreamSet, NEW r \in Seq(Units), NEW f, NEW a, NEW sh
    PROVE  /\ OnTheWay(p, u) \in StreamSet
           /\ \A c \in Conns : Begins(OnTheWay(p, u)[c], StreamsOf(p, u, r, f, a, sh)[c])
<1> DEFINE T == OnTheWay(p, u)
           S == StreamsOf(p, u, r, f, a, sh)
<1>1. \A c \in Conns : T[c] \in Seq(Units) /\ (S[c] = T[c] \/ S[c] = T[c] \o r)
  BY SMTT(30) DEF StreamsOf, StreamSet, OnTheWay
<1>2. T \in StreamSet
  BY <1>1, Zenon DEF StreamSet, OnTheWay
<1> HIDE DEF T, S
<1>3. \A x \in Seq(Units) : Begins(x, x) /\ Begins(x, x \o r)
  BY DEF Begins
<1>4. \A c \in Conns : Begins(T[c], S[c])
  BY <1>1, <1>3, Zenon
<1> QED BY <1>2, <1>4, Zenon DEF T, S

\* A new command, with nothing before it that is still to be sent.
LEMMA AskedStreams ==
    ASSUME NEW p \in StreamSet, NEW u \in StreamSet, NEW F \in Seq(Units), NEW f \in Conns,
           NEW a \in [Conns -> Labels], NEW sh
    PROVE  /\ a[f] = "closed" \/ sh =>
                 StreamsOf(p, u, F, f, a, sh) = StreamsOf(p, u, <<>>, f, a, sh)
           /\ ~(a[f] = "closed" \/ sh) =>
                 /\ StreamsOf(p, u, F, f, a, sh)[f] = StreamsOf(p, u, <<>>, f, a, sh)[f] \o F
                 /\ Only(StreamsOf(p, u, F, f, a, sh), StreamsOf(p, u, <<>>, f, a, sh), f)
<1>1. StreamsOf(p, u, <<>>, f, a, sh) = OnTheWay(p, u)
  BY PlainStreams, Zenon
<1>2. a[f] = "closed" \/ sh => StreamsOf(p, u, F, f, a, sh) = OnTheWay(p, u)
  BY Zenon DEF StreamsOf, OnTheWay
<1>3. ~(a[f] = "closed" \/ sh) => StreamsOf(p, u, F, f, a, sh)[f] = OnTheWay(p, u)[f] \o F
  BY Zenon DEF StreamsOf, OnTheWay
<1>4. Only(StreamsOf(p, u, F, f, a, sh), OnTheWay(p, u), f)
  BY Zenon DEF StreamsOf, OnTheWay, Only
<1> QED BY <1>1, <1>2, <1>3, <1>4, Zenon

\* T is S with the line at the head of b, and of S's stream of c, taken off that stream.
CutOff(S, T, b, c) ==
    /\ T[c] = Rest(S[c], End(b)) /\ Only(T, S, c)
    /\ End(b) \in 1 .. Len(S[c]) /\ S[c][End(b)].nl
    /\ \A j \in 1 .. End(b) - 1 : ~S[c][j].nl
    /\ SubSeq(S[c], 1, End(b) - 1) = Text(b)

\* A line is cut out of pending: it is the first line of the stream.
LEMMA CutStreams ==
    ASSUME NEW p \in StreamSet, NEW u \in StreamSet, NEW r \in Seq(Units), NEW f,
           NEW a, NEW sh, NEW c \in Conns, HasLine(p[c]),
           NEW q, Only(q, p, c), q[c] = After(p[c])
    PROVE  CutOff(StreamsOf(p, u, r, f, a, sh), StreamsOf(q, u, r, f, a, sh), p[c], c)
<1> DEFINE S == StreamsOf(p, u, r, f, a, sh)
           e == End(p[c])
           b == p[c]
           T == StreamsOf(q, u, r, f, a, sh)
           mine == c = f /\ ~(a[c] = "closed" \/ sh)
           w == IF mine THEN u[c] \o r ELSE u[c]
<1>1. b \in Seq(Units) /\ u[c] \in Seq(Units) /\ Len(b) \in Nat /\ w \in Seq(Units)
  BY DEF StreamSet
<1>2. e \in 1 .. Len(b) /\ b[e].nl /\ \A j \in 1 .. e - 1 : ~b[j].nl
  BY <1>1, FirstLine, ZenonT(40)
<1>3. Rest(b, e) = After(b) /\ After(b) \in Seq(Units)
  BY <1>1, <1>2 DEF After, Rest
<1>4. S[c] = b \o w
  <2>1. S[c] = IF mine THEN (b \o u[c]) \o r ELSE b \o u[c]
    BY Zenon DEF StreamsOf
  <2>2. (b \o u[c]) \o r = b \o (u[c] \o r)
    <3> DEFINE uc == u[c]
    <3>1. uc \in Seq(Units)
      BY <1>1, Zenon
    <3> HIDE DEF b, uc
    <3>2. (b \o uc) \o r = b \o (uc \o r)
      BY <1>1, <3>1, AssociativeUnits, ZenonT(40)
    <3> QED BY <3>2, Zenon DEF uc
  <2> QED BY <2>1, <2>2, Zenon
<1>5. T[c] = After(b) \o w
  <2> DEFINE n == After(b)
  <2>1. q[c] = n
    BY Zenon
  <2>2. T[c] = IF mine THEN (n \o u[c]) \o r ELSE n \o u[c]
    BY <2>1, Zenon DEF StreamsOf
  <2>3. (n \o u[c]) \o r = n \o (u[c] \o r)
    <3> DEFINE uc == u[c]
    <3>1. uc \in Seq(Units) /\ n \in Seq(Units)
      BY <1>1, <1>3, Zenon
    <3> HIDE DEF n, uc
    <3>2. (n \o uc) \o r = n \o (uc \o r)
      BY <3>1, AssociativeUnits, Zenon
    <3> QED BY <3>2, Zenon DEF uc
  <2> QED BY <2>2, <2>3, Zenon
<1>6. Only(T, S, c)
  BY Zenon DEF StreamsOf, Only
<1>8. /\ Rest(b \o w, e) = Rest(b, e) \o w
      /\ SubSeq(b \o w, 1, e - 1) = SubSeq(b, 1, e - 1)
      /\ e \in 1 .. Len(b \o w) /\ \A j \in 1 .. Len(b) : (b \o w)[j] = b[j]
  <2> HIDE DEF b, w, e
  <2>1. e \in 1 .. Len(b) /\ b \in Seq(Units) /\ w \in Seq(Units)
    BY <1>1, <1>2, Zenon
  <2> QED BY <2>1, HeadCut, Zenon
<1> HIDE DEF S, T, b, e, w
<1>9. T[c] = Rest(S[c], e)
  BY <1>3, <1>4, <1>5, <1>8, ZenonT(40)
<1>10. e \in 1 .. Len(S[c]) /\ S[c][e].nl /\ \A j \in 1 .. e - 1 : ~S[c][j].nl
  BY <1>1, <1>2, <1>4, <1>8, SMTT(30)
<1>11. SubSeq(S[c], 1, e - 1) = Text(b)
  BY <1>4, <1>8, Zenon DEF Text, e, b
<1>12. CutOff(S, T, b, c)
  BY <1>6, <1>9, <1>10, <1>11, Zenon DEF CutOff, e, b
<1> QED BY <1>12, Zenon DEF S, T, b

-----------------------------------------------------------------------------
(* What the steps do to the conversation.                                  *)

\* Nothing is nothing and nothing.
LEMMA EmptyJoin ==
    ASSUME NEW X, NEW s \in Seq(X), NEW t \in Seq(X)
    PROVE  /\ s \o t = <<>> => s = <<>> /\ t = <<>>
           /\ <<>> \o t = t /\ s \o <<>> = s
OBVIOUS

\* Nothing more is read from the connection.
LEMMA TalkCutOff ==
    ASSUME NEW s \in Seq(Units), NEW t \in Seq(Units), NEW l, NEW l2, NEW sh, NEW sh2,
           NEW d, NEW cs \in Seq(Lines), Len(cs) > 0, NEW got, NEW wanted,
           Talking(s, l, sh, d, cs, got, wanted), Begins(t, s),
           sh2 \/ l2 = "closed", l = "closed" => l2 = "closed",
           l2 = "closed" \/ l2 = l
    PROVE  Talking(t, l2, sh2, d, cs, got, wanted)
<1> DEFINE frame == Framed(Len(cs), cs[Len(cs)].size)
<1>1. Len(cs) \in Nat /\ cs[Len(cs)].size \in Nat
  BY SMTT(30) DEF Lines
<1>2. frame \in Seq(Units)
  <2>1. IsFrame(frame, Len(cs), cs[Len(cs)].size)
    BY <1>1, FrameShape, Zenon
  <2> HIDE DEF frame
  <2> QED BY <2>1, Zenon DEF IsFrame
<1> HIDE DEF frame
<1>3. s = <<>> => t = <<>>
  BY DEF Begins
<1>4. \A x \in Seq(Units) : Begins(x, x)
  BY DEF Begins
<1>5. ASSUME Unanswered(s, l, sh, d, cs, got, wanted) PROVE Unanswered(t, l2, sh2, d, cs, got, wanted)
  <2>1. Begins(s, frame)
    BY <1>2, <1>4, <1>5, Zenon DEF Unanswered, frame
  <2>2. Begins(t, frame)
    BY <2>1, <1>2 DEF Begins
  <2> QED BY <2>2, <1>5, Zenon DEF Unanswered, frame
<1>6. ASSUME Answered(s, l, sh, d, cs, got, wanted) PROVE Answered(t, l2, sh2, d, cs, got, wanted)
  BY <1>3, <1>6, Zenon DEF Answered
<1>7. ASSUME TurnedAway(s, l, d, got, wanted) PROVE TurnedAway(t, l2, d, got, wanted)
  BY <1>3, <1>7, Zenon DEF TurnedAway
<1> QED BY <1>5, <1>6, <1>7, Zenon DEF Talking

\* The server goes on with the connection.
LEMMA TalkRelabelled ==
    ASSUME NEW s, NEW l, NEW l2, NEW sh, NEW d, NEW cs, NEW got, NEW wanted,
           Talking(s, l, sh, d, cs, got, wanted),
           \/ l \in {"backlog", "queued"} /\ l2 \in {"queued", "recv"}
           \/ l \in {"recv", "cut"} /\ l2 \in {"recv", "cut"}
    PROVE  Talking(s, l2, sh, d, cs, got, wanted)
<1>1. l # "closed" /\ l2 # "closed"
  BY Zenon
<1>2. ASSUME Unanswered(s, l, sh, d, cs, got, wanted) PROVE Unanswered(s, l2, sh, d, cs, got, wanted)
  BY <1>1, <1>2, Zenon DEF Unanswered
<1>3. ASSUME Answered(s, l, sh, d, cs, got, wanted) PROVE Answered(s, l2, sh, d, cs, got, wanted)
  BY <1>3, Zenon DEF Answered
<1> QED BY <1>1, <1>2, <1>3, Zenon DEF Talking, TurnedAway

\* While units of the command are still to be cut, or the connection has not been
\* served, nothing is coming.
LEMMA StillUnanswered ==
    ASSUME NEW s, NEW l, NEW sh, NEW d, NEW cs, NEW got, NEW wanted,
           Talking(s, l, sh, d, cs, got, wanted), l # "closed", s # <<>> \/ l = "backlog"
    PROVE  Unanswered(s, l, sh, d, cs, got, wanted)
BY Zenon DEF Talking, Answered, TurnedAway

\* The command that is cut out is the one the client waits for, and the executor's
\* reply is to it.
LEMMA CutIsTheCall ==
    ASSUME NEW s \in Seq(Units), NEW l, NEW sh, NEW d, calls \in Seq(Lines), Len(calls) > 0,
           NEW got, NEW wanted, Talking(s, l, sh, d, calls, got, wanted), l # "closed",
           NEW e \in 1 .. Len(s), s[e].nl, \A j \in 1 .. e - 1 : ~s[j].nl
    PROVE  /\ d = <<>> /\ got = <<>> /\ wanted = 0 /\ Rest(s, e) = <<>>
           /\ Execute(SubSeq(s, 1, e - 1)) = Replies(Len(calls), calls[Len(calls)].kind)
<1> DEFINE n == Len(calls)
           size == calls[n].size
           F == Framed(n, size)
           text == SubSeq(s, 1, e - 1)
<1>1. n \in Nat /\ calls[n] \in Lines
  OBVIOUS
<1>2. size \in Nat /\ calls[n].kind \in Kinds /\ (size = 0 <=> calls[n].kind = "Empty")
  BY <1>1, Zenon DEF Lines
<1>3. IsFrame(F, n, size)
  BY <1>1, <1>2, FrameShape, Zenon
<1>4. Len(s) \in Nat /\ s # <<>> /\ e \in Nat
  OBVIOUS
<1>5. Unanswered(s, l, sh, d, calls, got, wanted)
  BY <1>4, StillUnanswered, Zenon
<1>6. Begins(s, F) /\ d = <<>> /\ got = <<>> /\ wanted = 0
  BY <1>3, <1>5 DEF Unanswered, Begins
<1> HIDE DEF n, size, F
<1>7. e = size + 1 /\ Len(s) = size + 1
  BY <1>2, <1>3, <1>4, <1>6 DEF Begins, IsFrame
<1>8. Rest(s, e) = <<>>
  BY <1>4, <1>7 DEF Rest
<1>9. /\ text = SubSeq(F, 1, size) /\ Len(text) = size
      /\ size > 0 => text # <<>> /\ text[1].of = n
  <2>1. F \in Seq(Units) /\ Len(F) = size + 1 /\ \A i \in 1 .. size : F[i] = s[i] /\ F[i].of = n
    BY <1>2, <1>3, <1>6, <1>7 DEF Begins, IsFrame
  <2>2. text = SubSeq(F, 1, size) /\ Len(text) = size
    BY <2>1, <1>2, <1>7
  <2>3. size > 0 => text # <<>> /\ text[1] = s[1]
    BY <1>2, <1>7, SMTT(30)
  <2> QED BY <2>1, <2>2, <2>3, <1>2, SMTT(30)
<1> HIDE DEF text
<1>10. Execute(text) = Replies(n, calls[n].kind)
  <2>1. CASE size = 0
    <3>1. text = <<>> /\ calls[n].kind = "Empty"
      BY <2>1, <1>2, <1>9 DEF text
    <3> QED BY <3>1, Zenon DEF Execute, Replies
  <2>2. CASE size > 0
    BY <2>2, <1>9, Zenon DEF Execute, WholeCall, F, size
  <2> QED BY <2>1, <2>2, <1>2
<1> QED BY <1>6, <1>8, <1>10, Zenon DEF n, text

\* A reply, or as much of it as goes out, is coming.
LEMMA StartsComing ==
    ASSUME NEW r, IsReply(r)
    PROVE  /\ Coming(r, <<>>, 0, FramedLines(r))
           /\ \A k \in 0 .. Len(FramedLines(r)) - 1 : Coming(r, <<>>, 0, SubSeq(FramedLines(r), 1, k))
           /\ r = <<>> => Coming(r, <<>>, 0, <<>>)
<1> DEFINE F == FramedLines(r)
           l == Len(r)
<1>1. F \in Seq(LineUnits) /\ Len(F) = 2 * l /\ l \in Nat
  BY LinesShape DEF IsReply
<1> HIDE DEF F
<1>2. Coming(r, <<>>, 0, F)
  BY <1>1 DEF Coming, F
<1>3. \A k \in 0 .. Len(F) - 1 : Coming(r, <<>>, 0, SubSeq(F, 1, k))
  <2> TAKE k \in 0 .. Len(F) - 1
  <2> DEFINE d == SubSeq(F, 1, k)
  <2>1. Len(d) = k /\ \A j \in 1 .. k : d[j] = F[j]
    BY <1>1
  <2>2. k <= 2 * (l - 0) /\ \A j \in 1 .. k : 2 * 0 + j = j
    BY <1>1
  <2> HIDE DEF d
  <2>3. Coming(r, <<>>, 0, d)
    BY <2>1, <2>2 DEF Coming, F
  <2> QED BY <2>3, Zenon DEF d
<1>4. r = <<>> => Coming(r, <<>>, 0, <<>>)
  BY DEF Coming
<1> QED BY <1>2, <1>3, <1>4, Zenon DEF F

-----------------------------------------------------------------------------
(* Steps of the server on one connection.                                  *)

\* What is under way keeps its type.
LEMMA StreamsTyped ==
    ASSUME IInv
    PROVE  Streams \in StreamSet /\ pending \in StreamSet /\ up \in StreamSet
<1>1. pending \in StreamSet /\ up \in StreamSet /\ rest \in Seq(Units)
  BY Zenon DEF IInv, Typed, StreamSet
<1> QED BY <1>1, StreamsType, Zenon DEF Streams

\* A step on connection c leaves the others alone; of c it has to keep the stream
\* orderly and, when the client talks on it, the client in step.
LEMMA ServerStep ==
    ASSUME IInv, NEW c \in Conns, UNCHANGED <<server, open, client>>,
           NEW label \in Labels \ {"none"}, at[c] # "none", at'[c] = label, Only(at', at, c),
           at' \in [Conns -> Labels],
           up' \in StreamSet, pending' \in StreamSet, down' \in [Conns -> Seq(LineUnits)],
           Only(up', up, c), Only(pending', pending, c), Only(down', down, c),
           label \in {"backlog", "queued", "closed"} => pending'[c] = <<>>,
           label = "closed" => up'[c] = <<>>,
           label = "recv" => ~HasLine(pending'[c]),
           executed' \in ExecutedSet,
           NEW x \in Seq(Units), Streams'[c] = x, Only(Streams', Streams, c),
           Orderly(Streams', calls, executed'),
           pc = "raw" /\ c = 1 => x = <<>> \/ x[Len(x)].nl,
           pc = "idle" /\ c = fd => Rested(x, label, buffer, down'[c], reply, want),
           pc \in {"send", "read"} /\ c = fd =>
               Talking(x, label, shut, buffer \o down'[c], calls, reply, want)
    PROVE  IInv'
<1>2. Streams'[c] = x /\ \A d \in Conns : d # c => Streams'[d] = Streams[d]
  BY ZenonT(40) DEF Only
<1>3. at'[c] = label /\ at' \in [Conns -> Labels] /\ \A d \in Conns : d # c => at'[d] = at[d]
  BY Zenon DEF Only
<1>4. Typed'
  BY <1>3, ZenonT(40) DEF IInv, Typed, StreamSet, ExecutedSet, server, client
<1>5. Coupled'
  <2>1. /\ (pc \in {"raw", "killed"} => fd = 0)'
        /\ (pc \in {"send", "read"} => fd # 0 /\ Len(calls) > 0)'
        /\ (pc # "send" => rest = <<>>)'
        /\ (pc = "idle" => reply = <<>> /\ want = 0)'
    BY ZenonT(40) DEF IInv, Coupled, client
  <2>2. fd # 0 => fd \in Conns
    BY DEF IInv, Typed, Conns
  <2>3. (fd # 0 => open[fd] /\ at[fd] # "none")'
    BY <1>3, <2>2, Zenon DEF IInv, Coupled, client
  <2>4. ASSUME NEW d \in Conns
        PROVE  /\ at'[d] = "none" => down'[d] = <<>>
               /\ at'[d] \in {"none", "backlog", "queued", "closed"} => pending'[d] = <<>>
               /\ at'[d] \in {"none", "closed"} => up'[d] = <<>>
               /\ at'[d] = "recv" => ~HasLine(pending'[d])
    <3>1. CASE d = c
      BY <3>1, <1>3, Zenon
    <3>2. CASE d # c
      <4>1. at'[d] = at[d] /\ up'[d] = up[d] /\ pending'[d] = pending[d] /\ down'[d] = down[d]
        BY <3>2, ZenonT(40) DEF Only
      <4> QED BY <4>1, Zenon DEF IInv, Coupled
    <3> QED BY <3>1, <3>2, ZenonT(40)
  <2>5. 1 \in Conns
    BY ConnsAssumption DEF Conns
  <2>6. (pc = "raw" => Streams[1] = <<>> \/ Streams[1][Len(Streams[1])].nl)'
    <3>1. CASE c = 1
      BY <3>1, <1>2, Zenon DEF client
    <3>2. CASE c # 1
      <4>1. Streams'[1] = Streams[1]
        BY <3>2, <2>5, <1>2, Zenon
      <4> QED BY <4>1, Zenon DEF IInv, Coupled, client
    <3> QED BY <3>1, <3>2, Zenon
  <2>7. (pc = "raw" => at[1] # "none")'
    BY <2>5, <1>3, Zenon DEF IInv, Coupled, client
  <2> QED BY <2>1, <2>3, <2>4, <2>6, <2>7, Zenon DEF Coupled
<1>6. Recorded'
  BY Zenon DEF IInv, Recorded, client, DeliveredAnswersTheCall, OnlyBlankIsSilent
<1>7. InStep'
  <2>1. UNCHANGED <<fd, pc, buffer, reply, want, calls, shut>>
    BY ZenonT(40) DEF server, client
  <2>2. CASE c = fd
    BY <2>1, <2>2, <1>2, <1>3, ZenonT(40) DEF InStep
  <2>3. CASE fd # c /\ fd \in Conns
    <3>1. Streams'[fd] = Streams[fd] /\ at'[fd] = at[fd] /\ down'[fd] = down[fd]
      BY <2>3, Zenon DEF Only
    <3> QED BY <2>1, <3>1, Zenon DEF IInv, InStep
  <2>4. CASE fd \notin Conns
    <3>1. fd = 0
      BY <2>4 DEF IInv, Typed, Conns
    <3> QED BY <2>1, <3>1, ZenonT(40) DEF InStep, IInv, Coupled
  <2> QED BY <2>2, <2>3, <2>4, ZenonT(40)
<1>8. Orderly(Streams, calls, executed)'
  BY ZenonT(40) DEF client
<1> QED BY <1>4, <1>5, <1>6, <1>7, <1>8, Zenon DEF IInv

\* The handler goes on to its next step.
LEMMA RelabelStep ==
    ASSUME IInv, NEW c \in Conns, UNCHANGED <<server, open, client, down, executed>>, NEW label,
           \/ at[c] \in {"backlog", "queued"} /\ label \in {"queued", "recv"}
           \/ at[c] \in {"recv", "cut"} /\ label \in {"recv", "cut"},
           at' = [at EXCEPT ![c] = label],
           up' \in StreamSet, pending' \in StreamSet, Only(up', up, c), Only(pending', pending, c),
           label = "queued" => pending'[c] = <<>>,
           label = "recv" => ~HasLine(pending'[c]),
           Streams' = Streams
    PROVE  IInv'
<1> DEFINE x == Streams[c]
<1>1. Streams \in StreamSet /\ x \in Seq(Units)
  BY StreamsTyped, Zenon DEF StreamSet
<1>2. Streams'[c] = x /\ Only(Streams', Streams, c)
  BY Zenon DEF Only
<1>3. label \in Labels \ {"none"} /\ label # "closed" /\ label # "backlog" /\ at[c] # "none" /\ at[c] # "closed"
  BY Zenon DEF Labels
<1>4. down' \in [Conns -> Seq(LineUnits)] /\ executed' \in ExecutedSet /\ down'[c] = down[c]
  BY Zenon DEF IInv, Typed, ExecutedSet
<1>5. Orderly(Streams', calls, executed')
  BY Zenon DEF IInv
<1>6. pc = "raw" /\ c = 1 => x = <<>> \/ x[Len(x)].nl
  BY Zenon DEF IInv, Coupled
<1>7. pc = "idle" /\ c = fd => Rested(x, label, buffer, down'[c], reply, want)
  <2> SUFFICES ASSUME pc = "idle", c = fd PROVE Rested(x, label, buffer, down'[c], reply, want)
    BY ZenonT(40)
  <2>1. fd # 0
    BY ConnsAssumption DEF Conns
  <2>2. Rested(x, at[c], buffer, down[c], reply, want)
    BY <2>1, Zenon DEF IInv, InStep
  <2> QED BY <2>2, <1>3, <1>4, Zenon DEF Rested, TurnedAway
<1>8. pc \in {"send", "read"} /\ c = fd =>
          Talking(x, label, shut, buffer \o down'[c], calls, reply, want)
  <2> SUFFICES ASSUME pc \in {"send", "read"}, c = fd
               PROVE  Talking(x, label, shut, buffer \o down'[c], calls, reply, want)
    BY Zenon
  <2> DEFINE d == buffer \o down[c]
  <2>1. Talking(x, at[c], shut, d, calls, reply, want)
    BY Zenon DEF IInv, InStep
  <2> HIDE DEF x, d
  <2>2. Talking(x, label, shut, d, calls, reply, want)
    BY <2>1, TalkRelabelled, Zenon
  <2> QED BY <2>2, <1>4, Zenon DEF d
<1>9. at'[c] = label /\ Only(at', at, c) /\ at' \in [Conns -> Labels] /\ Only(down', down, c)
  BY <1>3, Zenon DEF IInv, Typed, Only
<1>10. /\ label \in {"backlog", "queued", "closed"} => pending'[c] = <<>>
       /\ label = "closed" => up'[c] = <<>>
       /\ UNCHANGED <<server, open, client>>
  BY <1>3, Zenon
<1> HIDE DEF x
<1> QED BY <1>1, <1>2, <1>3, <1>4, <1>5, <1>6, <1>7, <1>8, <1>9, <1>10, ServerStep, ZenonT(40)

\* The server closes the connection, and says why only when the client has not been
\* answered.
LEMMA CloseStep ==
    ASSUME IInv, NEW c \in Conns, UNCHANGED <<server, open, client, executed>>, Close(c),
           at[c] \notin {"none", "closed"},
           \/ down' = down
           \/ Say(c, FramedLines(Refusal)) /\ (at[c] = "backlog" \/ Streams[c] # <<>>)
    PROVE  IInv'
<1> DEFINE x == <<>>
           s == Streams[c]
           d == buffer \o down[c]
           R == FramedLines(Refusal)
<1>1. Streams \in StreamSet /\ pending \in StreamSet /\ up \in StreamSet /\ s \in Seq(Units)
  BY StreamsTyped, Zenon DEF StreamSet
<1>2. /\ up' = [up EXCEPT ![c] = <<>>] /\ pending' = [pending EXCEPT ![c] = <<>>]
      /\ at' = [at EXCEPT ![c] = "closed"] /\ at \in [Conns -> Labels]
  BY Zenon DEF Close, Goto, IInv, Typed, Labels
<1>4. /\ up' \in StreamSet /\ pending' \in StreamSet /\ up'[c] = <<>> /\ pending'[c] = <<>>
      /\ Only(up', up, c) /\ Only(pending', pending, c)
  BY <1>1, <1>2 DEF StreamSet, Only
<1>14. at' \in [Conns -> Labels] /\ at'[c] = "closed" /\ Only(at', at, c)
  BY <1>2, Zenon DEF Only, Labels
<1>3. Streams'[c] = x /\ Only(Streams', Streams, c)
  <2>1. Streams' = StreamsOf(pending', up', rest, fd, at', shut)
    BY Zenon DEF Streams, server, client
  <2>2. /\ StreamsOf(pending', up', rest, fd, at', shut)[c] = <<>>
        /\ Only(StreamsOf(pending', up', rest, fd, at', shut), StreamsOf(pending, up, rest, fd, at, shut), c)
    <3>1. at \in [Conns -> Labels]
      BY <1>2, Zenon
    <3> QED BY <3>1, <1>1, <1>4, <1>14, ClosedStreams, ZenonT(40)
  <2> QED BY <2>1, <2>2, Zenon DEF Streams
<1>5. R \in Seq(LineUnits)
  <2>1. IsReply(Refusal)
    BY SingleLine, ZenonT(40) DEF Refusal, Tags
  <2> QED BY <2>1, LinesShape, Zenon
<1> HIDE DEF R
<1>6. down \in [Conns -> Seq(LineUnits)] /\ open \in [Conns -> BOOLEAN] /\ buffer \in Seq(LineUnits)
  BY Zenon DEF IInv, Typed
<1>7. down'[c] = down[c] \/ ((at[c] = "backlog" \/ s # <<>>) /\ down'[c] = down[c] \o R)
  BY <1>6, Zenon DEF Say, R
<1>8. down' \in [Conns -> Seq(LineUnits)]
  <2>1. CASE down' = down
    BY <2>1, <1>6, Zenon
  <2>2. CASE Say(c, R)
    <3>1. down[c] \o R \in Seq(LineUnits)
      BY <1>5, <1>6
    <3> QED BY <2>2, <3>1, <1>6, Zenon DEF Say
  <2> QED BY <2>1, <2>2, Zenon DEF R
<1>9. Only(down', down, c)
  BY <1>6, Zenon DEF Only, Say
<1>10. Orderly(Streams', calls, executed')
  <2>1. \A k \in Conns : Begins(Streams'[k], Streams[k])
    BY <1>1, <1>3 DEF StreamSet, Begins, Only
  <2>2. Streams' \in StreamSet
    <3>1. rest' \in Seq(Units)
      BY Zenon DEF IInv, Typed, client
    <3> QED BY <3>1, <1>4, StreamsType, Zenon DEF Streams
  <2>3. Orderly(Streams, calls, executed) /\ executed' = executed
    BY Zenon DEF IInv
  <2> QED BY <2>1, <2>2, <2>3, <1>1, ShortenedOrderly, ZenonT(40)
<1>11. pc = "idle" /\ c = fd => Rested(x, "closed", buffer, down'[c], reply, want)
  <2> SUFFICES ASSUME pc = "idle", c = fd PROVE Rested(x, "closed", buffer, down'[c], reply, want)
    BY Zenon
  <2>1. fd # 0
    BY ConnsAssumption DEF Conns
  <2>2. Rested(s, at[c], buffer, down[c], reply, want)
    BY <2>1, Zenon DEF IInv, InStep
  <2>3. down[c] = <<>> /\ s = <<>>
    BY <2>2, Zenon DEF Rested, TurnedAway
  <2>4. down'[c] = <<>> \/ down'[c] = R
    BY <2>3, <1>5, <1>7, EmptyJoin, Zenon
  <2> QED BY <2>2, <2>4, ZenonT(40) DEF Rested, TurnedAway, R
<1>12. pc \in {"send", "read"} /\ c = fd =>
          Talking(x, "closed", shut, buffer \o down'[c], calls, reply, want)
  <2> SUFFICES ASSUME pc \in {"send", "read"}, c = fd
               PROVE  Talking(x, "closed", shut, buffer \o down'[c], calls, reply, want)
    BY Zenon
  <2>1. Talking(s, at[c], shut, d, calls, reply, want)
    BY Zenon DEF IInv, InStep
  <2>2. calls \in Seq(Lines) /\ Len(calls) > 0
    BY Zenon DEF IInv, Typed, Coupled
  <2>3. CASE down'[c] = down[c]
    <3>1. Begins(<<>>, s) /\ x \in Seq(Units)
      BY <1>1 DEF Begins
    <3> HIDE DEF s, d
    <3>2. Talking(<<>>, "closed", shut, d, calls, reply, want)
      BY <2>1, <2>2, <3>1, <1>1, TalkCutOff, ZenonT(40)
    <3> QED BY <2>3, <3>2, Zenon DEF d
  <2>4. CASE (at[c] = "backlog" \/ s # <<>>) /\ down'[c] = down[c] \o R
    <3>1. Unanswered(s, at[c], shut, d, calls, reply, want)
      BY <2>1, <2>4, StillUnanswered, ZenonT(40)
    <3>2. d = <<>> /\ reply = <<>> /\ want = 0
      BY <3>1, Zenon DEF Unanswered
    <3>3. buffer = <<>> /\ down[c] = <<>>
      BY <3>2, <1>6, EmptyJoin
    <3>4. buffer \o down'[c] = R
      BY <2>4, <3>3, <1>5, EmptyJoin, ZenonT(40)
    <3> QED BY <3>2, <3>4, Zenon DEF Talking, TurnedAway, R
  <2> QED BY <2>3, <2>4, <1>7, Zenon
<1>13. /\ executed' \in ExecutedSet /\ UNCHANGED <<server, open, client>>
       /\ "closed" \in Labels \ {"none"} /\ x \in Seq(Units) /\ at[c] # "none"
       /\ pc = "raw" /\ c = 1 => x = <<>> \/ x[Len(x)].nl
  BY DEF IInv, Typed, ExecutedSet, Labels
<1> QED BY <1>3, <1>4, <1>8, <1>9, <1>10, <1>11, <1>12, <1>13, <1>14, ServerStep, Zenon

\* A step that changes only the label leaves the streams as they are.
LEMMA LabelStep ==
    ASSUME IInv, NEW c \in Conns, UNCHANGED <<server, open, client, down, executed, up, pending>>, NEW label,
           \/ at[c] = "backlog" /\ label = "queued"
           \/ at[c] = "queued" /\ label = "recv"
           \/ at[c] = "cut" /\ label = "recv" /\ ~HasLine(pending[c]),
           Goto(c, label)
    PROVE  IInv'
<1>1. pending \in StreamSet /\ up \in StreamSet /\ at \in [Conns -> Labels]
  BY StreamsTyped, Zenon DEF IInv, Typed
<1>2. at' = [at EXCEPT ![c] = label] /\ at[c] # "closed" /\ label # "closed"
  BY Zenon DEF Goto
<1>3. Only(at', at, c) /\ at'[c] = label
  BY <1>1, <1>2, Zenon DEF Only
<1>4. Only(up', up, c) /\ Only(pending', pending, c) /\ up' \in StreamSet /\ pending' \in StreamSet
  BY <1>1, Zenon DEF Only
<1>5. Streams' = Streams
  <2>1. Streams' = StreamsOf(pending, up, rest, fd, at', shut)
    BY ZenonT(40) DEF Streams, server, client
  <2>2. StreamsOf(pending, up, rest, fd, at', shut) = StreamsOf(pending, up, rest, fd, at, shut)
    <3>1. at \in [Conns -> Labels] /\ at[c] # "closed" /\ at'[c] # "closed" /\ Only(at', at, c)
      BY <1>1, <1>2, <1>3, Zenon
    <3>2. PICK b : b = at'
      BY Zenon
    <3>3. Only(b, at, c) /\ b[c] # "closed"
      BY <3>1, <3>2, ZenonT(40)
    <3>4. StreamsOf(pending, up, rest, fd, b, shut) = StreamsOf(pending, up, rest, fd, at, shut)
      BY <3>1, <3>3, RelabelledStreams, SMTT(30)
    <3> QED BY <3>2, <3>4, Zenon
  <2> QED BY <2>1, <2>2, Zenon DEF Streams
<1>6. /\ label = "queued" => pending'[c] = <<>>
      /\ label = "recv" => ~HasLine(pending'[c])
  <2>1. at[c] \in {"backlog", "queued"} => pending[c] = <<>>
    BY Zenon DEF IInv, Coupled
  <2>2. ~HasLine(<<>>)
    BY DEF HasLine
  <2>3. pending' = pending
    BY Zenon
  <2> QED BY <2>1, <2>2, <2>3, Zenon
<1>7. UNCHANGED <<server, open, client, down, executed>>
  BY Zenon
<1> QED BY <1>2, <1>4, <1>5, <1>6, <1>7, RelabelStep, ZenonT(40)

\* run: a connection is queued or turned away.
LEMMA AcceptStep ==
    ASSUME IInv, NEW c \in Conns, Accept(c)
    PROVE  IInv'
<1>1. CASE Goto(c, "queued") /\ UNCHANGED <<up, down, pending>>
  BY <1>1, LabelStep, Zenon DEF Accept
<1>2. CASE Say(c, FramedLines(<<Line(0, "-", 0)>>)) /\ Close(c)
  BY <1>2, CloseStep, Zenon DEF Accept, Refusal
<1> QED BY <1>1, <1>2, Zenon DEF Accept

\* The connections that nobody accepted, a worker that finds the server stopping,
\* a peer that has gone, and a reply that could not be sent.
LEMMA ServerClosesStep ==
    ASSUME IInv, NEW c \in Conns, Refuse(c) \/ (Serve(c) /\ ~running) \/ ServerLeaves(c) \/ Abandon(c)
    PROVE  IInv'
<1>1. UNCHANGED <<server, open, client, executed>> /\ Close(c) /\ down' = down
  BY Zenon DEF Refuse, Serve, ServerLeaves, Abandon
<1>2. at[c] \notin {"none", "closed"}
  BY Zenon DEF Refuse, Serve, ServerLeaves, Abandon
<1> QED BY <1>1, <1>2, CloseStep, ZenonT(40)

\* serveConnection.
LEMMA ServeStep ==
    ASSUME IInv, NEW c \in Conns, Serve(c)
    PROVE  IInv'
<1>1. CASE running
  BY <1>1, LabelStep, Zenon DEF Serve
<1>2. CASE ~running
  BY <1>2, ServerClosesStep, Zenon
<1> QED BY <1>1, <1>2, Zenon

\* recv in handleConnection.
LEMMA ServerReceiveStep ==
    ASSUME IInv, NEW c \in Conns, ServerReceive(c)
    PROVE  IInv'
<1>1. pending \in StreamSet /\ up \in StreamSet /\ at \in [Conns -> Labels] /\ rest \in Seq(Units)
  BY StreamsTyped, Zenon DEF IInv, Typed
<1>2. PICK k \in 1 .. Len(up[c]) :
          /\ pending' = [pending EXCEPT ![c] = @ \o SubSeq(up[c], 1, k)]
          /\ up' = [up EXCEPT ![c] = Rest(@, k)]
  BY Zenon DEF ServerReceive
<1>3. at' = [at EXCEPT ![c] = "cut"] /\ at[c] = "recv"
  BY Zenon DEF ServerReceive, Goto
<1>4. Only(at', at, c) /\ at'[c] = "cut"
  BY <1>1, <1>3, Zenon DEF Only
<1>5. up[c] \in Seq(Units) /\ pending[c] \in Seq(Units) /\ k \in 0 .. Len(up[c])
  BY <1>1 DEF StreamSet
<1> DEFINE x == SubSeq(up[c], 1, k)
           y == Rest(up[c], k)
           b == pending[c] \o x
<1>6. x \in Seq(Units) /\ y \in Seq(Units)
  BY <1>5, Split, Zenon
<1>7. b \in Seq(Units)
  <2> HIDE DEF x
  <2> QED BY <1>5, <1>6
<1>8. pending' = [pending EXCEPT ![c] = b] /\ up' = [up EXCEPT ![c] = y]
  BY <1>2, Zenon
<1> HIDE DEF x, y, b
<1>9. /\ Only(up', up, c) /\ Only(pending', pending, c) /\ up' \in StreamSet /\ pending' \in StreamSet
      /\ pending'[c] = b /\ up'[c] = y
  BY <1>1, <1>6, <1>7, <1>8, Zenon DEF Only, StreamSet
<1>10. Streams' = Streams
  <2>1. Streams' = StreamsOf(pending', up', rest, fd, at', shut)
    BY Zenon DEF Streams, server, client, ServerReceive
  <2>2. Kept(pending', up', pending, up, c)
    <3> DEFINE p == pending[c]
               u == up[c]
    <3>1. p \in Seq(Units) /\ u \in Seq(Units) /\ k \in 0 .. Len(u)
      BY <1>5, Zenon
    <3> HIDE DEF p, u
    <3>2. (p \o SubSeq(u, 1, k)) \o Rest(u, k) = p \o u
      BY <3>1, Moved, Zenon
    <3> QED BY <3>2, <1>9, Zenon DEF p, u, b, x, y, Kept
  <2>3. at[c] # "closed" /\ at'[c] # "closed" /\ Only(at', at, c) /\ Only(up', up, c) /\ Only(pending', pending, c)
    BY <1>3, <1>4, <1>9, Zenon
  <2>4. at' \in [Conns -> Labels] /\ pending' \in StreamSet /\ up' \in StreamSet
    BY <1>1, <1>3, <1>9, Zenon DEF Labels
  <2>5. StreamsOf(pending', up', rest, fd, at', shut) = StreamsOf(pending, up, rest, fd, at, shut)
    BY <2>2, <2>3, <2>4, <1>1, ReceivedStreams
  <2> QED BY <2>1, <2>5, Zenon DEF Streams
<1>11. UNCHANGED <<server, open, client, down, executed>>
  BY Zenon DEF ServerReceive
<1> QED BY <1>3, <1>9, <1>10, <1>11, RelabelStep, Zenon

\* The end of the loop over the lines: a line that is too long has not been answered.
LEMMA CheckStep ==
    ASSUME IInv, NEW c \in Conns, Check(c)
    PROVE  IInv'
<1>1. CASE Len(pending[c]) <= Cap /\ Goto(c, "recv") /\ UNCHANGED <<up, down, pending>>
  BY <1>1, LabelStep, Zenon DEF Check
<1>2. CASE Len(pending[c]) > Cap /\ Close(c)
  <2>1. pending[c] \in Seq(Units) /\ up[c] \in Seq(Units) /\ rest \in Seq(Units)
    BY Zenon DEF IInv, Typed
  <2>2. pending[c] # <<>>
    BY <1>2, BoundsAssumption
  <2>3. Streams[c] # <<>>
    <3> DEFINE b == pending[c]
               w == up[c]
               q == b \o w
    <3>1. q \in Seq(Units) /\ q # <<>>
      <4>1. b \in Seq(Units) /\ w \in Seq(Units) /\ b # <<>>
        BY <2>1, <2>2, ZenonT(40)
      <4> HIDE DEF b, w
      <4>2. b \o w \in Seq(Units)
        BY <4>1, SMTT(30)
      <4>3. b \o w # <<>>
        BY <4>1, EmptyJoin, ZenonT(40)
      <4> QED BY <4>2, <4>3, ZenonT(40)
    <3> HIDE DEF q
    <3>2. q \o rest # <<>>
      BY <2>1, <3>1, EmptyJoin, ZenonT(40)
    <3>3. Streams[c] = q \/ Streams[c] = q \o rest
      BY Zenon DEF Streams, StreamsOf, q
    <3> QED BY <3>1, <3>2, <3>3, Zenon
  <2>4. UNCHANGED <<server, open, client, executed>> /\ at[c] = "cut"
    BY Zenon DEF Check
  <2>5. down' = down \/ Say(c, FramedLines(Refusal))
    BY <1>2, ZenonT(40) DEF Check, Refusal
  <2> QED BY <1>2, <2>3, <2>4, <2>5, CloseStep, Zenon
<1> QED BY <1>1, <1>2, Zenon DEF Check

-----------------------------------------------------------------------------
(* Cutting out a command.                                                  *)

\* A command leaves its stream and counts as executed.
LEMMA CutOne ==
    ASSUME NEW S \in StreamSet, NEW cs \in Seq(Lines), NEW ex \in ExecutedSet,
           Orderly(S, cs, ex), NEW c \in Conns, NEW e \in 1 .. Len(S[c]),
           S[c][e].nl, \A j \in 1 .. e - 1 : ~S[c][j].nl,
           NEW T \in StreamSet, Only(T, S, c), T[c] = Rest(S[c], e)
    PROVE  Orderly(T, cs, Append(ex, <<c, SubSeq(S[c], 1, e - 1)>>))
<1> DEFINE y == [S EXCEPT ![c] = Rest(@, e)]
<1>1. Orderly(y, cs, Append(ex, <<c, SubSeq(S[c], 1, e - 1)>>))
  BY CutOrderly, Zenon
<1>2. y[c] = T[c] /\ \A d \in Conns : d # c => y[d] = T[d]
  BY Zenon DEF StreamSet, Only
<1>3. T = [d \in Conns |-> T[d]] /\ y = [d \in Conns |-> y[d]]
  BY Zenon DEF StreamSet
<1> HIDE DEF y
<1>4. y = T
  BY <1>2, <1>3, Zenon
<1> QED BY <1>1, <1>4, Zenon

\* Whatever the executor is given, what it answers is a reply.
LEMMA ExecuteReplies ==
    ASSUME NEW s \in Seq(Units), calls \in Seq(Lines), WellFramed(s, calls),
           NEW e \in 1 .. Len(s), NEW r \in Execute(SubSeq(s, 1, e - 1))
    PROVE  IsReply(r)
<1> DEFINE text == SubSeq(s, 1, e - 1)
           n == text[1].of
<1>1. CASE text = <<>>
  BY <1>1 DEF Execute, IsReply
<1>2. CASE text # <<>>
  <2>1. Len(s) \in Nat /\ e \in Nat /\ e - 1 >= 1
    BY <1>2
  <2>2. text[1] = s[1] /\ 1 \in 1 .. Len(s)
    BY <2>1
  <2>3. n \in 1 .. Len(calls)
    BY <2>2, Zenon DEF WellFramed, UnitOf
  <2> HIDE DEF n
  <2>6. n \in Nat /\ calls[n] \in Lines
    BY <2>3
  <2>7. \A x \in Lines : x.kind \in Kinds
    BY Zenon DEF Lines
  <2>4. n \in Nat /\ calls[n].kind \in Kinds /\ "Bad" \in Kinds
    BY <2>6, <2>7, Zenon DEF Kinds
  <2>5. r \in Replies(n, calls[n].kind) \/ r \in Replies(n, "Bad")
    BY <1>2, Zenon DEF Execute, n
  <2> QED BY <2>4, <2>5, RepliesShape, Zenon
<1> QED BY <1>1, <1>2, Zenon

\* What the handler says, or manages to say, in reply to r.
Said(r, d) ==
    \/ d = FramedLines(r)
    \/ \E k \in 0 .. Len(FramedLines(r)) - 1 : d = SubSeq(FramedLines(r), 1, k)

\* sendLine, as seen from the other end.
LEMMA SendLineSays ==
    ASSUME IInv, NEW c \in Conns, at[c] = "cut", NEW r, IsReply(r),
           (r = <<>> /\ UNCHANGED <<at, up, down>>) \/ (r # <<>> /\ SendLine(c, FramedLines(r)))
    PROVE  /\ up' = up /\ down' \in [Conns -> Seq(LineUnits)] /\ Only(down', down, c)
           /\ at' \in [Conns -> Labels] /\ Only(at', at, c) /\ at'[c] \in {"cut", "lost"}
           /\ open[c] => \E d \in Seq(LineUnits) :
                 /\ down'[c] = down[c] \o d /\ Said(r, d)
                 /\ at'[c] = "cut" => d = FramedLines(r)
<1> DEFINE F == FramedLines(r)
<1>1. /\ down \in [Conns -> Seq(LineUnits)] /\ open \in [Conns -> BOOLEAN] /\ at \in [Conns -> Labels]
      /\ down[c] \in Seq(LineUnits)
  BY Zenon DEF IInv, Typed
<1>2. F \in Seq(LineUnits) /\ Len(F) = 2 * Len(r)
  BY LinesShape, Zenon
<1>3. r = <<>> => F = <<>>
  BY <1>2
<1>4. \A k \in 0 .. Len(F) - 1 : SubSeq(F, 1, k) \in Seq(LineUnits)
  BY <1>2
<1> HIDE DEF F
<1>5. \A d \in Seq(LineUnits) : Say(c, d) =>
          /\ down' \in [Conns -> Seq(LineUnits)] /\ Only(down', down, c)
          /\ open[c] => down'[c] = down[c] \o d
  <2> TAKE d \in Seq(LineUnits)
  <2> HAVE Say(c, d)
  <2>1. down[c] \o d \in Seq(LineUnits)
    BY <1>1
  <2> QED BY <2>1, <1>1, Zenon DEF Say, Only
<1>6. Goto(c, "lost") => at' \in [Conns -> Labels] /\ Only(at', at, c) /\ at'[c] = "lost"
  BY <1>1, Zenon DEF Goto, Only, Labels
<1>7. at' = at => at' \in [Conns -> Labels] /\ Only(at', at, c) /\ at'[c] = "cut"
  BY <1>1, ZenonT(40) DEF Only
<1>8. CASE r = <<>> /\ UNCHANGED <<at, up, down>>
  <2>1. down'[c] = down[c] \o F /\ Only(down', down, c)
    BY <1>1, <1>3, <1>8, EmptyJoin, Zenon DEF Only
  <2>2. down' \in [Conns -> Seq(LineUnits)] /\ up' = up /\ at' = at
    BY <1>1, <1>8, Zenon
  <2> QED BY <2>1, <2>2, <1>2, <1>7, Zenon DEF Said, F
<1>9. CASE ~shut /\ Say(c, F) /\ UNCHANGED <<at, up>>
  BY <1>9, <1>2, <1>5, <1>7, Zenon DEF Said, F
<1>10. CASE ~open[c] /\ down' = down /\ Goto(c, "lost") /\ up' = up
  BY <1>10, <1>1, <1>6, Zenon DEF Only
<1>11. CASE (\E k \in 0 .. Len(F) - 1 : Say(c, SubSeq(F, 1, k))) /\ Goto(c, "lost") /\ up' = up
  <2>1. PICK k \in 0 .. Len(F) - 1 : Say(c, SubSeq(F, 1, k))
    BY <1>11, Zenon
  <2> DEFINE d == SubSeq(F, 1, k)
  <2>2. d \in Seq(LineUnits) /\ Say(c, d) /\ Said(r, d)
    BY <2>1, <1>4, Zenon DEF Said, F
  <2> HIDE DEF d
  <2>3. /\ down' \in [Conns -> Seq(LineUnits)] /\ Only(down', down, c)
        /\ open[c] => down'[c] = down[c] \o d
    BY <2>2, <1>5, Zenon
  <2> QED BY <2>2, <2>3, <1>6, <1>11, Zenon
<1> QED BY <1>8, <1>9, <1>10, <1>11, Zenon DEF SendLine, F

\* The client that waits for the reply sees it coming.
LEMMA CutTalk ==
    ASSUME calls \in Seq(Lines), Len(calls) > 0, NEW s \in Seq(Units), NEW sh,
           NEW b \in Seq(LineUnits), NEW w \in Seq(LineUnits), NEW d \in Seq(LineUnits), NEW l,
           Talking(s, "cut", sh, b \o w, calls, reply, want),
           NEW e \in 1 .. Len(s), s[e].nl, \A j \in 1 .. e - 1 : ~s[j].nl,
           NEW r \in Execute(SubSeq(s, 1, e - 1)), Said(r, d),
           l \in {"cut", "lost"}, l = "cut" => d = FramedLines(r)
    PROVE  Talking(Rest(s, e), l, sh, b \o (w \o d), calls, reply, want)
<1> DEFINE n == Len(calls)
           kind == calls[n].kind
<1>1. n \in Nat /\ kind \in Kinds
  <2>1. calls[n] \in Lines
    OBVIOUS
  <2> QED BY <2>1 DEF Lines
<1>2. /\ b \o w = <<>> /\ reply = <<>> /\ want = 0 /\ Rest(s, e) = <<>>
      /\ Execute(SubSeq(s, 1, e - 1)) = Replies(n, kind)
  <2> DEFINE x == b \o w
  <2>1. Talking(s, "cut", sh, x, calls, reply, want) /\ "cut" # "closed"
    BY Zenon
  <2> HIDE DEF x
  <2>2. /\ x = <<>> /\ reply = <<>> /\ want = 0 /\ Rest(s, e) = <<>>
        /\ Execute(SubSeq(s, 1, e - 1)) = Replies(n, kind)
    BY <2>1, CutIsTheCall, Zenon
  <2> QED BY <2>2, Zenon DEF x
<1> HIDE DEF n, kind
<1>3. b \o (w \o d) = d
  <2>1. b = <<>> /\ w = <<>>
    BY <1>2, EmptyJoin
  <2> QED BY <2>1, EmptyJoin, Zenon
<1>4. r \in Replies(n, kind) /\ IsReply(r)
  BY <1>1, <1>2, RepliesShape, Zenon
<1>5. Coming(r, <<>>, 0, d)
  BY <1>4, StartsComing, Zenon DEF Said
<1>6. l = "cut" => Len(d) = 2 * (Len(r) - Len(<<>>))
  <2>1. Len(FramedLines(r)) = 2 * Len(r) /\ Len(r) \in Nat
    BY <1>4, LinesShape DEF IsReply
  <2> QED BY <2>1, SMTT(30)
<1>7. Answered(<<>>, l, sh, d, calls, <<>>, 0)
  BY <1>4, <1>5, <1>6, Zenon DEF Answered, n, kind
<1> QED BY <1>2, <1>3, <1>7, ZenonT(40) DEF Talking

\* One turn of handleConnection's inner loop.
LEMMA CutStep ==
    ASSUME IInv, NEW c \in Conns, Cut(c)
    PROVE  IInv'
<1> DEFINE s == Streams[c]
           e == End(pending[c])
           text == Text(pending[c])
           x == Rest(s, e)
<1>1. /\ Streams \in StreamSet /\ pending \in StreamSet /\ up \in StreamSet /\ rest \in Seq(Units)
      /\ s \in Seq(Units) /\ pending[c] \in Seq(Units)
  BY StreamsTyped, Zenon DEF StreamSet, IInv, Typed
<1>2. /\ at[c] = "cut" /\ HasLine(pending[c]) /\ executed' = Append(executed, <<c, text>>)
      /\ pending' = [pending EXCEPT ![c] = After(@)] /\ UNCHANGED <<server, open, client>>
  BY Zenon DEF Cut
<1>3. e \in 1 .. Len(pending[c])
  BY <1>1, <1>2, FirstLine, Zenon
<1>4. After(pending[c]) \in Seq(Units)
  BY <1>1, <1>3 DEF After
<1>5. pending' \in StreamSet /\ pending'[c] = After(pending[c]) /\ Only(pending', pending, c)
  BY <1>1, <1>2, <1>4, Zenon DEF StreamSet, Only
<1>6. /\ StreamsOf(pending', up, rest, fd, at, shut)[c] = x
      /\ Only(StreamsOf(pending', up, rest, fd, at, shut), Streams, c)
      /\ e \in 1 .. Len(s) /\ s[e].nl /\ \A j \in 1 .. e - 1 : ~s[j].nl
      /\ SubSeq(s, 1, e - 1) = text
  <2>1. HasLine(pending[c])
    BY <1>2, Zenon
  <2>2. pending \in StreamSet /\ up \in StreamSet /\ rest \in Seq(Units)
    BY <1>1, Zenon
  <2> DEFINE S == StreamsOf(pending, up, rest, fd, at, shut)
             T == StreamsOf(pending', up, rest, fd, at, shut)
  <2>3. /\ T[c] = Rest(S[c], End(pending[c])) /\ Only(T, S, c)
        /\ End(pending[c]) \in 1 .. Len(S[c]) /\ S[c][End(pending[c])].nl
        /\ \A j \in 1 .. End(pending[c]) - 1 : ~S[c][j].nl
        /\ SubSeq(S[c], 1, End(pending[c]) - 1) = Text(pending[c])
    <3> HIDE DEF S, T, s, e, text, x
    <3>1. PICK q : q = pending'
      BY Zenon
    <3>2. Only(q, pending, c) /\ q[c] = After(pending[c])
      BY <1>5, <3>1, Zenon
    <3>3. CutOff(StreamsOf(pending, up, rest, fd, at, shut), StreamsOf(q, up, rest, fd, at, shut),
                 pending[c], c)
      BY <2>1, <2>2, <3>2, CutStreams, Zenon
    <3>4. CutOff(S, T, pending[c], c)
      BY <3>1, <3>3, Zenon DEF S, T
    <3> QED BY <3>4, Zenon DEF CutOff
  <2> QED BY <2>3, Zenon DEF Streams
<1>60. s # <<>> /\ Len(s) \in Nat /\ e \in Nat /\ e \in 0 .. Len(s)
  <2>1. s \in Seq(Units) /\ e \in 1 .. Len(s)
    BY <1>1, <1>6, ZenonT(40)
  <2> HIDE DEF s, e, x, text
  <2> QED BY <2>1, SMTT(30)
<1>7. calls \in Seq(Lines) /\ executed \in ExecutedSet /\ Orderly(Streams, calls, executed)
  BY Zenon DEF IInv, Typed, ExecutedSet
<1>8. PICK r \in Execute(text) :
          (r = <<>> /\ UNCHANGED <<at, up, down>>) \/ (r # <<>> /\ SendLine(c, FramedLines(r)))
  BY Zenon DEF Cut
<1>9. IsReply(r)
  <2>1. WellFramed(s, calls)
    BY <1>7, ZenonT(40) DEF Orderly
  <2> HIDE DEF s, e, text
  <2> QED BY <2>1, <1>1, <1>6, <1>7, <1>8, ExecuteReplies, Zenon
<1>10. /\ up' = up /\ down' \in [Conns -> Seq(LineUnits)] /\ Only(down', down, c)
       /\ at' \in [Conns -> Labels] /\ Only(at', at, c) /\ at'[c] \in {"cut", "lost"}
       /\ open[c] => \E d \in Seq(LineUnits) :
             /\ down'[c] = down[c] \o d /\ Said(r, d)
             /\ at'[c] = "cut" => d = FramedLines(r)
  BY <1>2, <1>8, <1>9, SendLineSays, ZenonT(40)
<1>11. Streams'[c] = x /\ Only(Streams', Streams, c)
  <2>1. Streams' = StreamsOf(pending', up, rest, fd, at', shut)
    BY <1>2, <1>10, Zenon DEF Streams, server, client
  <2>2. at \in [Conns -> Labels] /\ at[c] # "closed" /\ at'[c] # "closed" /\ Only(at', at, c)
    BY <1>2, <1>10, Zenon DEF IInv, Typed
  <2>3. StreamsOf(pending', up, rest, fd, at', shut) = StreamsOf(pending', up, rest, fd, at, shut)
    BY <2>2, RelabelledStreams
  <2> QED BY <2>1, <2>3, <1>6, ZenonT(40)
<1>12. Streams' \in StreamSet /\ x \in Seq(Units)
  <2>1. rest' \in Seq(Units) /\ up' \in StreamSet
    BY <1>1, <1>2, <1>10, Zenon DEF client
  <2>2. Streams' \in StreamSet
    BY <2>1, <1>5, StreamsType, Zenon DEF Streams
  <2> QED BY <2>2, <1>11, Zenon DEF StreamSet
<1>13. executed' \in ExecutedSet
  <2>1. text \in Seq(Units)
    BY <1>1, <1>3 DEF Text
  <2> QED BY <2>1, <1>2, <1>7 DEF ExecutedSet
<1>14. Orderly(Streams', calls, executed')
  <2>1. Orderly(Streams', calls, Append(executed, <<c, SubSeq(s, 1, e - 1)>>))
    BY <1>1, <1>6, <1>7, <1>11, <1>12, CutOne, Zenon
  <2> QED BY <2>1, <1>2, <1>6, ZenonT(40)
<1>15. pc = "raw" /\ c = 1 => x = <<>> \/ x[Len(x)].nl
  <2> SUFFICES ASSUME pc = "raw", c = 1, x # <<>> PROVE x[Len(x)].nl
    BY Zenon
  <2>1. s[Len(s)].nl
    BY <1>60, Zenon DEF IInv, Coupled
  <2>2. Len(x) = Len(s) - e /\ \A i \in 1 .. Len(s) - e : x[i] = s[e + i]
    <3> HIDE DEF s, e
    <3> QED BY <1>1, <1>60, Split, Zenon
  <2> HIDE DEF s, e, x
  <2>4. Len(x) \in 1 .. Len(s) - e /\ e + Len(x) = Len(s)
    BY <2>2, <1>12, <1>60
  <2> QED BY <2>1, <2>2, <2>4, Zenon
<1>16. pc = "idle" /\ c = fd => Rested(x, at'[c], buffer, down'[c], reply, want)
  <2> SUFFICES ASSUME pc = "idle", c = fd PROVE FALSE
    BY Zenon
  <2>1. fd # 0
    BY ConnsAssumption DEF Conns
  <2>2. s = <<>>
    BY <2>1, ZenonT(40) DEF IInv, InStep, Rested
  <2> QED BY <2>2, <1>60, Zenon
<1>17. pc \in {"send", "read"} /\ c = fd =>
          Talking(x, at'[c], shut, buffer \o down'[c], calls, reply, want)
  <2> SUFFICES ASSUME pc \in {"send", "read"}, c = fd
               PROVE  Talking(x, at'[c], shut, buffer \o down'[c], calls, reply, want)
    BY Zenon
  <2>1. open[c] /\ Len(calls) > 0
    BY Zenon DEF IInv, Coupled
  <2>2. PICK d \in Seq(LineUnits) :
             /\ down'[c] = down[c] \o d /\ Said(r, d)
             /\ at'[c] = "cut" => d = FramedLines(r)
    BY <2>1, <1>10, ZenonT(40)
  <2> DEFINE w == down[c]
             l == at'[c]
  <2>3. /\ buffer \in Seq(LineUnits) /\ w \in Seq(LineUnits)
        /\ Talking(s, "cut", shut, buffer \o w, calls, reply, want)
    BY <1>2, Zenon DEF IInv, Typed, InStep
  <2>4. l \in {"cut", "lost"} /\ (l = "cut" => d = FramedLines(r)) /\ r \in Execute(SubSeq(s, 1, e - 1))
    BY <2>2, <1>6, <1>8, <1>10, ZenonT(40)
  <2> HIDE DEF s, e, w, l
  <2>5. Talking(Rest(s, e), l, shut, buffer \o (w \o d), calls, reply, want)
    BY <2>1, <2>2, <2>3, <2>4, <1>1, <1>6, <1>7, CutTalk, ZenonT(40)
  <2> QED BY <2>2, <2>5, ZenonT(40) DEF w, l, s, e
<1>18. /\ up' \in StreamSet /\ Only(up', up, c) /\ at'[c] \in Labels \ {"none"} /\ at[c] # "none"
       /\ at'[c] \in {"backlog", "queued", "closed"} => pending'[c] = <<>>
       /\ at'[c] = "closed" => up'[c] = <<>>
       /\ at'[c] = "recv" => ~HasLine(pending'[c])
       /\ UNCHANGED <<server, open, client>>
  BY <1>1, <1>2, <1>10, ZenonT(40) DEF Only, Labels
<1> HIDE DEF x
<1> QED BY <1>5, <1>10, <1>11, <1>12, <1>13, <1>14, <1>15, <1>16, <1>17, <1>18, ServerStep, ZenonT(40)

-----------------------------------------------------------------------------
(* What is recorded of a command.                                          *)

\* command returns: the earlier outcomes stay as they are.
LEMMA NoteOutcome ==
    ASSUME Recorded, NEW o \in Outcomes, outcome' = Append(outcome, o),
           \A n \in 1 .. Len(outcome) : calls'[n] = calls[n],
           LET m == Len(outcome) + 1
           IN  /\ o.delivered => o.lines \in Replies(m, calls'[m].kind) \/ o.lines = <<Line(0, "-", 0)>>
               /\ ~o.delivered /\ o.why = "silent" => calls'[m].kind = "Empty"
    PROVE  /\ outcome' \in Seq(Outcomes) /\ Len(outcome') = Len(outcome) + 1
           /\ DeliveredAnswersTheCall' /\ OnlyBlankIsSilent'
<1> DEFINE m == Len(outcome) + 1
<1>1. outcome \in Seq(Outcomes) /\ Len(outcome) \in Nat
  BY LenNat, Zenon DEF Recorded
<1>2. /\ outcome' \in Seq(Outcomes) /\ Len(outcome') = m /\ outcome'[m] = o
      /\ \A n \in 1 .. Len(outcome) : outcome'[n] = outcome[n]
  BY <1>1
<1>3. /\ DOMAIN outcome = 1 .. Len(outcome) /\ DOMAIN outcome' = 1 .. m
      /\ \A n \in 1 .. m : n = m \/ n \in 1 .. Len(outcome)
  BY <1>1, <1>2
<1> DEFINE Answers(n, x, cs) ==
               x.delivered => x.lines \in Replies(n, cs[n].kind) \/ x.lines = <<Line(0, "-", 0)>>
           Silent(n, x, cs) == ~x.delivered /\ x.why = "silent" => cs[n].kind = "Empty"
<1>4. Answers(m, o, calls') /\ Silent(m, o, calls')
  BY Zenon
<1>5. \A n \in 1 .. Len(outcome) : Answers(n, outcome[n], calls) /\ Silent(n, outcome[n], calls)
  BY <1>3, Zenon DEF Recorded, DeliveredAnswersTheCall, OnlyBlankIsSilent
<1>6. \A n \in 1 .. Len(outcome) : Answers(n, outcome[n], calls') /\ Silent(n, outcome[n], calls')
  BY <1>5, Zenon
<1> HIDE DEF m
<1>7. \A n \in 1 .. m : Answers(n, outcome'[n], calls') /\ Silent(n, outcome'[n], calls')
  <2> HIDE DEF Answers, Silent
  <2> QED BY <1>2, <1>3, <1>4, <1>6, ZenonT(40)
<1>8. DeliveredAnswersTheCall' /\ OnlyBlankIsSilent'
  BY <1>3, <1>7, Zenon DEF DeliveredAnswersTheCall, OnlyBlankIsSilent
<1> QED BY <1>2, <1>8, Zenon DEF m

\* While command runs, its outcome is the next to come.
LEMMA OutcomeDue ==
    ASSUME IInv, pc \in {"send", "read"}
    PROVE  /\ calls \in Seq(Lines) /\ Len(calls) \in Nat /\ Len(calls) > 0 /\ calls[Len(calls)] \in Lines
           /\ Len(outcome) + 1 = Len(calls) /\ Recorded
           /\ fd \in Conns /\ fd # 0 /\ open[fd]
<1>1. calls \in Seq(Lines) /\ Len(calls) \in Nat /\ Len(calls) > 0 /\ fd # 0 /\ open[fd]
  BY DEF IInv, Typed, Coupled
<1>2. fd \in Conns
  BY <1>1 DEF IInv, Typed, Conns
<1>3. Len(outcome) = Len(calls) - 1 /\ Recorded
  BY Zenon DEF IInv, Recorded
<1> QED BY <1>1, <1>2, <1>3, SMTT(30)

\* An error is recorded.
LEMMA FailNoted ==
    ASSUME IInv, pc \in {"send", "read"}, NEW why \in Reasons, Fail(why),
           why = "silent" => calls[Len(calls)].kind = "Empty"
    PROVE  Recorded'
<1> DEFINE o == [delivered |-> FALSE, why |-> why]
<1>1. o \in Outcomes /\ ~o.delivered /\ o.why = why
  BY Zenon DEF Outcomes
<1>2. outcome' = Append(outcome, o) /\ calls' = calls /\ pc' = "idle"
  BY Zenon DEF Fail
<1> HIDE DEF o
<1>3. Len(outcome) + 1 = Len(calls) /\ Recorded
  BY OutcomeDue, Zenon
<1>4. /\ outcome' \in Seq(Outcomes) /\ Len(outcome') = Len(outcome) + 1
      /\ DeliveredAnswersTheCall' /\ OnlyBlankIsSilent'
  BY <1>1, <1>2, <1>3, NoteOutcome, Zenon
<1> QED BY <1>2, <1>3, <1>4, Zenon DEF Recorded

-----------------------------------------------------------------------------
(* Steps of the client.                                                    *)

\* disconnect, from wherever it is called: what sendAll had still to send is lost,
\* and so is what was under way to the client.
LEMMA HangUpStep ==
    ASSUME IInv, UNCHANGED <<server, at, up, pending, calls, executed>>, pc # "raw",
           HangUp, fd' = 0, buffer' = <<>>, rest' = <<>>, pc' \in {"idle", "killed"},
           reply' \in Seq(LineUnits), want' \in Nat, pc' = "idle" => reply' = <<>> /\ want' = 0,
           faults' \in 0 .. MaxFaults, Recorded'
    PROVE  IInv'
<1>1. Streams \in StreamSet /\ pending \in StreamSet /\ up \in StreamSet /\ rest \in Seq(Units)
  BY StreamsTyped, Zenon DEF IInv, Typed
<1>2. /\ down \in [Conns -> Seq(LineUnits)] /\ open \in [Conns -> BOOLEAN]
      /\ <<>> \in Seq(LineUnits) /\ <<>> \in Seq(Units)
  BY SMTT(30) DEF IInv, Typed
<1>3. down' \in [Conns -> Seq(LineUnits)] /\ open' \in [Conns -> BOOLEAN]
  BY <1>2, Zenon DEF HangUp
<1>4. Typed'
  BY <1>2, <1>3, ConnsAssumption DEF IInv, Typed, server
<1>5. Streams' = OnTheWay(pending, up)
  <2>1. Streams' = StreamsOf(pending, up, <<>>, fd', at, shut)
    BY Zenon DEF Streams, server
  <2> QED BY <2>1, <1>1, PlainStreams, Zenon
<1>6. Orderly(Streams, calls, executed)'
  <2>1. OnTheWay(pending, up) \in StreamSet /\ \A c \in Conns : Begins(OnTheWay(pending, up)[c], Streams[c])
    BY <1>1, DroppedStreams, Zenon DEF Streams
  <2>2. Orderly(Streams, calls, executed)
    BY Zenon DEF IInv
  <2>3. Orderly(OnTheWay(pending, up), calls, executed)
    BY <2>1, <2>2, <1>1, ShortenedOrderly, Zenon
  <2> QED BY <2>3, <1>5, Zenon
<1>7. Coupled'
  <2>1. \A c \in Conns :
            /\ at[c] = "none" => down[c] = <<>>
            /\ at[c] \in {"none", "backlog", "queued", "closed"} => pending[c] = <<>>
            /\ at[c] \in {"none", "closed"} => up[c] = <<>>
            /\ at[c] = "recv" => ~HasLine(pending[c])
    BY Zenon DEF IInv, Coupled
  <2>2. \A c \in Conns : down'[c] = <<>> \/ down'[c] = down[c]
    BY Zenon DEF HangUp
  <2> QED BY <2>1, <2>2, Zenon DEF Coupled
<1>8. InStep'
  BY Zenon DEF InStep
<1> QED BY <1>4, <1>6, <1>7, <1>8, Zenon DEF IInv

\* Every error path of command.
LEMMA FailStep ==
    ASSUME IInv, pc \in {"send", "read"}, NEW why \in Reasons, Fail(why), faults' \in 0 .. MaxFaults,
           why = "silent" => calls[Len(calls)].kind = "Empty"
    PROVE  IInv'
<1>1. Recorded'
  BY FailNoted, Zenon
<1>2. /\ UNCHANGED <<server, at, up, pending, calls, executed>> /\ HangUp /\ fd' = 0 /\ buffer' = <<>>
      /\ rest' = <<>> /\ pc' \in {"idle", "killed"} /\ reply' = <<>> /\ want' = 0 /\ pc # "raw"
  BY Zenon DEF Fail
<1>3. reply' \in Seq(LineUnits) /\ want' \in Nat
  BY <1>2
<1> QED BY <1>1, <1>2, <1>3, HangUpStep, Zenon

\* disconnect between commands.
LEMMA DisconnectStep ==
    ASSUME IInv, Disconnect
    PROVE  IInv'
<1>1. Recorded'
  BY ZenonT(40) DEF IInv, Recorded, Disconnect, DeliveredAnswersTheCall, OnlyBlankIsSilent
<1>2. /\ pc = "idle" /\ reply = <<>> /\ want = 0 /\ rest = <<>> /\ faults \in 0 .. MaxFaults
  BY Zenon DEF IInv, Coupled, Typed, Disconnect
<1>3. /\ UNCHANGED <<server, at, up, pending, calls, executed>> /\ HangUp /\ fd' = 0 /\ buffer' = <<>>
      /\ rest' = <<>> /\ pc' = "idle" /\ reply' = <<>> /\ want' = 0 /\ faults' = faults
  BY <1>2, Zenon DEF Disconnect
<1>4. reply' \in Seq(LineUnits) /\ want' \in Nat /\ pc # "raw" /\ pc' \in {"idle", "killed"}
  BY <1>2, <1>3
<1> QED BY <1>1, <1>2, <1>3, <1>4, HangUpStep, Zenon

\* SIGPIPE.
LEMMA SendKillsStep ==
    ASSUME IInv, SendKills
    PROVE  IInv'
<1>1. Recorded'
  BY ZenonT(40) DEF IInv, Recorded, SendKills, DeliveredAnswersTheCall, OnlyBlankIsSilent
<1>2. /\ UNCHANGED <<server, at, up, pending, calls, executed>> /\ HangUp /\ fd' = 0 /\ buffer' = <<>>
      /\ rest' = <<>> /\ pc' = "killed" /\ reply' = reply /\ want' = want /\ faults' = faults
      /\ pc = "send"
  BY Zenon DEF SendKills
<1>3. reply' \in Seq(LineUnits) /\ want' \in Nat /\ faults' \in 0 .. MaxFaults
  BY <1>2, Zenon DEF IInv, Typed
<1>4. pc # "raw" /\ pc' \in {"idle", "killed"} /\ (pc' = "idle" => reply' = <<>> /\ want' = 0)
  BY <1>2, ZenonT(40)
<1> QED BY <1>1, <1>2, <1>3, <1>4, HangUpStep, ZenonT(40)

\* Commands that have returned are not touched by a new one.
LEMMA OutcomesStand ==
    ASSUME Recorded, outcome' = outcome, \A n \in 1 .. Len(outcome) : calls'[n] = calls[n]
    PROVE  DeliveredAnswersTheCall' /\ OnlyBlankIsSilent'
<1>1. DOMAIN outcome = 1 .. Len(outcome)
  BY SMTT(30) DEF Recorded
<1> QED BY <1>1, Zenon DEF Recorded, DeliveredAnswersTheCall, OnlyBlankIsSilent

\* connect: a fresh connection, with nothing on it.
LEMMA ConnectStep ==
    ASSUME IInv, Connect
    PROVE  IInv'
<1>1. Streams \in StreamSet /\ pending \in StreamSet /\ up \in StreamSet
  BY StreamsTyped, Zenon
<1>2. /\ pc = "idle" /\ reply = <<>> /\ want = 0 /\ rest = <<>> /\ faults \in 0 .. MaxFaults
  BY Zenon DEF IInv, Coupled, Typed, Connect
<1>3. /\ UNCHANGED <<server, up, pending, pc, rest, reply, want, faults, calls, outcome, executed>>
      /\ buffer' = <<>>
  BY ZenonT(40) DEF Connect
<1>4. Recorded'
  BY <1>3, Zenon DEF IInv, Recorded, DeliveredAnswersTheCall, OnlyBlankIsSilent
<1>5. CASE HangUp /\ fd' = 0 /\ at' = at
  <2>1. reply' \in Seq(LineUnits) /\ want' \in Nat /\ pc # "raw" /\ pc' \in {"idle", "killed"}
    BY <1>2, <1>3
  <2>2. rest' = <<>> /\ reply' = <<>> /\ want' = 0 /\ faults' \in 0 .. MaxFaults
    BY <1>2, <1>3, Zenon
  <2> QED BY <1>3, <1>4, <1>5, <2>1, <2>2, HangUpStep, Zenon
<1>6. ASSUME NEW c \in Conns, at[c] = "none", at' = [at EXCEPT ![c] = "backlog"],
             open' = [b \in Conns |-> b = c \/ (open[b] /\ b # fd)],
             down' = [b \in Conns |-> IF b = fd THEN <<>> ELSE down[b]],
             fd' = c
      PROVE  IInv'
  <2>1. /\ at \in [Conns -> Labels] /\ down \in [Conns -> Seq(LineUnits)]
        /\ open \in [Conns -> BOOLEAN] /\ <<>> \in Seq(LineUnits)
    BY DEF IInv, Typed
  <2>2. /\ at' \in [Conns -> Labels] /\ at'[c] = "backlog"
        /\ \A d \in Conns : d # c => at'[d] = at[d]
    BY <1>6, <2>1, Zenon DEF Labels
  <2>3. down' \in [Conns -> Seq(LineUnits)] /\ open' \in [Conns -> BOOLEAN] /\ open'[c]
    BY <1>6, <2>1, ZenonT(40)
  <2>4. down[c] = <<>> /\ pending[c] = <<>> /\ up[c] = <<>>
    BY <1>6, Zenon DEF IInv, Coupled
  <2>5. down'[c] = <<>> /\ \A d \in Conns : down'[d] = <<>> \/ down'[d] = down[d]
    BY <1>6, <2>4, Zenon
  <2>6. fd' \in 0 .. MaxConns /\ fd' # 0
    BY <1>6, ConnsAssumption, SMTT(30) DEF Conns
  <2>7. Typed'
    BY <1>3, <2>2, <2>3, <2>6 DEF IInv, Typed, server
  <2>8. Streams' = Streams /\ Streams[c] = <<>>
    <3>1. Streams' = StreamsOf(pending, up, <<>>, fd', at', shut) /\ Streams = StreamsOf(pending, up, <<>>, fd, at, shut)
      BY <1>2, <1>3, Zenon DEF Streams, server
    <3>2. Streams' = OnTheWay(pending, up) /\ Streams = OnTheWay(pending, up)
      BY <3>1, <1>1, PlainStreams
    <3> QED BY <3>2, <2>4 DEF OnTheWay
  <2>9. Orderly(Streams, calls, executed)'
    BY <1>3, <2>8, Zenon DEF IInv
  <2>10. Coupled'
    <3>1. \A d \in Conns :
            /\ at[d] = "none" => down[d] = <<>>
            /\ at[d] \in {"none", "backlog", "queued", "closed"} => pending[d] = <<>>
            /\ at[d] \in {"none", "closed"} => up[d] = <<>>
            /\ at[d] = "recv" => ~HasLine(pending[d])
      BY Zenon DEF IInv, Coupled
    <3>2. \A d \in Conns :
            /\ at'[d] = "none" => down'[d] = <<>>
            /\ at'[d] \in {"none", "backlog", "queued", "closed"} => pending'[d] = <<>>
            /\ at'[d] \in {"none", "closed"} => up'[d] = <<>>
            /\ at'[d] = "recv" => ~HasLine(pending'[d])
      BY <3>1, <1>3, <2>2, <2>4, <2>5, Zenon
    <3> QED BY <3>2, <1>2, <1>3, <1>6, <2>2, <2>3, Zenon DEF Coupled
  <2>11. InStep'
    <3>1. Rested(Streams[c], at'[c], <<>>, <<>>, <<>>, 0)
      BY <2>8, Zenon DEF Rested
    <3> QED BY <3>1, <1>2, <1>3, <1>6, <2>5, <2>8, ZenonT(40) DEF InStep
  <2> QED BY <1>4, <2>7, <2>9, <2>10, <2>11, ZenonT(40) DEF IInv
<1> QED BY <1>5, <1>6, Zenon DEF Connect

\* send takes some of what is left.
LEMMA SendStep ==
    ASSUME IInv, Send
    PROVE  IInv'
<1>1. Streams \in StreamSet /\ pending \in StreamSet /\ up \in StreamSet /\ rest \in Seq(Units)
  BY StreamsTyped, Zenon DEF IInv, Typed
<1>2. PICK k \in 1 .. Len(rest) :
          /\ rest' = Rest(rest, k)
          /\ up' = IF Dead(fd) THEN up ELSE [up EXCEPT ![fd] = @ \o SubSeq(rest, 1, k)]
  BY Zenon DEF Send
<1>3. /\ pc = "send" /\ pc' = IF rest' = <<>> THEN "read" ELSE "send"
      /\ UNCHANGED <<server, at, down, pending, open, fd, buffer, reply, want, faults, calls, outcome, executed>>
  BY Zenon DEF Send
<1>4. fd \in Conns /\ fd # 0
  BY <1>3, OutcomeDue, Zenon
<1> DEFINE x == SubSeq(rest, 1, k)
           y == up[fd] \o x
<1>5. rest' \in Seq(Units) /\ x \in Seq(Units) /\ up[fd] \in Seq(Units)
  <2>1. k \in 0 .. Len(rest)
    OBVIOUS
  <2> QED BY <2>1, <1>1, <1>2, <1>4, Split, Zenon DEF StreamSet
<1>6. y \in Seq(Units)
  <2> HIDE DEF x
  <2> QED BY <1>5
<1>7. up' = IF Dead(fd) THEN up ELSE [up EXCEPT ![fd] = y]
  BY <1>2, Zenon
<1> HIDE DEF x, y
<1>8. /\ up' \in StreamSet /\ Only(up', up, fd)
      /\ up'[fd] = IF at[fd] = "closed" \/ shut THEN up[fd] ELSE y
  <2>1. CASE Dead(fd)
    BY <2>1, <1>1, <1>7, Zenon DEF Only, Dead
  <2>2. CASE ~Dead(fd)
    BY <2>2, <1>1, <1>4, <1>6, <1>7, Zenon DEF Only, Dead, StreamSet
  <2> QED BY <2>1, <2>2, Zenon
<1>9. Streams' = Streams
  <2>1. Streams' = StreamsOf(pending, up', Rest(rest, k), fd, at, shut)
    BY <1>2, <1>3, Zenon DEF Streams, server
  <2>2. Only(up', up, fd)
    BY <1>8, Zenon
  <2>3. up'[fd] = (IF at[fd] = "closed" \/ shut THEN up[fd] ELSE up[fd] \o SubSeq(rest, 1, k)) =>
            StreamsOf(pending, up', Rest(rest, k), fd, at, shut) = StreamsOf(pending, up, rest, fd, at, shut)
    BY <2>2, <1>1, <1>4, SentStreams
  <2> QED BY <2>1, <2>3, <1>8, Zenon DEF Streams, x, y
<1>10. Typed'
  BY <1>3, <1>5, <1>8, Zenon DEF IInv, Typed, server, StreamSet
<1>11. Coupled'
  <2>1. \A d \in Conns : at[d] \in {"none", "closed"} => up'[d] = <<>>
    <3> SUFFICES ASSUME NEW d \in Conns, at[d] \in {"none", "closed"} PROVE up'[d] = <<>>
      BY ZenonT(40)
    <3>1. up[d] = <<>> /\ at[fd] # "none"
      BY <1>4, Zenon DEF IInv, Coupled
    <3> QED BY <3>1, <1>8, Zenon DEF Only
  <2>2. /\ pc' \in {"send", "read"} /\ (pc' # "send" => rest' = <<>>)
    BY <1>3, Zenon
  <2>3. Len(calls) > 0 /\ open[fd] /\ at[fd] # "none"
    BY <1>3, <1>4, Zenon DEF IInv, Coupled
  <2>4. \A d \in Conns :
            /\ at[d] = "none" => down[d] = <<>>
            /\ at[d] \in {"none", "backlog", "queued", "closed"} => pending[d] = <<>>
            /\ at[d] = "recv" => ~HasLine(pending[d])
    BY Zenon DEF IInv, Coupled
  <2> QED BY <2>1, <2>2, <2>3, <2>4, <1>3, <1>4, ZenonT(40) DEF Coupled
<1>12. Recorded'
  BY <1>3, Zenon DEF IInv, Recorded, DeliveredAnswersTheCall, OnlyBlankIsSilent
<1>13. Orderly(Streams, calls, executed)' /\ InStep'
  BY <1>3, <1>9, Zenon DEF IInv, InStep, server
<1> QED BY <1>10, <1>11, <1>12, <1>13, ZenonT(40) DEF IInv

\* command goes on with the line readLine cuts out of b: with the last one it has a
\* reply to the call, or the refusal.
ReadsOn(s, l, sh, b, w, cs, got, wanted) ==
    LET left == IF got # <<>> THEN wanted - 1 ELSE Text(b)[1].count
    IN  /\ Text(b) # <<>> /\ got \o Text(b) \in Seq(LineUnits) /\ After(b) \in Seq(LineUnits)
        /\ left \in Nat /\ s = <<>>
        /\ left = 0 =>
              /\ got \o Text(b) \in Replies(Len(cs), cs[Len(cs)].kind) \/ got \o Text(b) = Refusal
              /\ After(b) = <<>> /\ w = <<>>
        /\ left > 0 => Talking(s, l, sh, After(b) \o w, cs, got \o Text(b), left)

\* readLine in the middle of a conversation: the line is the next one of the reply,
\* or the refusal.
LEMMA ReadTalk ==
    ASSUME NEW s, NEW l, NEW sh, NEW b \in Seq(LineUnits), NEW w \in Seq(LineUnits),
           NEW cs \in Seq(Lines), Len(cs) > 0, NEW got \in Seq(LineUnits), NEW wanted \in Nat,
           Talking(s, l, sh, b \o w, cs, got, wanted), HasLine(b)
    PROVE  ReadsOn(s, l, sh, b, w, cs, got, wanted)
<1> DEFINE left == IF got # <<>> THEN wanted - 1 ELSE Text(b)[1].count
           d == b \o w
           n == Len(cs)
           kind == cs[n].kind
           g == got \o Text(b)
           a == After(b) \o w
           Next1(r) == /\ Text(b) = <<r[Len(got) + 1]>> /\ Text(b) \in Seq(LineUnits)
                       /\ left \in Nat /\ After(b) \in Seq(LineUnits)
                       /\ left = 0 => g = r /\ After(b) = <<>> /\ w = <<>>
                       /\ left > 0 =>
                             /\ Coming(r, g, left, a)
                             /\ Len(a) = Len(d) - 2
                             /\ Len(g) = Len(got) + 1
<1>1. ASSUME NEW r, IsReply(r), Coming(r, got, wanted, d) PROVE Next1(r)
  <2>1. NextIs(r, got, wanted, b, w)
    BY <1>1, NextLine, ZenonT(40)
  <2> QED BY <2>1, Zenon DEF NextIs
<1>2. n \in Nat /\ kind \in Kinds
  <2>1. cs[n] \in Lines
    OBVIOUS
  <2> QED BY <2>1 DEF Lines
<1>3. d # <<>>
  <2>1. b # <<>>
    BY DEF HasLine
  <2> QED BY <2>1, EmptyJoin, ZenonT(40)
<1>4. ASSUME NEW r, Next1(r) PROVE Text(b) # <<>> /\ g \in Seq(LineUnits)
  <2>3. \A v : <<v>> # <<>>
    BY Zenon
  <2>1. Text(b) # <<>> /\ Text(b) \in Seq(LineUnits)
    BY <1>4, <2>3, Zenon
  <2> DEFINE t == Text(b)
  <2> HIDE DEF t
  <2>2. got \o t \in Seq(LineUnits)
    BY <2>1 DEF t
  <2> QED BY <2>1, <2>2, Zenon DEF t
<1> HIDE DEF left
<1>8. ASSUME NEW r, Next1(r), s = <<>>,
             left = 0 => r \in Replies(n, kind) \/ r = Refusal,
             left > 0 => Talking(s, l, sh, a, cs, g, left)
      PROVE  ReadsOn(s, l, sh, b, w, cs, got, wanted)
  <2>1. Text(b) # <<>> /\ g \in Seq(LineUnits)
    BY <1>4, <1>8, Zenon
  <2>2. left \in Nat /\ After(b) \in Seq(LineUnits) /\ (left = 0 => g = r /\ After(b) = <<>> /\ w = <<>>)
    BY <1>8, Zenon
  <2>3. left = 0 => g \in Replies(n, kind) \/ g = Refusal
    BY <1>8, <2>2, Zenon
  <2> QED BY <1>8, <2>1, <2>2, <2>3, Zenon DEF ReadsOn, left
<1>5. CASE Unanswered(s, l, sh, d, cs, got, wanted)
  BY <1>3, <1>5, Zenon DEF Unanswered
<1>6. CASE Answered(s, l, sh, d, cs, got, wanted)
  <2>1. PICK r \in Replies(n, kind) :
            /\ Coming(r, got, wanted, d)
            /\ ~sh /\ l \in {"recv", "cut"} => Len(d) = 2 * (Len(r) - Len(got))
    BY <1>6, Zenon DEF Answered
  <2>2. IsReply(r) /\ s = <<>> /\ l \in {"recv", "cut", "lost", "closed"}
    BY <1>2, <1>6, RepliesShape, Zenon DEF Answered
  <2>3. Next1(r)
    BY <2>1, <2>2, <1>1, Zenon
  <2>4. ASSUME left > 0 PROVE Talking(s, l, sh, a, cs, g, left)
    <3>1. Coming(r, g, left, a) /\ Len(a) = Len(d) - 2 /\ Len(g) = Len(got) + 1
      BY <2>3, <2>4, ZenonT(40)
    <3>2. Len(r) \in Nat /\ Len(got) \in Nat
      BY <2>2 DEF IsReply
    <3> HIDE DEF a, d, g
    <3>3. ~sh /\ l \in {"recv", "cut"} => Len(a) = 2 * (Len(r) - Len(g))
      BY <2>1, <3>1, <3>2
    <3>4. Answered(s, l, sh, a, cs, g, left)
      BY <2>1, <2>2, <3>1, <3>3, ZenonT(40) DEF Answered, n, kind
    <3> QED BY <3>4, Zenon DEF Talking
  <2> HIDE DEF Next1, a, g, d
  <2> QED BY <2>1, <2>2, <2>3, <2>4, <1>8, Zenon
<1>7. CASE TurnedAway(s, l, d, got, wanted)
  <2>1. IsReply(Refusal)
    BY SingleLine, Zenon DEF Refusal, Tags
  <2>2. d = FramedLines(Refusal) /\ got = <<>> /\ wanted = 0 /\ s = <<>>
    BY <1>7, Zenon DEF TurnedAway
  <2>3. Coming(Refusal, got, wanted, d)
    BY <2>1, <2>2, StartsComing, Zenon
  <2>4. Next1(Refusal)
    BY <2>1, <2>3, <1>1, Zenon
  <2>5. left = 0
    <3>1. Text(b) = <<Refusal[1]>>
      BY <2>2, <2>4
    <3>2. Refusal[1].count = 0
      BY Zenon DEF Refusal, Line
    <3>3. Text(b)[1] = Refusal[1]
      BY <3>1, SMTT(30)
    <3> QED BY <2>2, <3>2, <3>3, ZenonT(40) DEF left
  <2> HIDE DEF Next1, a, g, d
  <2> QED BY <2>2, <2>4, <2>5, <1>8
<1> QED BY <1>5, <1>6, <1>7, Zenon DEF Talking

\* What is coming when the server waits and nothing is under way: nothing, and so
\* the command was a blank line.
LEMMA SilentTalk ==
    ASSUME NEW s, ~HasLine(s), NEW b \in Seq(LineUnits), NEW cs \in Seq(Lines), Len(cs) > 0,
           NEW got \in Seq(LineUnits), NEW wanted,
           Talking(s, "recv", FALSE, b, cs, got, wanted), ~HasLine(b)
    PROVE  cs[Len(cs)].kind = "Empty"
<1> DEFINE n == Len(cs)
           kind == cs[n].kind
<1>1. n \in Nat /\ kind \in Kinds /\ cs[n].size \in Nat
  <2>1. cs[n] \in Lines
    OBVIOUS
  <2> QED BY <2>1 DEF Lines
<1>2. ~Unanswered(s, "recv", FALSE, b, cs, got, wanted)
  <2> DEFINE size == cs[n].size
             F == Framed(n, size)
  <2> HIDE DEF n, size
  <2>2. IsFrame(F, n, size) /\ size \in Nat
    BY <1>1, FrameShape, Zenon DEF size
  <2> HIDE DEF F
  <2>3. HasLine(F)
    <3>1. F \in Seq(Units) /\ Len(F) = size + 1 /\ size + 1 \in 1 .. size + 1 /\ F[size + 1].nl
      BY <2>2, SMTT(30) DEF IsFrame
    <3>2. \A j \in 1 .. (size + 1) - 1 : ~F[j].nl
      BY <2>2 DEF IsFrame
    <3>3. size + 1 \in DOMAIN F
      BY <3>1
    <3> QED BY <3>1, <3>2, <3>3, ZenonT(40) DEF HasLine, EndsAt
  <2>1. HasLine(Framed(Len(cs), cs[Len(cs)].size))
    BY <2>3, Zenon DEF F, size, n
  <2> QED BY <2>1, ZenonT(40) DEF Unanswered
<1>3. Answered(s, "recv", FALSE, b, cs, got, wanted)
  BY <1>2, ZenonT(40) DEF Talking, TurnedAway
<1>4. PICK r \in Replies(n, kind) : Coming(r, got, wanted, b) /\ Len(b) = 2 * (Len(r) - Len(got))
  BY <1>3, Zenon DEF Answered
<1>5. IsReply(r) /\ (r = <<>> <=> kind = "Empty")
  BY <1>1, RepliesShape, Zenon
<1>6. /\ FramedLines(r) \in Seq(LineUnits) /\ Len(FramedLines(r)) = 2 * Len(r)
      /\ \A j \in 1 .. Len(r) : FramedLines(r)[2 * j].nl
  BY <1>5, LinesShape, ZenonT(40)
<1> DEFINE m == Len(got)
           q == Len(r)
<1>7. q \in Nat /\ m \in Nat /\ r \in Seq(LineUnits) /\ (got = <<>> \/ m < q) /\ Len(b) = 2 * (q - m)
  BY <1>4, <1>5, SMTT(30) DEF IsReply, Coming
<1>8. \A j \in 1 .. Len(b) : b[j] = FramedLines(r)[2 * m + j]
  BY <1>4, Zenon DEF Coming
<1> HIDE DEF m, q
<1>9. q - m > 0 => FALSE
  <2> HAVE q - m > 0
  <2>1. 2 \in 1 .. Len(b) /\ m + 1 \in 1 .. q /\ 2 * (m + 1) = 2 * m + 2
    BY <1>7
  <2>2. b[2].nl
    BY <2>1, <1>6, <1>8, Zenon DEF q
  <2>3. 1 \in DOMAIN b /\ 2 \in DOMAIN b /\ (\A j \in 1 .. 1 - 1 : FALSE) /\ \A j \in 1 .. 2 - 1 : j = 1
    BY <2>1
  <2> QED BY <2>2, <2>3, Zenon DEF HasLine, EndsAt
<1>10. m = 0
  BY <1>7, <1>9 DEF m
<1>11. q = 0
  BY <1>7, <1>9, <1>10
<1> QED BY <1>5, <1>7, <1>11, SMTT(30) DEF q

\* recv in readLine moves units from the wire to the buffer.
LEMMA ReceiveStep ==
    ASSUME IInv, Receive
    PROVE  IInv'
<1>1. PICK k \in 1 .. Len(down[fd]) :
          /\ buffer' = buffer \o SubSeq(down[fd], 1, k)
          /\ down' = [down EXCEPT ![fd] = Rest(@, k)]
  BY Zenon DEF Receive
<1>2. /\ pc = "read"
      /\ UNCHANGED <<server, at, up, pending, open, fd, pc, rest, reply, want, faults, calls, outcome, executed>>
  BY Zenon DEF Receive
<1>3. fd \in Conns /\ fd # 0
  BY <1>2, OutcomeDue, Zenon
<1> DEFINE w == down[fd]
           x == SubSeq(w, 1, k)
           y == Rest(w, k)
<1>4. down \in [Conns -> Seq(LineUnits)] /\ w \in Seq(LineUnits) /\ buffer \in Seq(LineUnits) /\ k \in 0 .. Len(w)
  BY <1>3, SMTT(30) DEF IInv, Typed
<1>5. x \in Seq(LineUnits) /\ y \in Seq(LineUnits)
  <2> HIDE DEF w
  <2> QED BY <1>4, Split, Zenon
<1>6. buffer' = buffer \o x /\ down' = [down EXCEPT ![fd] = y]
  BY <1>1, Zenon
<1>7. (buffer \o x) \o y = buffer \o w
  <2> HIDE DEF w
  <2> QED BY <1>4, Moved, ZenonT(40)
<1> HIDE DEF x, y, w
<1>8. /\ buffer' \in Seq(LineUnits) /\ down' \in [Conns -> Seq(LineUnits)] /\ down'[fd] = y
      /\ \A d \in Conns : d # fd => down'[d] = down[d]
  BY <1>3, <1>4, <1>5, <1>6, SMTT(30)
<1>9. Typed'
  BY <1>2, <1>8, Zenon DEF IInv, Typed, server
<1>10. Streams' = Streams
  BY <1>2, Zenon DEF Streams, server
<1>11. Coupled'
  <2>1. at[fd] # "none"
    BY <1>3, Zenon DEF IInv, Coupled
  <2>2. \A d \in Conns : at[d] = "none" => down'[d] = <<>>
    BY <2>1, <1>8, ZenonT(40) DEF IInv, Coupled
  <2> QED BY <2>2, <1>2, <1>10, Zenon DEF IInv, Coupled
<1>12. Recorded'
  BY <1>2, ZenonT(40) DEF IInv, Recorded, DeliveredAnswersTheCall, OnlyBlankIsSilent
<1>13. buffer' \o down'[fd] = buffer \o down[fd]
  BY <1>6, <1>7, <1>8, Zenon DEF w
<1>14. Orderly(Streams, calls, executed)' /\ InStep'
  <2>1. Talking(Streams[fd], at[fd], shut, buffer \o down[fd], calls, reply, want)
    BY <1>2, Zenon DEF IInv, InStep
  <2>2. Talking(Streams[fd], at[fd], shut, buffer' \o down'[fd], calls, reply, want)
    BY <2>1, <1>13, Zenon
  <2>3. InStep'
    BY <2>2, <1>2, <1>10, Zenon DEF InStep, server
  <2> QED BY <2>3, <1>2, <1>10, Zenon DEF IInv
<1> QED BY <1>9, <1>11, <1>12, <1>14, Zenon DEF IInv

\* command goes on with a line.
LEMMA ReadStep ==
    ASSUME IInv, Read
    PROVE  IInv'
<1> DEFINE line == Text(buffer)
           lines == reply \o line
           left == IF reply # <<>> THEN want - 1 ELSE line[1].count
           n == Len(calls)
           s == Streams[fd]
           w == down[fd]
<1>1. pc = "read" /\ HasLine(buffer)
  BY Zenon DEF Read
<1>2. /\ calls \in Seq(Lines) /\ n \in Nat /\ n > 0 /\ Len(outcome) + 1 = n /\ Recorded
      /\ fd \in Conns /\ fd # 0
  BY <1>1, OutcomeDue, Zenon
<1>3. /\ buffer \in Seq(LineUnits) /\ w \in Seq(LineUnits) /\ reply \in Seq(LineUnits) /\ want \in Nat
  BY <1>2, Zenon DEF IInv, Typed
<1>4. Talking(s, at[fd], shut, buffer \o w, calls, reply, want)
  BY <1>1, Zenon DEF IInv, InStep
<1> HIDE DEF s, w
<1>5. /\ line # <<>> /\ lines \in Seq(LineUnits) /\ After(buffer) \in Seq(LineUnits)
      /\ left \in Nat /\ s = <<>>
      /\ left = 0 =>
            /\ lines \in Replies(n, calls[n].kind) \/ lines = Refusal
            /\ After(buffer) = <<>> /\ w = <<>>
      /\ left > 0 => Talking(s, at[fd], shut, After(buffer) \o w, calls, lines, left)
  <2>1. ReadsOn(s, at[fd], shut, buffer, w, calls, reply, want)
    BY <1>1, <1>2, <1>3, <1>4, ReadTalk, Zenon
  <2> QED BY <2>1, Zenon DEF ReadsOn
<1> HIDE DEF left, lines
<1>6. /\ buffer' = After(buffer) /\ UNCHANGED <<server, wire, fd, rest, faults, calls, executed>>
      /\ \/ left = 0 /\ Deliver(lines)
         \/ left > 0 /\ reply' = lines /\ want' = left /\ UNCHANGED <<pc, outcome>>
  BY <1>5, Zenon DEF Read, left, lines
<1>7. Streams' = Streams /\ at' = at /\ down' = down /\ shut' = shut
  BY <1>6, Zenon DEF Streams, server, wire
<1>8. Orderly(Streams, calls, executed)'
  BY <1>6, <1>7, Zenon DEF IInv
<1>9. rest = <<>> /\ open[fd] /\ at[fd] # "none" /\ \A c \in Conns :
          /\ at[c] = "none" => down[c] = <<>>
          /\ at[c] \in {"none", "backlog", "queued", "closed"} => pending[c] = <<>>
          /\ at[c] \in {"none", "closed"} => up[c] = <<>>
          /\ at[c] = "recv" => ~HasLine(pending[c])
  BY <1>1, <1>2, Zenon DEF IInv, Coupled
<1>10. CASE left = 0 /\ Deliver(lines)
  <2>1. /\ outcome' = Append(outcome, [delivered |-> TRUE, lines |-> lines])
        /\ pc' = "idle" /\ reply' = <<>> /\ want' = 0
    BY <1>10, Zenon DEF Deliver
  <2> DEFINE o == [delivered |-> TRUE, lines |-> lines]
  <2>2. o \in Outcomes /\ o.delivered /\ o.lines = lines
    BY <1>5, Zenon DEF Outcomes
  <2>3. outcome' = Append(outcome, o) /\ calls' = calls
    BY <2>1, <1>6, Zenon
  <2> HIDE DEF o
  <2>4. /\ outcome' \in Seq(Outcomes) /\ Len(outcome') = Len(outcome) + 1
        /\ DeliveredAnswersTheCall' /\ OnlyBlankIsSilent'
    BY <2>2, <2>3, <1>2, <1>5, <1>10, NoteOutcome, Zenon DEF Refusal
  <2>5. Recorded'
    BY <2>1, <2>3, <2>4, <1>2, Zenon DEF Recorded
  <2>6. Typed'
    BY <2>1, <1>5, <1>6, Zenon DEF IInv, Typed, server, wire
  <2>7. Coupled'
    BY <2>1, <1>6, <1>7, <1>9, Zenon DEF Coupled, server, wire
  <2>8. InStep'
    <3>1. Rested(s, at[fd], After(buffer), w, <<>>, 0)
      BY <1>5, <1>10, ZenonT(40) DEF Rested
    <3> QED BY <3>1, <2>1, <1>6, <1>7, Zenon DEF InStep, s, w
  <2> QED BY <2>5, <2>6, <2>7, <2>8, <1>8, Zenon DEF IInv
<1>11. CASE left > 0 /\ reply' = lines /\ want' = left /\ UNCHANGED <<pc, outcome>>
  <2>1. Recorded'
    BY <1>6, <1>11, Zenon DEF IInv, Recorded, DeliveredAnswersTheCall, OnlyBlankIsSilent
  <2>2. Typed'
    BY <1>5, <1>6, <1>11, Zenon DEF IInv, Typed, server, wire
  <2>3. Coupled'
    BY <1>1, <1>2, <1>6, <1>7, <1>9, <1>11, Zenon DEF Coupled, server, wire
  <2>4. InStep'
    <3>1. Talking(s, at[fd], shut, After(buffer) \o w, calls, lines, left)
      BY <1>5, <1>11, Zenon
    <3> QED BY <3>1, <1>1, <1>6, <1>7, <1>11, ZenonT(40) DEF InStep, s, w
  <2> QED BY <2>1, <2>2, <2>3, <2>4, <1>8, Zenon DEF IInv
<1> QED BY <1>6, <1>10, <1>11, ZenonT(40)

\* send or recv reports an error, or recv the end of the stream.
LEMMA SendFailsStep ==
    ASSUME IInv, SendFails
    PROVE  IInv'
<1>1. faults \in 0 .. MaxFaults /\ MaxFaults \in Nat
  BY BoundsAssumption, Zenon DEF IInv, Typed
<1>2. pc \in {"send", "read"} /\ Fail("send") /\ faults' \in 0 .. MaxFaults
  BY <1>1 DEF SendFails
<1>3. "send" \in Reasons /\ "send" # "silent"
  BY Zenon DEF Reasons
<1> QED BY <1>2, <1>3, FailStep, Zenon

\* The server has closed the connection.
LEMMA ClosedStep ==
    ASSUME IInv, Closed
    PROVE  IInv'
<1>1. pc \in {"send", "read"} /\ Fail("closed") /\ faults' \in 0 .. MaxFaults
  BY Zenon DEF IInv, Typed, Closed
<1>2. "closed" \in Reasons /\ "closed" # "silent"
  BY Zenon DEF Reasons
<1> QED BY <1>1, <1>2, FailStep, ZenonT(40)

\* SO_RCVTIMEO: when the server is quiet, the command was a blank line.
LEMMA TimeoutStep ==
    ASSUME IInv, Timeout
    PROVE  IInv'
<1>1. faults \in 0 .. MaxFaults /\ MaxFaults \in Nat /\ pc = "read" /\ ~HasLine(buffer)
  BY BoundsAssumption, Zenon DEF IInv, Typed, Timeout
<1>2. faults' \in 0 .. MaxFaults
  BY <1>1 DEF Timeout
<1>3. pc \in {"send", "read"} /\ "late" \in Reasons /\ "waiting" \in Reasons /\ "silent" \in Reasons
  BY <1>1, Zenon DEF Reasons
<1>4. CASE Fail("late")
  BY <1>2, <1>3, <1>4, FailStep, Zenon
<1>5. CASE Fail("waiting")
  BY <1>2, <1>3, <1>5, FailStep, Zenon
<1>6. CASE Quiet(fd) /\ Fail("silent")
  <2>1. fd \in Conns /\ fd # 0 /\ calls \in Seq(Lines) /\ Len(calls) > 0
    BY <1>3, OutcomeDue, Zenon
  <2>2. at[fd] = "recv" /\ shut = FALSE /\ up[fd] = <<>> /\ down[fd] = <<>> /\ rest = <<>>
    BY <1>1, <1>6, ZenonT(40) DEF Quiet, IInv, Typed, Coupled
  <2>3. pending[fd] \in Seq(Units) /\ buffer \in Seq(LineUnits) /\ reply \in Seq(LineUnits)
    BY <2>1, Zenon DEF IInv, Typed
  <2>4. Streams[fd] = pending[fd]
    <3>1. Streams[fd] = (pending[fd] \o up[fd]) \o rest \/ Streams[fd] = pending[fd] \o up[fd]
      BY <2>1, Zenon DEF Streams, StreamsOf
    <3>2. pending[fd] \o <<>> = pending[fd]
      BY <2>3, SMTT(30)
    <3> QED BY <3>1, <3>2, <2>2, Zenon
  <2>5. ~HasLine(Streams[fd])
    BY <2>1, <2>2, <2>4, Zenon DEF IInv, Coupled
  <2>6. buffer \o down[fd] = buffer
    BY <2>2, <2>3
  <2>7. Talking(Streams[fd], "recv", FALSE, buffer, calls, reply, want)
    BY <1>1, <2>2, <2>6, ZenonT(40) DEF IInv, InStep
  <2>8. calls[Len(calls)].kind = "Empty"
    BY <1>1, <2>1, <2>3, <2>5, <2>7, SilentTalk, Zenon
  <2> QED BY <1>2, <1>3, <1>6, <2>8, FailStep, Zenon
<1> QED BY <1>4, <1>5, <1>6, ZenonT(40) DEF Timeout

\* stop.
LEMMA StopStep ==
    ASSUME IInv, Stop
    PROVE  IInv'
<1>1. UNCHANGED <<shut, client, wire, executed>> /\ running' \in BOOLEAN
  BY ZenonT(40) DEF Stop
<1>2. Streams' = Streams
  BY <1>1, Zenon DEF Streams, client, wire
<1>3. Typed'
  BY <1>1, Zenon DEF IInv, Typed, client, wire
<1>4. Coupled'
  BY <1>1, <1>2, Zenon DEF IInv, Coupled, client, wire
<1>5. Recorded'
  BY <1>1, ZenonT(40) DEF IInv, Recorded, client, DeliveredAnswersTheCall, OnlyBlankIsSilent
<1>6. Orderly(Streams, calls, executed)' /\ InStep'
  BY <1>1, <1>2, Zenon DEF IInv, InStep, client, wire
<1> QED BY <1>3, <1>4, <1>5, <1>6, Zenon DEF IInv

\* shutdownActiveConnections: nothing more is read from any connection.
LEMMA ShutdownStep ==
    ASSUME IInv, ShutdownActive
    PROVE  IInv'
<1> DEFINE T == OnTheWay(pending, up)
<1>1. UNCHANGED <<running, client, wire, executed>> /\ shut' = TRUE
  BY Zenon DEF ShutdownActive
<1>2. Streams \in StreamSet /\ pending \in StreamSet /\ up \in StreamSet /\ rest \in Seq(Units)
  BY StreamsTyped, Zenon DEF IInv, Typed
<1>3. Streams' = T
  BY <1>1, Zenon DEF Streams, StreamsOf, OnTheWay, client, wire
<1>4. T \in StreamSet /\ \A c \in Conns : Begins(T[c], Streams[c])
  BY <1>2, DroppedStreams, Zenon DEF Streams
<1>5. rest = <<>> => Streams = T
  BY <1>2, PlainStreams DEF Streams
<1> HIDE DEF T
<1>6. Orderly(Streams, calls, executed)'
  <2>1. Orderly(Streams, calls, executed)
    BY Zenon DEF IInv
  <2>2. Orderly(T, calls, executed)
    BY <2>1, <1>2, <1>4, ShortenedOrderly, Zenon
  <2> QED BY <2>2, <1>1, <1>3, Zenon DEF client
<1>7. Typed'
  BY <1>1, Zenon DEF IInv, Typed, client, wire
<1>8. Coupled'
  <2>1. pc = "raw" => Streams' = Streams
    BY <1>3, <1>5, ZenonT(40) DEF IInv, Coupled
  <2> QED BY <2>1, <1>1, ZenonT(40) DEF IInv, Coupled, client, wire
<1>9. Recorded'
  BY <1>1, Zenon DEF IInv, Recorded, client, DeliveredAnswersTheCall, OnlyBlankIsSilent
<1>10. InStep'
  <2>1. UNCHANGED <<pc, fd, buffer, down, reply, want, at, calls>>
    BY <1>1, Zenon DEF client, wire
  <2>2. pc = "idle" => Streams' = Streams
    BY <1>3, <1>5, Zenon DEF IInv, Coupled
  <2>3. ASSUME pc \in {"send", "read"}
        PROVE  Talking(T[fd], at[fd], TRUE, buffer \o down[fd], calls, reply, want)
    <3> DEFINE d == buffer \o down[fd]
               s == Streams[fd]
               t == T[fd]
               l == at[fd]
    <3>1. fd \in Conns /\ calls \in Seq(Lines) /\ Len(calls) > 0
      BY <2>3, OutcomeDue, Zenon
    <3>2. s \in Seq(Units) /\ t \in Seq(Units) /\ Begins(t, s)
      BY <3>1, <1>2, <1>4, Zenon DEF StreamSet
    <3>3. Talking(s, l, shut, d, calls, reply, want)
      BY <2>3, Zenon DEF IInv, InStep
    <3> HIDE DEF d, s, t, l
    <3>4. Talking(t, l, TRUE, d, calls, reply, want)
      BY <3>1, <3>2, <3>3, TalkCutOff, ZenonT(40)
    <3> QED BY <3>4, Zenon DEF d, t, l
  <2> QED BY <2>1, <2>2, <2>3, <1>1, <1>3, ZenonT(40) DEF IInv, InStep
<1> QED BY <1>6, <1>7, <1>8, <1>9, <1>10, Zenon DEF IInv

\* A new command at the end of its stream.
LEMMA ExtendOne ==
    ASSUME NEW S \in StreamSet, NEW cs \in Seq(Lines), NEW x \in Lines, NEW ex \in ExecutedSet,
           Orderly(S, cs, ex), NEW c \in Conns, S[c] = <<>> \/ S[c][Len(S[c])].nl,
           NEW T \in StreamSet, Only(T, S, c), T[c] = S[c] \o Framed(Len(cs) + 1, x.size)
    PROVE  Orderly(T, Append(cs, x), ex)
<1> DEFINE y == [S EXCEPT ![c] = @ \o Framed(Len(cs) + 1, x.size)]
<1>1. Orderly(y, Append(cs, x), ex)
  BY ExtendedOrderly, Zenon
<1>2. y[c] = T[c] /\ \A d \in Conns : d # c => y[d] = T[d]
  BY Zenon DEF StreamSet, Only
<1>3. T = [d \in Conns |-> T[d]] /\ y = [d \in Conns |-> y[d]]
  BY Zenon DEF StreamSet
<1> HIDE DEF y
<1>4. y = T
  BY <1>2, <1>3, Zenon
<1> QED BY <1>1, <1>4, Zenon

\* The new command of a connected client.
LEMMA AskTalk ==
    ASSUME NEW cs \in Seq(Lines), NEW x \in Lines, NEW l, NEW sh, NEW d, NEW s, NEW t,
           Rested(s, l, <<>>, d, <<>>, 0),
           t = IF l = "closed" \/ sh THEN s ELSE Framed(Len(cs) + 1, x.size)
    PROVE  Talking(t, l, sh, d, Append(cs, x), <<>>, 0)
<1> DEFINE as == Append(cs, x)
           F == Framed(Len(cs) + 1, x.size)
<1>1. Len(as) = Len(cs) + 1 /\ as[Len(as)] = x
  OBVIOUS
<1> HIDE DEF as
<1>2. Framed(Len(as), as[Len(as)].size) = F
  BY <1>1, Zenon
<1>3. F \in Seq(Units)
  <2>1. Len(cs) + 1 \in Nat /\ x.size \in Nat
    BY DEF Lines
  <2> QED BY <2>1, FrameShape, ZenonT(40) DEF IsFrame
<1> HIDE DEF F
<1>4. s = <<>> /\ (d = <<>> \/ TurnedAway(s, l, d, <<>>, 0))
  BY Zenon DEF Rested
<1>5. CASE TurnedAway(s, l, d, <<>>, 0)
  <2>1. t = s
    BY <1>5, Zenon DEF TurnedAway
  <2> QED BY <1>5, <2>1, Zenon DEF Talking
<1>6. CASE d = <<>>
  <2>1. IF l = "closed" \/ sh THEN Begins(t, F) ELSE t = F
    <3>1. Begins(<<>>, F)
      BY <1>3, SMTT(30) DEF Begins
    <3> QED BY <3>1, <1>4, Zenon DEF F
  <2>2. Unanswered(t, l, sh, d, as, <<>>, 0)
    BY <1>2, <1>6, <2>1, Zenon DEF Unanswered
  <2> QED BY <2>2, Zenon DEF Talking, as
<1> QED BY <1>4, <1>5, <1>6, Zenon

\* command begins.
LEMMA CallStep ==
    ASSUME IInv, Call
    PROVE  IInv'
<1>1. PICK x \in Calls :
          /\ calls' = Append(calls, x)
          /\ \/ /\ fd = 0
                /\ outcome' = Append(outcome, [delivered |-> FALSE, why |-> "not connected"])
                /\ UNCHANGED <<pc, rest>>
             \/ /\ fd # 0
                /\ pc' = "send" /\ rest' = Framed(Len(calls) + 1, x.size)
                /\ outcome' = outcome
  BY Zenon DEF Call
<1>2. pc = "idle" /\ UNCHANGED <<server, wire, fd, buffer, reply, want, faults, executed>>
  BY Zenon DEF Call
<1>3. x \in Lines /\ calls \in Seq(Lines) /\ Len(calls) \in Nat
  BY CallsAssumption DEF IInv, Typed
<1>4. rest = <<>> /\ reply = <<>> /\ want = 0 /\ Len(outcome) = Len(calls) /\ Recorded
  BY <1>2, Zenon DEF IInv, Coupled, Recorded
<1>5. /\ calls' \in Seq(Lines) /\ Len(calls') = Len(calls) + 1 /\ calls'[Len(calls) + 1] = x
      /\ \A n \in 1 .. Len(outcome) : calls'[n] = calls[n]
  <2> DEFINE q == Append(calls, x)
  <2>1. /\ q \in Seq(Lines) /\ Len(q) = Len(calls) + 1 /\ q[Len(calls) + 1] = x
        /\ \A n \in 1 .. Len(calls) : q[n] = calls[n]
    BY <1>3
  <2>2. calls' = q
    BY <1>1, Zenon
  <2> HIDE DEF q
  <2> QED BY <2>1, <2>2, <1>4, Zenon
<1>6. /\ Streams \in StreamSet /\ pending \in StreamSet /\ up \in StreamSet
      /\ executed \in ExecutedSet /\ Orderly(Streams, calls, executed)
  BY StreamsTyped, Zenon DEF IInv, Typed, ExecutedSet
<1>7. Orderly(Streams, calls', executed)
  <2>1. Orderly(Streams, Append(calls, x), executed)
    BY <1>3, <1>6, GrownOrderly, ZenonT(40)
  <2> QED BY <2>1, <1>1, Zenon
<1>8. \A c \in Conns :
          /\ at[c] = "none" => down[c] = <<>>
          /\ at[c] \in {"none", "backlog", "queued", "closed"} => pending[c] = <<>>
          /\ at[c] \in {"none", "closed"} => up[c] = <<>>
          /\ at[c] = "recv" => ~HasLine(pending[c])
  BY Zenon DEF IInv, Coupled
<1>9. CASE fd = 0
  <2> DEFINE o == [delivered |-> FALSE, why |-> "not connected"]
  <2>1. o \in Outcomes /\ ~o.delivered /\ o.why # "silent"
    BY Zenon DEF Outcomes, Reasons
  <2>2. outcome' = Append(outcome, o) /\ UNCHANGED <<pc, rest>>
    BY <1>1, <1>9, Zenon
  <2> HIDE DEF o
  <2>3. /\ outcome' \in Seq(Outcomes) /\ Len(outcome') = Len(outcome) + 1
        /\ DeliveredAnswersTheCall' /\ OnlyBlankIsSilent'
    BY <2>1, <2>2, <1>4, <1>5, NoteOutcome, Zenon
  <2>4. Recorded'
    BY <2>2, <2>3, <1>2, <1>4, <1>5, Zenon DEF Recorded
  <2>5. Typed'
    BY <2>2, <1>2, <1>5, Zenon DEF IInv, Typed, server, wire
  <2>6. Streams' = Streams
    BY <2>2, <1>2, Zenon DEF Streams, server, wire
  <2>7. Coupled' /\ InStep' /\ Orderly(Streams, calls, executed)'
    BY <2>2, <2>6, <1>2, <1>4, <1>7, <1>8, <1>9, Zenon DEF Coupled, InStep, server, wire
  <2> QED BY <2>4, <2>5, <2>7, ZenonT(40) DEF IInv
<1>10. CASE fd # 0
  <2> DEFINE n == Len(calls) + 1
             F == Framed(n, x.size)
             s == Streams[fd]
             l == at[fd]
             d == down[fd]
             dead == l = "closed" \/ shut
  <2>1. pc' = "send" /\ rest' = F /\ outcome' = outcome
    BY <1>1, <1>10, ZenonT(40)
  <2>2. fd \in Conns /\ open[fd] /\ at[fd] # "none" /\ d \in Seq(LineUnits)
    <3>1. fd \in Conns
      BY <1>10 DEF IInv, Typed, Conns
    <3> QED BY <3>1, <1>10, ZenonT(40) DEF IInv, Typed, Coupled
  <2>3. F \in Seq(Units)
    <3>1. n \in Nat /\ x.size \in Nat
      BY <1>3 DEF Lines
    <3> QED BY <3>1, FrameShape, Zenon DEF IsFrame
  <2> HIDE DEF F
  <2>4. /\ dead => Streams' = Streams
        /\ ~dead => Streams'[fd] = s \o F /\ Only(Streams', Streams, fd)
    <3>1. Streams' = StreamsOf(pending, up, F, fd, at, shut) /\ Streams = StreamsOf(pending, up, <<>>, fd, at, shut)
      BY <2>1, <1>2, <1>4, Zenon DEF Streams, server, wire
    <3>2. pending \in StreamSet /\ up \in StreamSet /\ fd \in Conns /\ at \in [Conns -> Labels]
      BY <2>2, <1>6, Zenon DEF IInv, Typed
    <3>3. /\ at[fd] = "closed" \/ shut =>
                StreamsOf(pending, up, F, fd, at, shut) = StreamsOf(pending, up, <<>>, fd, at, shut)
          /\ ~(at[fd] = "closed" \/ shut) =>
                /\ StreamsOf(pending, up, F, fd, at, shut)[fd] = StreamsOf(pending, up, <<>>, fd, at, shut)[fd] \o F
                /\ Only(StreamsOf(pending, up, F, fd, at, shut), StreamsOf(pending, up, <<>>, fd, at, shut), fd)
      BY <2>3, <3>2, AskedStreams, Zenon
    <3> QED BY <3>1, <3>3, Zenon
  <2>5. Rested(s, l, <<>>, d, <<>>, 0) /\ buffer = <<>> /\ s = <<>>
    BY <1>2, <1>4, <1>10, Zenon DEF IInv, InStep, Rested
  <2>6. Streams' \in StreamSet
    <3>1. up' \in StreamSet /\ pending' \in StreamSet /\ rest' \in Seq(Units)
      BY <2>1, <2>3, <1>2, <1>6, ZenonT(40) DEF wire
    <3> QED BY <3>1, StreamsType, Zenon DEF Streams
  <2>8. Streams'[fd] = IF dead THEN s ELSE F
    <3>1. <<>> \o F = F
      BY <2>3
    <3> QED BY <3>1, <2>4, <2>5, Zenon
  <2>9. Orderly(Streams, calls, executed)'
    <3>1. CASE dead
      BY <3>1, <2>4, <1>2, <1>7, Zenon
    <3>2. CASE ~dead
      <4>1. Streams'[fd] = Streams[fd] \o Framed(Len(calls) + 1, x.size) /\ Only(Streams', Streams, fd) /\ Streams[fd] = <<>>
        BY <3>2, <2>4, <2>5, Zenon DEF F
      <4>2. Orderly(Streams', Append(calls, x), executed)
        BY <4>1, <2>2, <2>6, <1>3, <1>6, ExtendOne, ZenonT(40)
      <4> QED BY <4>2, <1>1, <1>2, Zenon
    <3> QED BY <3>1, <3>2, Zenon
  <2>10. Talking(Streams'[fd], l, shut, d, Append(calls, x), <<>>, 0)
    BY <2>5, <2>8, <1>3, AskTalk, Zenon DEF F
  <2>11. InStep'
    <3>1. buffer' \o down'[fd'] = d
      BY <2>2, <2>5, <1>2 DEF wire
    <3> QED BY <3>1, <2>1, <2>10, <1>1, <1>2, <1>4, ZenonT(40) DEF InStep, server, wire
  <2>12. Typed'
    BY <2>1, <2>3, <1>2, <1>5, ZenonT(40) DEF IInv, Typed, server, wire
  <2>13. Coupled'
    BY <2>1, <2>2, <1>2, <1>3, <1>5, <1>8, <1>10 DEF Coupled, server, wire
  <2>14. Recorded'
    <3>1. DeliveredAnswersTheCall' /\ OnlyBlankIsSilent'
      BY <2>1, <1>4, <1>5, OutcomesStand, Zenon
    <3>2. outcome' \in Seq(Outcomes) /\ Len(outcome') = Len(calls') - 1
      <4>1. outcome \in Seq(Outcomes) /\ Len(outcome) = Len(calls)
        BY <1>4, Zenon DEF Recorded
      <4>2. Len(calls') = Len(calls) + 1 /\ Len(calls) \in Nat
        BY <1>3, <1>5, Zenon
      <4> QED BY <4>1, <4>2, <2>1
    <3> QED BY <3>1, <3>2, <2>1, Zenon DEF Recorded
  <2> QED BY <2>9, <2>11, <2>12, <2>13, <2>14, Zenon DEF IInv
<1> QED BY <1>9, <1>10, Zenon

\* The pipelining peer sends a line.
LEMMA RawSendStep ==
    ASSUME IInv, RawSend
    PROVE  IInv'
<1> DEFINE n == Len(calls) + 1
           x == Pipeline[n]
           F == Framed(n, x.size)
           s == Streams[1]
<1>1. /\ pc = "raw" /\ calls' = Append(calls, x) /\ Len(calls) < Len(Pipeline)
      /\ up' = IF Dead(1) THEN up ELSE [up EXCEPT ![1] = @ \o F]
      /\ UNCHANGED <<server, at, down, pending, open, fd, buffer, pc, rest, reply, want, faults, outcome, executed>>
  BY Zenon DEF RawSend
<1>2. calls \in Seq(Lines) /\ Len(calls) \in Nat /\ n \in Nat
  BY DEF IInv, Typed
<1>3. x \in Lines
  <2>1. n \in 1 .. Len(Pipeline)
    BY <1>1, <1>2, CallsAssumption, SMTT(30)
  <2> QED BY <2>1, CallsAssumption
<1>4. fd = 0 /\ rest = <<>> /\ Recorded /\ Len(outcome) = 0 /\ at[1] # "none" /\ 1 \in Conns
  BY <1>1, ConnsAssumption DEF IInv, Coupled, Recorded, Conns
<1>5. /\ Streams \in StreamSet /\ pending \in StreamSet /\ up \in StreamSet
      /\ executed \in ExecutedSet /\ Orderly(Streams, calls, executed)
  BY StreamsTyped, Zenon DEF IInv, Typed, ExecutedSet
<1>6. IsFrame(F, n, x.size) /\ F \in Seq(Units) /\ x.size \in Nat
  <2>1. x.size \in Nat
    BY <1>3, Zenon DEF Lines
  <2> HIDE DEF x
  <2>2. IsFrame(F, n, x.size)
    BY <2>1, <1>2, FrameShape, Zenon
  <2> QED BY <2>1, <2>2, Zenon DEF IsFrame
<1> HIDE DEF F, x
<1>7. calls' \in Seq(Lines)
  BY <1>1, <1>2, <1>3
<1>8. up[1] \in Seq(Units) /\ pending[1] \in Seq(Units)
  BY <1>4, <1>5, Zenon DEF StreamSet
<1>9. up[1] \o F \in Seq(Units)
  BY <1>6, <1>8
<1>10. /\ up' \in StreamSet /\ Only(up', up, 1)
       /\ Dead(1) => up' = up
       /\ ~Dead(1) => up'[1] = up[1] \o F
  <2>1. CASE Dead(1)
    BY <2>1, <1>1, <1>5, Zenon DEF Only
  <2>2. CASE ~Dead(1)
    <3> DEFINE y == up[1] \o F
    <3>1. y \in Seq(Units) /\ up' = [up EXCEPT ![1] = y]
      BY <2>2, <1>1, <1>9, Zenon
    <3> HIDE DEF y
    <3>2. up' \in StreamSet /\ Only(up', up, 1) /\ up'[1] = y
      BY <3>1, <1>4, <1>5, ZenonT(40) DEF StreamSet, Only
    <3> QED BY <2>2, <3>2, Zenon DEF y
  <2> QED BY <2>1, <2>2, ZenonT(40)
<1>11. Streams' = OnTheWay(pending, up') /\ Streams = OnTheWay(pending, up)
  <2>1. Streams' = StreamsOf(pending, up', <<>>, fd, at, shut) /\ Streams = StreamsOf(pending, up, <<>>, fd, at, shut)
    BY <1>1, <1>4, Zenon DEF Streams, server
  <2> QED BY <2>1, <1>5, <1>10, PlainStreams, SMTT(30)
<1>12. /\ Streams' \in StreamSet /\ Only(Streams', Streams, 1)
       /\ Dead(1) => Streams' = Streams
       /\ ~Dead(1) => Streams'[1] = s \o F
  <2>1. Streams' \in StreamSet
    <3>1. pending' \in StreamSet /\ rest' \in Seq(Units)
      BY <1>1, <1>4, <1>5
    <3> QED BY <3>1, <1>10, StreamsType, ZenonT(40) DEF Streams
  <2>2. Only(Streams', Streams, 1) /\ (Dead(1) => Streams' = Streams)
    BY <1>10, <1>11, Zenon DEF Only, OnTheWay
  <2>3. ASSUME ~Dead(1) PROVE Streams'[1] = s \o F
    <3> DEFINE p == pending[1]
               u == up[1]
    <3>1. Streams'[1] = p \o (u \o F) /\ s = p \o u
      BY <2>3, <1>4, <1>10, <1>11, Zenon DEF OnTheWay
    <3>2. p \in Seq(Units) /\ u \in Seq(Units) /\ F \in Seq(Units)
      BY <1>6, <1>8, Zenon
    <3> HIDE DEF p, u
    <3>3. (p \o u) \o F = p \o (u \o F)
      BY <3>2, AssociativeUnits, Zenon
    <3> QED BY <3>1, <3>3, Zenon
  <2> QED BY <2>1, <2>2, <2>3, Zenon
<1>13. s \in Seq(Units) /\ (s = <<>> \/ s[Len(s)].nl)
  BY <1>1, <1>4, <1>5, Zenon DEF StreamSet, IInv, Coupled
<1>14. Orderly(Streams, calls, executed)'
  <2>1. CASE Dead(1)
    <3>1. Orderly(Streams, Append(calls, x), executed)
      BY <1>2, <1>3, <1>5, GrownOrderly, Zenon
    <3> QED BY <2>1, <3>1, <1>1, <1>12, Zenon
  <2>2. CASE ~Dead(1)
    <3>1. Streams'[1] = Streams[1] \o Framed(Len(calls) + 1, x.size) /\ (Streams[1] = <<>> \/ Streams[1][Len(Streams[1])].nl)
      BY <2>2, <1>12, <1>13, Zenon DEF F
    <3>2. Orderly(Streams', Append(calls, x), executed)
      BY <3>1, <1>2, <1>3, <1>4, <1>5, <1>12, ExtendOne, ZenonT(40)
    <3> QED BY <3>2, <1>1, Zenon
  <2> QED BY <2>1, <2>2, Zenon
<1>15. Streams'[1] = <<>> \/ Streams'[1][Len(Streams'[1])].nl
  <2>1. CASE Dead(1)
    BY <2>1, <1>12, <1>13, Zenon
  <2>2. CASE ~Dead(1)
    <3> DEFINE t == s \o F
    <3>1. Len(F) \in Nat /\ Len(F) > 0 /\ F[Len(F)].nl
      BY <1>6, SMTT(30) DEF IsFrame
    <3> HIDE DEF s
    <3>2. Len(t) = Len(s) + Len(F) /\ \A i \in 1 .. Len(F) : t[Len(s) + i] = F[i]
      BY <1>6, <1>13, Joined
    <3> HIDE DEF t
    <3>3. t[Len(t)] = F[Len(F)]
      BY <3>1, <3>2
    <3> QED BY <2>2, <3>1, <3>3, <1>12, ZenonT(40) DEF t
  <2> QED BY <2>1, <2>2, Zenon
<1>16. Typed'
  BY <1>1, <1>7, <1>10, Zenon DEF IInv, Typed, server, StreamSet
<1>17. Coupled'
  <2>1. \A c \in Conns : at[c] \in {"none", "closed"} => up'[c] = <<>>
    <3> SUFFICES ASSUME NEW c \in Conns, at[c] \in {"none", "closed"} PROVE up'[c] = <<>>
      BY ZenonT(40)
    <3>1. up[c] = <<>>
      BY Zenon DEF IInv, Coupled
    <3>2. c = 1 => Dead(1)
      BY <1>4, Zenon DEF Dead
    <3> QED BY <3>1, <3>2, <1>10, Zenon DEF Only
  <2>2. \A c \in Conns :
            /\ at[c] = "none" => down[c] = <<>>
            /\ at[c] \in {"none", "backlog", "queued", "closed"} => pending[c] = <<>>
            /\ at[c] = "recv" => ~HasLine(pending[c])
    BY Zenon DEF IInv, Coupled
  <2> QED BY <2>1, <2>2, <1>1, <1>4, <1>15, Zenon DEF Coupled
<1>18. Recorded'
  <2>1. \A m \in 1 .. Len(outcome) : calls'[m] = calls[m]
    BY <1>4
  <2>2. DeliveredAnswersTheCall' /\ OnlyBlankIsSilent'
    BY <2>1, <1>1, <1>4, OutcomesStand, Zenon
  <2> QED BY <2>2, <1>1, <1>4, Zenon DEF Recorded
<1>19. InStep'
  BY <1>1, Zenon DEF InStep
<1> QED BY <1>14, <1>16, <1>17, <1>18, <1>19, Zenon DEF IInv

\* It goes away.
LEMMA RawGoneStep ==
    ASSUME IInv, RawGone
    PROVE  IInv'
<1>1. /\ pc = "raw" /\ open' = [open EXCEPT ![1] = FALSE] /\ down' = [down EXCEPT ![1] = <<>>]
      /\ UNCHANGED <<server, at, up, pending, client, executed>>
  BY Zenon DEF RawGone
<1>2. fd = 0
  BY <1>1, Zenon DEF IInv, Coupled
<1>3. Streams' = Streams
  BY <1>1, Zenon DEF Streams, server, client
<1>4. /\ down' \in [Conns -> Seq(LineUnits)] /\ open' \in [Conns -> BOOLEAN]
      /\ \A c \in Conns : down'[c] = <<>> \/ down'[c] = down[c]
  <2>1. <<>> \in Seq(LineUnits) /\ down \in [Conns -> Seq(LineUnits)] /\ open \in [Conns -> BOOLEAN]
    BY SMTT(30) DEF IInv, Typed
  <2> QED BY <2>1, <1>1, ZenonT(40)
<1>5. Typed'
  BY <1>1, <1>4, Zenon DEF IInv, Typed, server, client
<1>6. Coupled'
  BY <1>1, <1>2, <1>3, <1>4, ZenonT(40) DEF IInv, Coupled, client
<1>7. Recorded'
  BY <1>1, ZenonT(40) DEF IInv, Recorded, client, DeliveredAnswersTheCall, OnlyBlankIsSilent
<1>8. Orderly(Streams, calls, executed)' /\ InStep'
  BY <1>1, <1>3, Zenon DEF IInv, InStep, client
<1> QED BY <1>5, <1>6, <1>7, <1>8, Zenon DEF IInv

-----------------------------------------------------------------------------
(* The invariant.                                                          *)

\* At the start nothing is under way, whoever the peer is.
LEMMA InitIInv == Init => IInv
<1> SUFFICES ASSUME Init PROVE IInv
  BY Zenon
<1>1. /\ fd = 0 /\ buffer = <<>> /\ rest = <<>> /\ reply = <<>> /\ want = 0 /\ faults = 0
      /\ calls = <<>> /\ outcome = <<>> /\ executed = <<>> /\ pc \in {"idle", "raw"}
      /\ running = TRUE /\ shut = FALSE
  BY Zenon DEF Init
<1>2. \A c \in Conns : up[c] = <<>> /\ down[c] = <<>> /\ pending[c] = <<>>
  BY Zenon DEF Init
<1>3. /\ pending \in StreamSet /\ up \in StreamSet /\ down \in [Conns -> Seq(LineUnits)]
      /\ open \in [Conns -> BOOLEAN] /\ at \in [Conns -> Labels]
  <2>1. <<>> \in Seq(Units) /\ <<>> \in Seq(LineUnits) /\ "none" \in Labels /\ "queued" \in Labels
    BY DEF Labels
  <2> QED BY <2>1, ZenonT(40) DEF Init, StreamSet
<1>4. 1 \in Conns /\ 0 \in 0 .. MaxConns /\ 0 \in 0 .. MaxFaults
  BY ConnsAssumption, BoundsAssumption DEF Conns
<1>5. pc = "raw" => at[1] = "queued"
  BY <1>4, Zenon DEF Init
<1>6. \A c \in Conns : Streams[c] = <<>>
  <2>1. Streams = OnTheWay(pending, up)
    BY <1>1, <1>3, PlainStreams, Zenon DEF Streams
  <2>2. <<>> \o <<>> = <<>>
    OBVIOUS
  <2> QED BY <2>1, <2>2, <1>2, Zenon DEF OnTheWay
<1>7. Typed
  <2>1. running \in BOOLEAN /\ shut \in BOOLEAN
    BY <1>1, Zenon
  <2>2. /\ buffer \in Seq(LineUnits) /\ rest \in Seq(Units) /\ reply \in Seq(LineUnits)
        /\ calls \in Seq(Lines) /\ executed \in Seq(Conns \X Seq(Units))
    BY <1>1
  <2>3. fd \in 0 .. MaxConns /\ faults \in 0 .. MaxFaults /\ want \in Nat
    BY <1>1, <1>4, Zenon
  <2>4. pc \in {"idle", "send", "read", "raw", "killed"}
    BY <1>1, Zenon
  <2> QED BY <2>1, <2>2, <2>3, <2>4, <1>3, Zenon DEF Typed, StreamSet
<1>8. Coupled
  <2>2. DOMAIN <<>> = {}
    OBVIOUS
  <2>3. ~HasLine(<<>>)
    BY <2>2, Zenon DEF HasLine
  <2>1. \A c \in Conns : ~HasLine(pending[c])
    BY <1>2, <2>3, ZenonT(40)
  <2> QED BY <2>1, <1>1, <1>2, <1>4, <1>5, <1>6, Zenon DEF Coupled
<1>9. Recorded
  BY <1>1, SMTT(30) DEF Recorded, DeliveredAnswersTheCall, OnlyBlankIsSilent
<1>10. Orderly(Streams, calls, executed)
  <2>1. \A c \in Conns : Len(Streams[c]) = 0
    BY <1>6
  <2>2. Len(executed) = 0
    BY <1>1, ZenonT(40)
  <2>3. \A c \in Conns : WellFramed(Streams[c], calls)
    BY <1>6, <2>1 DEF WellFramed, Unbroken
  <2>4. Apart(Streams) /\ Later(Streams, executed) /\ InOrder(executed)
    <3>1. \A c \in Conns : 1 .. Len(Streams[c]) = {}
      BY <2>1
    <3>2. 1 .. Len(executed) = {}
      BY <2>2
    <3> QED BY <3>1, <3>2, Zenon DEF Apart, Later, InOrder
  <2> QED BY <2>2, <2>3, <2>4, SMTT(30) DEF Orderly
<1>11. InStep
  BY <1>1, Zenon DEF InStep
<1> QED BY <1>7, <1>8, <1>9, <1>10, <1>11, Zenon DEF IInv

\* Every step of the client, of the peers and of the server keeps the invariant.
LEMMA NextIInv == IInv /\ [Next]_vars => IInv'
<1> SUFFICES ASSUME IInv, [Next]_vars PROVE IInv'
  BY Zenon
<1>1. CASE Connect
  BY <1>1, ConnectStep, Zenon
<1>2. CASE Disconnect
  BY <1>2, DisconnectStep, ZenonT(40)
<1>3. CASE Call
  BY <1>3, CallStep, Zenon
<1>4. CASE Send
  BY <1>4, SendStep, Zenon
<1>5. CASE SendFails
  BY <1>5, SendFailsStep, Zenon
<1>6. CASE Receive
  BY <1>6, ReceiveStep, Zenon
<1>7. CASE Closed
  BY <1>7, ClosedStep, Zenon
<1>8. CASE Timeout
  BY <1>8, TimeoutStep, Zenon
<1>9. CASE Read
  BY <1>9, ReadStep, Zenon
<1>10. CASE SendKills
  BY <1>10, SendKillsStep, Zenon
<1>11. CASE RawSend
  BY <1>11, RawSendStep, Zenon
<1>12. CASE RawGone
  BY <1>12, RawGoneStep, Zenon
<1>13. ASSUME NEW c \in Conns, Accept(c) PROVE IInv'
  BY <1>13, AcceptStep, Zenon
<1>14. ASSUME NEW c \in Conns, Refuse(c) \/ ServerLeaves(c) \/ Abandon(c) PROVE IInv'
  BY <1>14, ServerClosesStep, ZenonT(40)
<1>15. ASSUME NEW c \in Conns, Serve(c) PROVE IInv'
  BY <1>15, ServeStep, Zenon
<1>16. ASSUME NEW c \in Conns, ServerReceive(c) PROVE IInv'
  BY <1>16, ServerReceiveStep, Zenon
<1>17. ASSUME NEW c \in Conns, Cut(c) PROVE IInv'
  BY <1>17, CutStep, Zenon
<1>18. ASSUME NEW c \in Conns, Check(c) PROVE IInv'
  BY <1>18, CheckStep, Zenon
<1>19. CASE Stop
  BY <1>19, StopStep, Zenon
<1>20. CASE ShutdownActive
  BY <1>20, ShutdownStep, Zenon
<1>21. CASE UNCHANGED vars
  <2>1. UNCHANGED <<running, shut, fd, buffer, pc, rest, reply, want, faults, calls, outcome, at, up, down, pending, open, executed>>
    BY <1>21, Zenon DEF vars, server, client, wire
  <2>2. Streams' = Streams
    BY <2>1, Zenon DEF Streams
  <2>3. Typed' /\ Coupled' /\ InStep' /\ Orderly(Streams, calls, executed)'
    BY <2>1, <2>2, ZenonT(40) DEF IInv, Typed, Coupled, InStep
  <2>4. Recorded'
    BY <2>1, Zenon DEF IInv, Recorded, DeliveredAnswersTheCall, OnlyBlankIsSilent
  <2> QED BY <2>3, <2>4, Zenon DEF IInv
<1> QED BY <1>1, <1>2, <1>3, <1>4, <1>5, <1>6, <1>7, <1>8, <1>9, <1>10, <1>11, <1>12, <1>13, <1>14, <1>15,
           <1>16, <1>17, <1>18, <1>19, <1>20, <1>21, Zenon DEF Next, ClientStep, Handler

\* The conversation stays in step, whatever the two sides and the network do.
LEMMA Invariance == Spec => []IInv
BY InitIInv, NextIInv, PTL DEF Spec

\* Executed commands are whole, and in order.
LEMMA OrderlyMeansWhole == IInv => NoTornCommand
<1> SUFFICES ASSUME IInv PROVE NoTornCommand
  BY Zenon
<1>1. DOMAIN executed = 1 .. Len(executed) /\ Orderly(Streams, calls, executed)
  BY DEF IInv, Typed
<1>2. \A i \in DOMAIN executed :
          executed[i][2] # <<>> => WholeCall(executed[i][2], executed[i][2][1].of)
  BY <1>1, ZenonT(40) DEF Orderly, WholeOf, WholeCall
<1>3. InOrder(executed)
  BY <1>1, Zenon DEF Orderly
<1> QED BY <1>1, <1>2, <1>3, Zenon DEF NoTornCommand, InOrder

-----------------------------------------------------------------------------
\* A reply command() delivers is the reply to the command it was called with, or an
\* error about the connection, for any commands, bounds and number of connections.
THEOREM RepliesMatchCalls == Spec => []DeliveredAnswersTheCall
<1>1. IInv => DeliveredAnswersTheCall
  BY Zenon DEF IInv, Recorded
<1> QED BY <1>1, Invariance, PTL

\* Only a blank line leaves a client waiting for a server that has nothing to say.
THEOREM SilenceMeansBlank == Spec => []OnlyBlankIsSilent
<1>1. IInv => OnlyBlankIsSilent
  BY Zenon DEF IInv, Recorded
<1> QED BY <1>1, Invariance, PTL

\* The executor gets whole commands, each once, and those of a connection in order,
\* however send and recv cut them up and whenever a peer goes away.
THEOREM CommandsExecutedWhole == Spec => []NoTornCommand
BY Invariance, OrderlyMeansWhole, PTL
=============================================================================
