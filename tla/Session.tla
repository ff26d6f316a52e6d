------------------------------ MODULE Session -------------------------------
(***************************************************************************)
(* A conversation over TCP: VCacheClient at one end, Server's connection   *)
(* handler and CommandExecutor at the other, the wire format of Protocol.h *)
(* between them.                                                           *)
(*                                                                         *)
(* Each direction of a connection is a stream of units.  A unit is a piece *)
(* of a line's text or the newline that ends it; recv returns any prefix   *)
(* of what is under way and send takes any prefix of what is left, so one  *)
(* command can arrive in several reads and several in one.  What the       *)
(* commands do to the data is Database.tla's subject.                      *)
(***************************************************************************)
EXTENDS Naturals, Sequences

CONSTANTS
    Calls,      \* command lines: [kind, size], size the units before the newline
    Pipeline,   \* lines a peer sends that does not wait for replies
    MaxCalls,   \* the commands of a behaviour
    MaxConns,   \* its connections
    MaxKeys,    \* the longest reply to KEYS
    Cap,        \* maxRequestBytes, in units
    MaxFaults   \* replies that come after the client has stopped waiting, and
                \* sends that time out

Kinds == {"Empty", "Set", "Get", "Del", "Exists", "Keys", "Save", "Bad"}

\* Command lines: the blank one has no text.
Lines == {c \in [kind : Kinds, size : Nat] : c.size = 0 <=> c.kind = "Empty"}

ASSUME CallsAssumption == Calls \subseteq Lines /\ Pipeline \in Seq(Lines)
ASSUME ConnsAssumption == MaxConns \in Nat \ {0}
ASSUME BoundsAssumption ==
    MaxCalls \in Nat /\ MaxKeys \in Nat /\ Cap \in Nat /\ MaxFaults \in Nat

Conns == 1 .. MaxConns

VARIABLES
    running,    \* running_
    shut,       \* shutdownActiveConnections has run
    at,         \* where the server is with each connection
    up, down,   \* the units under way, to the server and to the client
    pending,    \* handleConnection's pending
    open,       \* the client has not closed its end
    fd,         \* fd_: the client's connection, 0 for -1
    buffer,     \* buffer_
    pc,         \* where command() is
    rest,       \* what sendAll has still to send
    reply,      \* the lines of the reply so far
    want,       \* the array elements still to come
    faults,
    calls,      \* history: the command lines the client was asked to send,
    outcome,    \* what became of each,
    executed    \* and the lines the executor was given, with their connection

server == <<running, shut>>
client == <<fd, buffer, pc, rest, reply, want, faults, calls, outcome>>
wire == <<at, up, down, pending, open>>
vars == <<server, client, wire, executed>>

\* The n-th command, as it goes over the wire.
Framed(n, size) == [i \in 1 .. size + 1 |-> [of |-> n, part |-> i, nl |-> i = size + 1]]

\* A reply line to the n-th command: status, error, value, nil, integer,
\* arrayHeader.  Errors about the connection rather than a command are of 0.
Line(n, tag, count) == [of |-> n, tag |-> tag, count |-> count, nl |-> FALSE]
Newline(n) == [of |-> n, tag |-> "nl", count |-> 0, nl |-> TRUE]
FramedLines(lines) ==
    [i \in 1 .. 2 * Len(lines) |->
        IF i % 2 = 1 THEN lines[(i + 1) \div 2] ELSE Newline(lines[i \div 2].of)]

\* The first line in a buffer, its text and what is left when it is cut out.
EndsAt(b, i) == b[i].nl /\ \A j \in 1 .. i - 1 : ~b[j].nl
HasLine(b) == \E i \in DOMAIN b : EndsAt(b, i)
End(b) == CHOOSE i \in DOMAIN b : EndsAt(b, i)
Text(b) == SubSeq(b, 1, End(b) - 1)
After(b) == SubSeq(b, End(b) + 1, Len(b))
Rest(s, k) == SubSeq(s, k + 1, Len(s))

\* The replies execute can give to the n-th command, as sequences of lines.
Replies(n, kind) ==
    CASE kind \in {"Set", "Save"} -> {<<Line(n, "+", 0)>>, <<Line(n, "-", 0)>>}
      [] kind = "Get" -> {<<Line(n, "_", 0)>>, <<Line(n, "$", 0)>>}
      [] kind \in {"Del", "Exists"} -> {<<Line(n, ":", 0)>>}
      [] kind = "Keys" -> {<<Line(n, "*", k)>> \o [i \in 1 .. k |-> Line(n, "$", 0)] : k \in 0 .. MaxKeys}
      [] kind = "Bad" -> {<<Line(n, "-", 0)>>}
      [] kind = "Empty" -> {<<>>}

\* text is all of the n-th command.
WholeCall(text, n) == text = SubSeq(Framed(n, calls[n].size), 1, calls[n].size)

\* execute: a blank line gets no reply, and a line that is not a command an error.
Execute(text) ==
    IF text = <<>> THEN {<<>>}
    ELSE LET n == text[1].of
         IN  IF WholeCall(text, n) THEN Replies(n, calls[n].kind) ELSE Replies(n, "Bad")

-----------------------------------------------------------------------------
\* Behaviours of VCacheClient start without a connection; the other ones with a
\* peer that sends Pipeline and whose connection waits for a worker.
Init ==
    /\ running = TRUE /\ shut = FALSE
    /\ fd = 0 /\ buffer = <<>> /\ rest = <<>> /\ reply = <<>> /\ want = 0 /\ faults = 0
    /\ calls = <<>> /\ outcome = <<>> /\ executed = <<>>
    /\ up = [c \in Conns |-> <<>>] /\ down = [c \in Conns |-> <<>>]
    /\ pending = [c \in Conns |-> <<>>]
    /\ \/ /\ pc = "idle"
          /\ at = [c \in Conns |-> "none"] /\ open = [c \in Conns |-> FALSE]
       \/ /\ pc = "raw"
          /\ at = [c \in Conns |-> IF c = 1 THEN "queued" ELSE "none"]
          /\ open = [c \in Conns |-> c = 1]

\* The client closes its end of fd; what is under way to it is lost.
HangUp ==
    /\ open' = [c \in Conns |-> open[c] /\ c # fd]
    /\ down' = [c \in Conns |-> IF c = fd THEN <<>> ELSE down[c]]

\* connect: it lets go of the old connection first.
Connect ==
    /\ pc = "idle" /\ Len(calls) < MaxCalls
    /\ buffer' = <<>>
    /\ \/ \E c \in Conns :
             /\ at[c] = "none" /\ \A b \in 1 .. c - 1 : at[b] # "none"
             /\ at' = [at EXCEPT ![c] = "backlog"]
             /\ open' = [b \in Conns |-> b = c \/ (open[b] /\ b # fd)]
             /\ down' = [b \in Conns |-> IF b = fd THEN <<>> ELSE down[b]]
             /\ fd' = c
       \/ ~running /\ HangUp /\ fd' = 0 /\ at' = at
    /\ UNCHANGED <<server, up, pending, pc, rest, reply, want, faults, calls, outcome, executed>>

\* disconnect, called between commands.
Disconnect ==
    /\ pc = "idle" /\ Len(calls) < MaxCalls /\ fd # 0
    /\ HangUp /\ fd' = 0 /\ buffer' = <<>>
    /\ UNCHANGED <<server, at, up, pending, pc, rest, reply, want, faults, calls, outcome, executed>>

\* command, up to the sending.
Call ==
    /\ pc = "idle" /\ Len(calls) < MaxCalls
    /\ \E c \in Calls :
          /\ calls' = Append(calls, c)
          /\ \/ /\ fd = 0
                /\ outcome' = Append(outcome, [delivered |-> FALSE, why |-> "not connected"])
                /\ UNCHANGED <<pc, rest>>
             \/ /\ fd # 0
                /\ pc' = "send" /\ rest' = Framed(Len(calls) + 1, c.size)
                /\ outcome' = outcome
    /\ UNCHANGED <<server, wire, fd, buffer, reply, want, faults, executed>>

\* Mutant of Fail: the connection is kept for the next command.
FailStays(why) ==
    /\ outcome' = Append(outcome, [delivered |-> FALSE, why |-> why])
    /\ pc' = "idle" /\ rest' = <<>> /\ reply' = <<>> /\ want' = 0
    /\ UNCHANGED <<server, at, up, pending, open, down, fd, buffer, calls, executed>>

\* Every error path of command ends in disconnect.
Fail(why) ==
    /\ outcome' = Append(outcome, [delivered |-> FALSE, why |-> why])
    /\ HangUp /\ fd' = 0 /\ buffer' = <<>>
    /\ pc' = "idle" /\ rest' = <<>> /\ reply' = <<>> /\ want' = 0
    /\ UNCHANGED <<server, at, up, pending, calls, executed>>

\* Nothing the client sends on c is read any more.
Dead(c) == at[c] = "closed" \/ shut

\* One call of send in sendAll.
Send ==
    /\ pc = "send"
    /\ \E k \in 1 .. Len(rest) :
          /\ rest' = Rest(rest, k)
          /\ up' = IF Dead(fd) THEN up ELSE [up EXCEPT ![fd] = @ \o SubSeq(rest, 1, k)]
    /\ pc' = IF rest' = <<>> THEN "read" ELSE "send"
    /\ UNCHANGED <<server, at, down, pending, open, fd, buffer, reply, want, faults, calls, outcome, executed>>

\* send fails: SO_SNDTIMEO, or the server has closed the connection.
SendFails ==
    /\ pc = "send"
    /\ \/ Dead(fd) /\ faults' = faults
       \/ faults < MaxFaults /\ faults' = faults + 1
    /\ Fail("send")

\* sendAll passes no MSG_NOSIGNAL: on a connection that was reset SIGPIPE ends the
\* process.  Here the first send after the server's close may already meet the reset;
\* TCP accepts that one unless the server left bytes unread, and a later one meets it.
SendKills ==
    /\ pc = "send" /\ at[fd] = "closed"
    /\ pc' = "killed"
    /\ HangUp /\ fd' = 0 /\ buffer' = <<>> /\ rest' = <<>>
    /\ UNCHANGED <<server, at, up, pending, reply, want, faults, calls, outcome, executed>>

\* readLine finds no newline and calls recv.
Receive ==
    /\ pc = "read" /\ ~HasLine(buffer)
    /\ \E k \in 1 .. Len(down[fd]) :
          /\ buffer' = buffer \o SubSeq(down[fd], 1, k)
          /\ down' = [down EXCEPT ![fd] = Rest(@, k)]
    /\ UNCHANGED <<server, at, up, pending, open, fd, pc, rest, reply, want, faults, calls, outcome, executed>>

\* recv returns 0, or an error when the server's close was a reset, which overtakes
\* what is still under way.
Closed ==
    /\ pc = "read" /\ ~HasLine(buffer)
    /\ at[fd] = "closed" \/ (shut /\ down[fd] = <<>>)
    /\ Fail("closed") /\ faults' = faults

\* The server has read and answered everything, and the client has read the answers.
Quiet(c) == at[c] = "recv" /\ ~shut /\ up[c] = <<>> /\ down[c] = <<>>

\* Mutant of Timeout: SO_RCVTIMEO is not set.
TimeoutOnlyLate ==
    /\ pc = "read" /\ ~HasLine(buffer)
    /\ faults < MaxFaults /\ faults' = faults + 1 /\ Fail("late")

\* SO_RCVTIMEO: the reply is late, the connection has no worker yet, or there is
\* no reply.
Timeout ==
    /\ pc = "read" /\ ~HasLine(buffer)
    /\ \/ faults < MaxFaults /\ faults' = faults + 1 /\ Fail("late")
       \/ at[fd] \in {"backlog", "queued"} /\ faults' = faults /\ Fail("waiting")
       \/ Quiet(fd) /\ faults' = faults /\ Fail("silent")

Deliver(lines) ==
    /\ outcome' = Append(outcome, [delivered |-> TRUE, lines |-> lines])
    /\ pc' = "idle" /\ reply' = <<>> /\ want' = 0

\* readLine cuts a line out of the buffer, and command goes on with it: an unknown
\* tag is an error, an array header announces so many lines, anything else is the
\* whole reply.
Read ==
    /\ pc = "read" /\ HasLine(buffer)
    /\ LET line == Text(buffer)
           lines == reply \o line
           left == IF reply # <<>> THEN want - 1 ELSE line[1].count
       IN  IF line = <<>>
           THEN Fail("unrecognised") /\ faults' = faults
           ELSE /\ buffer' = After(buffer)
                /\ \/ left = 0 /\ Deliver(lines)
                   \/ left > 0 /\ reply' = lines /\ want' = left /\ UNCHANGED <<pc, outcome>>
                /\ UNCHANGED <<server, wire, fd, rest, faults, calls, executed>>

\* The pipelining peer sends its next line.
RawSend ==
    /\ pc = "raw" /\ open[1] /\ Len(calls) < Len(Pipeline)
    /\ LET n == Len(calls) + 1
       IN  /\ calls' = Append(calls, Pipeline[n])
           /\ up' = IF Dead(1) THEN up ELSE [up EXCEPT ![1] = @ \o Framed(n, Pipeline[n].size)]
    /\ UNCHANGED <<server, at, down, pending, open, fd, buffer, pc, rest, reply, want, faults, outcome, executed>>

\* It goes away.
RawGone ==
    /\ pc = "raw" /\ open[1]
    /\ open' = [open EXCEPT ![1] = FALSE] /\ down' = [down EXCEPT ![1] = <<>>]
    /\ UNCHANGED <<server, at, up, pending, client, executed>>

-----------------------------------------------------------------------------
\* What the server sends on c arrives unless the client has gone.
Say(c, units) == down' = [down EXCEPT ![c] = IF open[c] THEN @ \o units ELSE @]
Goto(c, label) == at' = [at EXCEPT ![c] = label]
Close(c) ==
    /\ Goto(c, "closed")
    /\ up' = [up EXCEPT ![c] = <<>>] /\ pending' = [pending EXCEPT ![c] = <<>>]

\* run accepts the connection, and turns it away when the pool has no room.
Accept(c) ==
    /\ at[c] = "backlog" /\ running
    /\ \/ Goto(c, "queued") /\ UNCHANGED <<up, down, pending>>
       \/ Say(c, FramedLines(<<Line(0, "-", 0)>>)) /\ Close(c)
    /\ UNCHANGED <<server, open, client, executed>>

\* The listening socket goes with the server, and what nobody accepted with it.
Refuse(c) ==
    /\ at[c] = "backlog" /\ ~running
    /\ Close(c)
    /\ UNCHANGED <<server, down, open, client, executed>>

\* serveConnection, in a worker.
Serve(c) ==
    /\ at[c] = "queued"
    /\ \/ running /\ Goto(c, "recv") /\ UNCHANGED <<up, pending>>
       \/ ~running /\ Close(c)
    /\ UNCHANGED <<server, down, open, client, executed>>

\* handleConnection's recv returns bytes.
ServerReceive(c) ==
    /\ at[c] = "recv"
    /\ \E k \in 1 .. Len(up[c]) :
          /\ pending' = [pending EXCEPT ![c] = @ \o SubSeq(up[c], 1, k)]
          /\ up' = [up EXCEPT ![c] = Rest(@, k)]
    /\ Goto(c, "cut")
    /\ UNCHANGED <<server, down, open, client, executed>>

\* Mutant of ServerLeaves: what is left of the buffer counts as the last line.
ServerLeavesFlushing(c) ==
    /\ at[c] = "recv"
    /\ (up[c] = <<>> /\ ~open[c]) \/ shut \/ ~running
    /\ executed' = IF pending[c] = <<>> THEN executed ELSE Append(executed, <<c, pending[c]>>)
    /\ Close(c)
    /\ UNCHANGED <<server, down, open, client>>

\* The handler leaves: the peer has closed, or the server is stopping.
ServerLeaves(c) ==
    /\ at[c] = "recv"
    /\ (up[c] = <<>> /\ ~open[c]) \/ shut \/ ~running
    /\ Close(c)
    /\ UNCHANGED <<server, down, open, client, executed>>

\* The reply goes out whole; when the peer has gone, or shutdownActiveConnections
\* cuts in, part of it, or nothing, and the handler gives up.  There is room for it: a
\* send that blocks on a peer that does not read is in Server, not here.
SendLine(c, units) ==
    \/ ~shut /\ Say(c, units) /\ UNCHANGED <<at, up>>
    \/ ~open[c] /\ down' = down /\ Goto(c, "lost") /\ up' = up
    \/ shut /\ (\E k \in 0 .. Len(units) - 1 : Say(c, SubSeq(units, 1, k))) /\ Goto(c, "lost") /\ up' = up

\* Mutant of Cut: one command per recv.
CutOnce(c) ==
    /\ at[c] = "cut" /\ HasLine(pending[c])
    /\ executed' = Append(executed, <<c, Text(pending[c])>>)
    /\ pending' = [pending EXCEPT ![c] = After(@)]
    /\ \E lines \in Execute(Text(pending[c])) : Say(c, FramedLines(lines))
    /\ Goto(c, "recv")
    /\ UNCHANGED <<server, open, up, client>>

\* One turn of the inner loop: a line is cut out, executed and answered.
Cut(c) ==
    /\ at[c] = "cut" /\ HasLine(pending[c])
    /\ executed' = Append(executed, <<c, Text(pending[c])>>)
    /\ pending' = [pending EXCEPT ![c] = After(@)]
    /\ \E lines \in Execute(Text(pending[c])) :
          \/ lines = <<>> /\ UNCHANGED <<at, up, down>>
          \/ lines # <<>> /\ SendLine(c, FramedLines(lines))
    /\ UNCHANGED <<server, open, client>>

\* Mutant of Check: pending starts empty at every recv.
CheckForgets(c) ==
    /\ at[c] = "cut" /\ ~HasLine(pending[c])
    /\ Goto(c, "recv") /\ pending' = [pending EXCEPT ![c] = <<>>]
    /\ UNCHANGED <<up, down, server, open, client, executed>>

\* After the loop: a line that is too long ends the connection.
Check(c) ==
    /\ at[c] = "cut" /\ ~HasLine(pending[c])
    /\ \/ /\ Len(pending[c]) <= Cap
          /\ Goto(c, "recv") /\ UNCHANGED <<up, down, pending>>
       \/ /\ Len(pending[c]) > Cap
          /\ IF shut THEN down' = down ELSE Say(c, FramedLines(<<Line(0, "-", 0)>>))
          /\ Close(c)
    /\ UNCHANGED <<server, open, client, executed>>

\* handleConnection returns early; serveConnection closes the descriptor.
Abandon(c) ==
    /\ at[c] = "lost"
    /\ Close(c)
    /\ UNCHANGED <<server, down, open, client, executed>>

\* stop, and the end of run.
Stop == running /\ running' = FALSE /\ UNCHANGED <<shut, client, wire, executed>>
ShutdownActive == ~running /\ ~shut /\ shut' = TRUE /\ UNCHANGED <<running, client, wire, executed>>

ClientStep == Send \/ SendFails \/ Receive \/ Closed \/ Timeout \/ Read
Handler(c) == ServerReceive(c) \/ ServerLeaves(c) \/ Cut(c) \/ Check(c) \/ Abandon(c)

Next ==
    \/ Connect \/ Disconnect \/ Call \/ ClientStep \/ SendKills \/ RawSend \/ RawGone
    \/ \E c \in Conns : Accept(c) \/ Refuse(c) \/ Serve(c) \/ Handler(c)
    \/ Stop \/ ShutdownActive

Spec == Init /\ [][Next]_vars

\* The client's thread and a worker that has a connection are scheduled, and
\* receive timeouts fire.  Nobody has to stop the server, and no worker has to
\* become free.
FairSpec == Spec /\ WF_vars(ClientStep) /\ \A c \in Conns : WF_vars(Handler(c))

-----------------------------------------------------------------------------
\* A reply command() delivers is the whole reply to the line it was called with, or
\* an error about the connection: a late reply, or the rest of one, is never taken
\* for the answer to a later command.
DeliveredAnswersTheCall ==
    \A n \in DOMAIN outcome :
        outcome[n].delivered =>
            \/ outcome[n].lines \in Replies(n, calls[n].kind)
            \/ outcome[n].lines = <<Line(0, "-", 0)>>

\* A client that waits in vain, for a server that is up and has nothing left to
\* read or to say, has sent a blank line.
OnlyBlankIsSilent ==
    \A n \in DOMAIN outcome :
        ~outcome[n].delivered /\ outcome[n].why = "silent" => calls[n].kind = "Empty"

\* However the bytes are cut up and whenever a peer goes away, the executor gets
\* whole commands, each one once, and those of a connection in the order they were
\* sent: a command cut short by an error, a timeout or a full buffer has no effect.
NoTornCommand ==
    /\ \A i \in DOMAIN executed :
          executed[i][2] # <<>> => WholeCall(executed[i][2], executed[i][2][1].of)
    /\ \A i, j \in DOMAIN executed :
          i < j /\ executed[i][2] # <<>> /\ executed[j][2] # <<>> =>
              /\ executed[i][2][1].of # executed[j][2][1].of
              /\ executed[i][1] = executed[j][1] => executed[i][2][1].of < executed[j][2][1].of

\* command() returns, whatever the server does, unless SIGPIPE ends its process first:
\* it does not wait for a reply that will not come.
CommandReturns == pc \in {"send", "read"} ~> pc \in {"idle", "killed"}

\* All the commands of a peer that does not wait for replies are executed, if its
\* connection lasts and the handler's replies find room (see SendLine).
PipelineServed ==
    pc = "raw" /\ at[1] = "recv" /\ Len(calls) = Len(Pipeline)
        ~> at[1] \in {"lost", "closed"} \/ Len(executed) = Len(Pipeline)
=============================================================================
