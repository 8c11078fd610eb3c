------------------------------- MODULE RpcStream -------------------------------
(***************************************************************************)
(* One connection of the control plane, from both sides: rpc-server.ts of  *)
(* the daemon and openDaemonStream of rpc/client.ts.  A client that has    *)
(* subscribed makes calls on it; requests are cut into chunks anywhere,    *)
(* answers come in any order between events, and either side may end it.   *)
(* Close callbacks of handlers are in ToolCalls, what clients do with the  *)
(* events in ClientStreams.                                                *)
(***************************************************************************)
EXTENDS Naturals, Sequences, FiniteSets

CONSTANTS
    MaxCalls,           \* bound: calls of the stream; ids are given in their order
    MaxLineBytes,       \* the server's cap on a request
    MaxNotifyBuffered,  \* MAX_NOTIFY_BUFFERED_BYTES
    MaxEvents           \* bound: events that occur

\* Assumed of the constants: a wide character fits in a request.
RpcAssumption == {MaxCalls, MaxLineBytes, MaxNotifyBuffered, MaxEvents} \subseteq Nat /\ MaxLineBytes >= 2

VARIABLES
    made,       \* calls so far, nextRequestId being the next
    request,    \* request[c]: the bytes of c's line, for the calls whose line was written
    pending,    \* pendingCalls of the stream
    got,        \* got[c]: how call c ended, and whose result it was given
    heard,      \* events given to the listeners
    sock,       \* the client's end: "open", "destroyed" or, after its event, "closed"
    toDaemon,   \* bytes on their way
    buffer,     \* text that the server has read and not split yet
    handled,    \* lines that went to handleLine
    running,    \* calls whose handler has not settled
    conn,       \* the server's end: "open" or "destroyed"
    refused,    \* the server destroyed it for an over-long line
    out,        \* lines written and not flushed
    fromDaemon, \* lines flushed and not read
    occurred    \* events so far

clientVars == <<made, request, pending, got, heard, sock>>
serverVars == <<buffer, handled, running, conn, refused, out, occurred>>
rpcVars == <<clientVars, serverVars, toDaemon, fromDaemon>>

-----------------------------------------------------------------------------
(* Text. A character takes one byte, or a lead and a tail.                  *)

NewLine == "newline"

Plain(n) == [i \in 1..n |-> "plain"]
Wide(n) == [i \in 1..n + 2 |-> IF i <= n THEN "plain" ELSE IF i = n + 1 THEN "lead" ELSE "tail"]

\* Short ones, one that has just the length of the cap, and one that is over it.
Requests == {Plain(1), Wide(0), Wide(MaxLineBytes - 2), Plain(MaxLineBytes + 1)}

\* chunk.toString("utf8"): every chunk is decoded by itself, and what is no character in
\* it becomes a replacement character. A text has the positions of its bytes: "rest" is
\* where a wide character goes on.
Decode(bytes) ==
    LET Pair(i) == /\ i \in 1..(Len(bytes) - 1)
                   /\ bytes[i] = "lead" /\ bytes[i + 1] = "tail"
    IN  [i \in 1..Len(bytes) |-> CASE bytes[i] \in {"plain", NewLine} -> bytes[i]
                                   [] Pair(i) -> "wide"
                                   [] Pair(i - 1) -> "rest"
                                   [] OTHER -> "garbled"]

Total(sizes) ==
    LET sum[n \in 0..Len(sizes)] == IF n = 0 THEN 0 ELSE sum[n - 1] + sizes[n]
    IN  sum[Len(sizes)]

\* Buffer.byteLength: a replacement character is three bytes of UTF-8.
Width(char) == IF char = "garbled" THEN 3 ELSE 1
ByteLength(text) == Total([i \in 1..Len(text) |-> Width(text[i])])

\* A buffer's line breaks, of which the zeroth is its beginning; its complete lines, and
\* what is left of it.
Breaks(text) == {i \in 1..Len(text) : text[i] = NewLine}
Break(text, n) == CHOOSE b \in Breaks(text) \union {0} :
                      Cardinality({i \in Breaks(text) : i <= b}) = n
Lines(text) == [n \in 1..Cardinality(Breaks(text)) |->
                   SubSeq(text, Break(text, n - 1) + 1, Break(text, n) - 1)]
Rest(text) == SubSeq(text, Break(text, Cardinality(Breaks(text))) + 1, Len(text))

-----------------------------------------------------------------------------
(* What is written to a client: answers and events.                        *)

Ids == 1..MaxCalls
Outcome(how, of) == [how |-> how, of |-> of]
Unsettled == Outcome("nothing", 0)
Answer(c, size) == [what |-> "answer", of |-> c, size |-> size]
Event(n) == [what |-> "event", of |-> n, size |-> 1]

\* socket.writableLength.
Bytes(lines) == Total([n \in 1..Len(lines) |-> lines[n].size])
WritableLength == Bytes(out)

RpcInit ==
    /\ made = 0 /\ request = <<>> /\ pending = {} /\ heard = <<>>
    /\ got = [c \in Ids |-> Unsettled]
    /\ sock = "open" /\ conn = "open" /\ refused = FALSE
    /\ toDaemon = <<>> /\ buffer = <<>> /\ handled = <<>> /\ running = {}
    /\ out = <<>> /\ fromDaemon = <<>> /\ occurred = 0

-----------------------------------------------------------------------------
(* The client. *)

\* DaemonStream.call: pending with a timer of its own, whether or not the socket lives.
Call ==
    /\ made < MaxCalls /\ made' = made + 1
    /\ pending' = pending \union {made'}
    /\ IF sock = "open"
       THEN \E bytes \in Requests : /\ request' = Append(request, bytes)
                                    /\ toDaemon' = toDaemon \o bytes \o <<NewLine>>
       ELSE UNCHANGED <<request, toDaemon>>
    /\ UNCHANGED <<got, heard, sock, fromDaemon, serverVars>>

Settle(c, outcome) ==
    /\ got' = [got EXCEPT ![c] = outcome]
    /\ pending' = pending \ {c}

\* A variant: answers go to whoever has waited longest.
GivenInOrder(line) == {c \in pending : \A d \in pending : c <= d}

\* An answer's line goes to the call of its id, if that still waits.
Given(line) == pending \intersect {line.of}

Hear ==
    /\ sock = "open" /\ fromDaemon # <<>>
    /\ fromDaemon' = Tail(fromDaemon)
    /\ LET line == Head(fromDaemon) IN
       CASE line.what = "event" ->
                heard' = Append(heard, line.of) /\ UNCHANGED <<got, pending>>
         [] line.what = "answer" /\ Given(line) # {} ->
                (\E c \in Given(line) : Settle(c, Outcome("answer", line.of))) /\ UNCHANGED heard
         [] OTHER -> UNCHANGED <<heard, got, pending>>
    /\ UNCHANGED <<made, request, sock, toDaemon, serverVars>>

CallTimesOut(c) ==
    /\ c \in pending
    /\ Settle(c, Outcome("timeout", 0))
    /\ UNCHANGED <<made, request, heard, sock, toDaemon, fromDaemon, serverVars>>

\* DaemonStream.close.
Close ==
    /\ sock = "open" /\ sock' = "destroyed"
    /\ UNCHANGED <<made, request, pending, got, heard, toDaemon, fromDaemon, serverVars>>

\* The stream's 'close' event. A write to a socket that the daemon has destroyed fails, and
\* what was not read by then is lost.
Closed ==
    /\ sock = "destroyed" \/ (sock = "open" /\ conn = "destroyed")
    /\ sock' = "closed"
    /\ got' = [c \in Ids |-> IF c \in pending THEN Outcome("closed", 0) ELSE got[c]]
    /\ pending' = {}
    /\ UNCHANGED <<made, request, heard, toDaemon, fromDaemon, serverVars>>

-----------------------------------------------------------------------------
(* The daemon. *)

\* socket.destroy(): what was not flushed is gone, and handlers' answers are not written.
Destroy == conn' = "destroyed" /\ out' = <<>>

\* The handlers are started in the order of the lines: the n-th is of call n.
Dispatch(lines) ==
    /\ handled' = handled \o lines
    /\ running' = running \union ((Len(handled) + 1)..Len(handled'))

TooLong(text) == ByteLength(text) > MaxLineBytes

\* What is buffered is over the cap and no line yet. (A variant: TooLong, whether or not
\* there are lines in it.)
TooMuch(text) == ByteLength(text) > MaxLineBytes /\ Breaks(text) = {}

\* The 'data' event. The lines before an over-long one are handled; the error that is
\* written for that one has no id, and no client heeds it.
Data(k) ==
    /\ conn = "open" /\ k \in 1..Len(toDaemon)
    /\ toDaemon' = SubSeq(toDaemon, k + 1, Len(toDaemon))
    /\ LET text == buffer \o Decode(SubSeq(toDaemon, 1, k))
           lines == Lines(text)
           bad == {n \in 1..Len(lines) : TooLong(lines[n])}
       IN  CASE TooMuch(text) ->
                    Destroy /\ refused' = TRUE /\ UNCHANGED <<buffer, handled, running>>
             [] ~TooMuch(text) /\ bad # {} ->
                    /\ Dispatch(SubSeq(lines, 1, (CHOOSE n \in bad : \A m \in bad : n <= m) - 1))
                    /\ buffer' = <<>>
                    /\ Destroy /\ refused' = TRUE
             [] OTHER ->
                    /\ Dispatch(lines)
                    /\ buffer' = Rest(text)
                    /\ UNCHANGED <<conn, out, refused>>
    /\ UNCHANGED <<clientVars, fromDaemon, occurred>>

\* A handler settles, at once or much later, with a result of any size. (Nothing is written
\* to a destroyed socket: what settles then is not seen.)
Respond(c) ==
    /\ conn = "open" /\ c \in running /\ running' = running \ {c}
    /\ \E size \in {1, MaxNotifyBuffered + 1} : out' = Append(out, Answer(c, size))
    /\ UNCHANGED <<clientVars, buffer, handled, conn, refused, occurred, toDaemon, fromDaemon>>

\* notify: a subscriber with too much unread loses its connection.
FallenBehind == WritableLength > MaxNotifyBuffered

\* A variant: such a subscriber just misses the event.
EnqueueOrSkip(line) ==
    (IF FallenBehind THEN UNCHANGED out ELSE out' = Append(out, line)) /\ UNCHANGED conn

Enqueue(line) == IF FallenBehind THEN Destroy ELSE out' = Append(out, line) /\ UNCHANGED conn

Notify ==
    /\ conn = "open" /\ occurred < MaxEvents
    /\ occurred' = occurred + 1
    /\ Enqueue(Event(occurred + 1))
    /\ UNCHANGED <<clientVars, buffer, handled, running, refused, toDaemon, fromDaemon>>

Flush ==
    /\ conn = "open" /\ sock = "open" /\ out # <<>>
    /\ out' = Tail(out)
    /\ fromDaemon' = Append(fromDaemon, Head(out))
    /\ UNCHANGED <<clientVars, buffer, handled, running, conn, refused, occurred, toDaemon>>

\* The client hung up, the daemon shuts down (RpcServer.close) or is killed.
Disconnect ==
    /\ conn = "open" /\ Destroy
    /\ UNCHANGED <<clientVars, buffer, handled, running, refused, occurred, toDaemon, fromDaemon>>

RpcNext ==
    \/ Call
    \/ \E c \in Ids : CallTimesOut(c) \/ Respond(c)
    \/ \E k \in 1..Len(toDaemon) : Data(k)
    \/ Hear \/ Close \/ Closed \/ Notify \/ Flush \/ Disconnect

RpcSpec == RpcInit /\ [][RpcNext]_rpcVars

-----------------------------------------------------------------------------
\* Types. A call is pending exactly until it is given something.
RpcTypeOK ==
    /\ made \in 0..MaxCalls /\ request \in Seq(Requests) /\ Len(request) <= made
    /\ got \in [Ids -> {Unsettled, Outcome("timeout", 0), Outcome("closed", 0)}
                       \union {Outcome("answer", c) : c \in Ids}]
    /\ pending = {c \in 1..made : got[c] = Unsettled}
    /\ running \subseteq 1..Len(request)
    /\ sock \in {"open", "destroyed", "closed"} /\ conn \in {"open", "destroyed"}
    /\ occurred \in 0..MaxEvents

\* One message per line (rpc-server.ts:2): however the bytes were cut, the handlers are
\* given the requests that were written, whole, in order and once. (Characters may have been
\* garbled, see TextIntact.)
Readings(bytes) ==
    {Decode(SubSeq(bytes, 1, k)) \o Decode(SubSeq(bytes, k + 1, Len(bytes))) : k \in 0..Len(bytes)}
LinesAsSent ==
    /\ Len(handled) <= Len(request)
    /\ \A c \in 1..Len(handled) : handled[c] \in Readings(request[c])

\* The cap of 1 MiB (rpc-server.ts:12) is on a line, though on one as it is read: several
\* requests in one chunk are not taken for a long one, and where a connection is refused, the
\* request after those that were handled is over the cap, at least if its wide character is
\* cut in two and replaced. No longer one reaches a handler.
MayBeTooLong(bytes) == \E text \in Readings(bytes) : TooLong(text)
CapIsOnLines ==
    /\ refused => Len(handled) < Len(request) /\ MayBeTooLong(request[Len(handled) + 1])
    /\ \A c \in 1..Len(handled) : ~TooLong(handled[c])

\* rpc-server.ts:11: "lines beyond this are dropped by destroying the connection", which is
\* to say that others are not.
\* The code does not keep this: README, section 10.
CapIsOnWhatWasWritten == refused => \E c \in 1..Len(request) : Len(request[c]) > MaxLineBytes

\* A call is given its own answer, whatever the order of the answers, the calls that have
\* timed out meanwhile and the events in between.
OwnAnswer == \A c \in Ids : got[c].how = "answer" => got[c].of = c

\* A slow reader is "dropped outright" (rpc-server.ts:16): it may lose the connection, but
\* while it has one it has missed no event.
NoGap == \A n \in 1..Len(heard) : heard[n] = n

\* Events do not back up the daemon: only answers may be queued beyond the limit.
QueueBounded ==
    \A n \in 1..Len(out) : out[n].what = "event" => Bytes(SubSeq(out, 1, n)) <= MaxNotifyBuffered + 1

\* When the stream is closed, no call waits whose request was written: only a call that is
\* made on a closed stream is left to its timer.
NoneLeftWaiting == sock = "closed" => pending \intersect (1..Len(request)) = {}

RpcSound ==
    /\ RpcTypeOK /\ LinesAsSent /\ CapIsOnLines /\ OwnAnswer /\ NoGap /\ QueueBounded
    /\ NoneLeftWaiting

\* What a handler is given is what the client wrote.
\* The code does not keep this: README, section 10.
TextIntact == \A c \in 1..Len(handled) : handled[c] = Decode(request[c])
===============================================================================
