------------------------------ MODULE PipeBridge -----------------------------
(***************************************************************************)
(* The dashboard's end of a pipe (dashboard/server/pipe-bridge.js): it     *)
(* connects, cuts the stream into messages and connects again two seconds  *)
(* after a loss.  An action is a callback of the event loop.               *)
(*                                                                         *)
(* A socket (external: Node's net) is "closing" from its end or from       *)
(* destroy() until its `close` event, and may be used again, under the     *)
(* same number, after that.  Its `close` may come late: after the timer    *)
(* that its `end` has started.  promptClose says whether that happens.     *)
(*                                                                         *)
(* The other end (external) serves one connection at a time and writes     *)
(* messages 1, 2, 3... each in two pieces, or three when it is long, so    *)
(* that a chunk of the stream may begin and end anywhere in a message.     *)
(***************************************************************************)
EXTENDS Naturals, SequencesExt

CONSTANTS
  Sockets,         \* numbers; 0 is null
  MaxMessages,     \* bound on what is written
  Long,            \* the messages of three pieces
  MaxWire,         \* the pieces the pipe holds before a write has to wait
  MaxBuffer        \* the pieces of an unfinished line that are kept (500000 characters)

ASSUME BridgeAssumption ==
  /\ IsFiniteSet(Sockets) /\ Sockets # {} /\ Sockets \subseteq Nat \ {0}
  /\ MaxMessages \in Nat /\ MaxWire \in Nat /\ MaxBuffer \in Nat
  /\ Long \subseteq 1..MaxMessages

VARIABLES
  running, client, connected, buffer, timer,
  socket,          \* external: the state of each socket
  server,          \* external: the other end
  wire,            \* external: the pieces written on the connection and not yet read
  sent,            \* external: the number of messages written
  received,        \* history: the messages emitted, each as the pieces of its line
  promptClose      \* external: `close` follows `end` before the timer

bridgeVars == <<running, client, connected, buffer, timer, socket, server, wire, sent, received,
                promptClose>>

Piece == [msg : 1..MaxMessages, part : 1..3]
Parts(msg) == IF msg \in Long THEN 3 ELSE 2
Pieces(msg) == [i \in 1..Parts(msg) |-> [msg |-> msg, part |-> i]]

BridgeTypeOK ==
  /\ running \in BOOLEAN /\ connected \in BOOLEAN /\ timer \in BOOLEAN /\ promptClose \in BOOLEAN
  /\ client \in Sockets \cup {0}
  /\ socket \in [Sockets -> {"closed", "connecting", "open", "closing"}]
  /\ server \in {"down", "listening", "serving"}
  /\ sent \in 0..MaxMessages
  /\ buffer \in Seq(Piece) /\ wire \in Seq(Piece)
  /\ Len(buffer) <= MaxBuffer
  /\ received \in Seq(Seq(Piece))

\* The constructor and start.
BridgeInit ==
  /\ running = TRUE
  /\ client \in Sockets /\ \A s \in Sockets : client <= s
  /\ socket = [s \in Sockets |-> IF s = client THEN "connecting" ELSE "closed"]
  /\ connected = FALSE /\ timer = FALSE /\ buffer = << >>
  /\ server = "down" /\ wire = << >> /\ sent = 0
  /\ received = << >>
  /\ promptClose \in BOOLEAN

outside == <<server, wire, sent, promptClose>>

-----------------------------------------------------------------------------

\* Mutant: every loss starts a timer, also after stop.
ScheduleAlways == timer' = TRUE

\* _scheduleReconnect: one timer at a time, and none after stop.
ScheduleReconnect == timer' = (timer \/ running)

\* A new socket has the least number that is free.
Free(s) == socket[s] = "closed" /\ \A t \in Sockets : socket[t] = "closed" => s <= t

\* destroy(): a socket that is not closed yet will be.
Destroyed == [s \in Sockets |-> IF s = client /\ socket[s] # "closed" THEN "closing" ELSE socket[s]]

\* _connect's callback.  The buffer is emptied here and in _disconnect, not at a loss.
OnConnect(s) ==
  /\ socket[s] = "connecting" /\ server = "listening"
  /\ socket' = [socket EXCEPT ![s] = "open"]
  /\ server' = "serving" /\ wire' = << >>
  /\ connected' = TRUE
  /\ buffer' = << >>
  /\ UNCHANGED <<running, client, timer, sent, received, promptClose>>

\* Mutant: only `end` makes the bridge disconnected.
OnErrorUnnoticed(s) ==
  /\ \/ socket[s] = "connecting" /\ server # "listening"
     \/ socket[s] = "open" /\ server # "serving"
  /\ socket' = [socket EXCEPT ![s] = "closed"]
  /\ ScheduleReconnect
  /\ UNCHANGED <<running, client, connected, buffer, outside, received>>

\* Mutant: a connection that was refused is not tried again.
OnErrorGivingUp(s) ==
  /\ \/ socket[s] = "connecting" /\ server # "listening"
     \/ socket[s] = "open" /\ server # "serving"
  /\ socket' = [socket EXCEPT ![s] = "closed"]
  /\ connected' = FALSE
  /\ UNCHANGED <<running, client, timer, buffer, outside, received>>

\* A connection is refused or breaks: `error`, and at once `close`.
OnError(s) ==
  /\ \/ socket[s] = "connecting" /\ server # "listening"
     \/ socket[s] = "open" /\ server # "serving"
  /\ socket' = [socket EXCEPT ![s] = "closed"]
  /\ connected' = FALSE
  /\ ScheduleReconnect
  /\ UNCHANGED <<running, client, buffer, outside, received>>

OnEnd(s) ==
  /\ socket[s] = "open" /\ server # "serving" /\ wire = << >>
  /\ socket' = [socket EXCEPT ![s] = "closing"]
  /\ connected' = FALSE
  /\ ScheduleReconnect
  /\ UNCHANGED <<running, client, buffer, outside, received>>

\* The handler of `close`, whichever socket it was.
OnClose(s) ==
  /\ socket[s] = "closing"
  /\ socket' = [socket EXCEPT ![s] = "closed"]
  /\ connected' = FALSE
  /\ ScheduleReconnect
  /\ UNCHANGED <<running, client, buffer, outside, received>>

\* Mutant: the socket there is is forgotten, not destroyed.
TimerWithoutDestroy ==
  /\ timer
  /\ promptClose => socket[client] # "closing"
  /\ timer' = FALSE /\ connected' = FALSE /\ buffer' = << >>
  /\ \E s \in Sockets :
       /\ Free(s)
       /\ client' = s
       /\ socket' = [socket EXCEPT ![s] = "connecting"]
  /\ UNCHANGED <<running, outside, received>>

\* The timer: _disconnect, then _connect.
OnTimer ==
  /\ timer
  /\ promptClose => socket[client] # "closing"
  /\ timer' = FALSE /\ connected' = FALSE /\ buffer' = << >>
  /\ \E s \in Sockets :
       /\ Free(s)
       /\ client' = s
       /\ socket' = [Destroyed EXCEPT ![s] = "connecting"]
  /\ UNCHANGED <<running, outside, received>>

BridgeStop ==
  /\ running
  /\ running' = FALSE /\ timer' = FALSE
  /\ connected' = FALSE /\ buffer' = << >>
  /\ client' = 0
  /\ socket' = Destroyed
  /\ UNCHANGED <<outside, received>>

\* Mutant: the line is not taken out of the buffer.
FeedKeepingLine(state, piece) ==
  LET line == Append(state.buffer, piece) IN
  [buffer |-> line,
   lines |-> IF piece.part = Parts(piece.msg) /\ line[1].part = 1
             THEN Append(state.lines, line) ELSE state.lines]

\* One more piece: with the last of a message its line ends.  A line that is only the end
\* of a message does not parse and is dropped; the worst is supposed of the others.
Feed(state, piece) ==
  LET line == Append(state.buffer, piece) IN
  IF piece.part # Parts(piece.msg) THEN [state EXCEPT !.buffer = line]
  ELSE [buffer |-> << >>,
        lines |-> IF line[1].part = 1 THEN Append(state.lines, line) ELSE state.lines]

\* Mutant: an overlong line is kept.
KeptWhole(line) == line

\* An unfinished line that has grown too long is dropped.
Kept(line) == IF Len(line) > MaxBuffer THEN << >> ELSE line

\* The loop of _onData: what is left in the buffer, and the lines found, after each piece.
Fed(start, pieces) ==
  LET fed[i \in 0..Len(pieces)] == IF i = 0 THEN start ELSE Feed(fed[i - 1], pieces[i])
  IN  fed

\* _onData: a chunk is some of what is in the pipe.
OnData(s) ==
  /\ socket[s] = "open" /\ wire # << >>
  /\ \E n \in 1..Len(wire) :
       LET fed == Fed([buffer |-> buffer, lines |-> << >>], wire)[n]
       IN  /\ buffer' = Kept(fed.buffer)
           /\ received' = received \o fed.lines
           /\ wire' = SubSeq(wire, n + 1, Len(wire))
  /\ UNCHANGED <<running, client, connected, timer, socket, server, sent, promptClose>>

Bridge(s) == OnConnect(s) \/ OnError(s) \/ OnEnd(s) \/ OnClose(s) \/ OnData(s)

-----------------------------------------------------------------------------
(* The other end *)

ServerListen ==
  /\ server = "down"
  /\ server' = "listening"
  /\ UNCHANGED <<wire, sent>>

ServerWrite ==
  /\ server = "serving" /\ sent < MaxMessages /\ Len(wire) < MaxWire
  /\ sent' = sent + 1
  /\ wire' = wire \o Pieces(sent + 1)
  /\ UNCHANGED server

\* It goes away; of what is not read yet any part may be lost.
ServerBreak ==
  /\ server # "down"
  /\ server' = "down"
  /\ \E kept \in 0..Len(wire) : wire' = SubSeq(wire, 1, kept)
  /\ UNCHANGED sent

\* It finds its client gone and waits for another.
ServerNotices ==
  /\ server = "serving" /\ \A s \in Sockets : socket[s] # "open"
  /\ server' = "listening" /\ wire' = << >>
  /\ UNCHANGED sent

bridgeAlone == <<running, client, connected, buffer, timer, socket, received, promptClose>>

Notices == ServerNotices /\ UNCHANGED bridgeAlone

Server == (ServerListen \/ ServerWrite \/ ServerBreak \/ ServerNotices) /\ UNCHANGED bridgeAlone

-----------------------------------------------------------------------------

\* No socket but the client's is connecting or open, however late the others close.
OneSocket ==
  \A s \in Sockets : socket[s] \in {"connecting", "open"} => s = client

\* "connected" is never said of a connection that is not open; and an open connection is
\* said to be connected, unless the `close` of an older socket came late (`close` does
\* not ask whose it is).
ConnectedIsTrue ==
  /\ connected => client # 0 /\ socket[client] = "open"
  /\ promptClose /\ client # 0 /\ socket[client] = "open" => connected

\* After stop nothing is started again.
StoppedForGood == ~running => client = 0 /\ ~timer /\ ~connected

\* The bridge with the pipe is a channel of messages.  A line that is not a whole message
\* counts as number 0, which no channel delivers.
WholeMessages == [i \in DOMAIN received |->
                    IF received[i] = Pieces(received[i][1].msg) THEN received[i][1].msg ELSE 0]
Channel == INSTANCE MessageChannel WITH received <- WholeMessages

=============================================================================
