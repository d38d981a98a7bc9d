--------------------------- MODULE ActionSubscriber --------------------------
(***************************************************************************)
(* The reader of the action pipe (actuator/src/ipc_action_subscriber.cpp): *)
(* a thread connects to the AI engine's pipe, cuts the byte stream into    *)
(* NDJSON lines and queues the commands; the main thread pops them, and    *)
(* calls Stop twice at the end, once itself and once in the destructor.    *)
(* Both threads run Disconnect, on a handle and a buffer with no lock.     *)
(* m_pipeHandle is a plain variable: where a line tests it and then uses   *)
(* it, a build may read it once or twice, and both outcomes are possible.  *)
(*                                                                         *)
(* The pipe (external) carries messages 1, 2, 3..., each in two pieces, a  *)
(* "head" and a "tail" with the newline, so that a read or a broken        *)
(* connection may cut it.  A read of several pieces is as many reads.      *)
(* A handle is the number of the connection it was opened for; 0 stands    *)
(* for INVALID_HANDLE_VALUE.                                               *)
(***************************************************************************)
EXTENDS Naturals, Sequences

CONSTANTS
  max_queue_size,
  Malformed,          \* the messages that are JSON but no ActionCommand
  MaxMessages,        \* bounds on what the AI engine does in a run
  MaxConnections

ASSUME SubscriberAssumption ==
  /\ max_queue_size \in Nat
  /\ MaxMessages \in Nat /\ MaxConnections \in Nat
  /\ Malformed \subseteq 1..MaxMessages

VARIABLES
  pc,                 \* the places of the two threads
  m_running,
  m_connected,
  m_pipeHandle,
  m_ndjson,           \* the pieces of the line not yet ended
  line,               \* the line just ended, a command to queue
  m_commandQueue,
  reconnect_count,    \* m_stats
  wasConnected,       \* Disconnect's local, of each thread, FALSE outside
  tested,             \* the handle its test has read, until it is closed
  popped,             \* history: the commands TryPopCommand has handed out
  stops,              \* the calls of Stop
  server,             \* external: the AI engine's end of the pipe
  wire,               \* external: the pieces written and not yet read
  sent,               \* external: the number of messages written
  accepted,           \* external: the number of connections there have been
  opened,             \* external: the handles open in this process
  closeCancels        \* external: a CloseHandle ends a read pending on the handle

pipe == <<server, wire, sent, accepted>>
vars == <<pc, m_running, m_connected, m_pipeHandle, m_ndjson, line, m_commandQueue,
          reconnect_count, wasConnected, tested, popped, stops, pipe, opened, closeCancels>>

Threads == {"reader", "main"}
Disconnecting == {"check", "close", "invalidate", "count"}   \* after m_connected.exchange
Piece == [msg : 1..MaxMessages, part : {"head", "tail"}]

SubscriberTypeOK ==
  /\ pc \in [Threads -> {"top", "enter", "connect", "connected", "read", "reading", "push",
                         "exit", "run", "join", "stopped", "disconnect"} \cup Disconnecting]
  /\ m_running \in BOOLEAN /\ m_connected \in BOOLEAN
  /\ m_pipeHandle \in 0..accepted
  /\ m_ndjson \in Seq(Piece) /\ line \in Seq(Piece) /\ wire \in Seq(Piece)
  /\ m_commandQueue \in Seq(Seq(Piece)) /\ Len(m_commandQueue) <= max_queue_size
  /\ popped \in Seq(Seq(Piece))
  /\ reconnect_count \in Nat
  /\ wasConnected \in [Threads -> BOOLEAN]
  /\ tested \in [Threads -> 0..accepted]
  /\ stops \in 0..2
  /\ server \in {"down", "listening", "serving"}
  /\ sent \in 0..MaxMessages /\ accepted \in Nat
  /\ opened \subseteq 1..accepted
  /\ closeCancels \in BOOLEAN

\* As Start leaves it.
Init ==
  /\ pc = [self \in Threads |-> IF self = "reader" THEN "top" ELSE "run"]
  /\ m_running = TRUE /\ m_connected = FALSE /\ m_pipeHandle = 0
  /\ m_ndjson = << >> /\ line = << >>
  /\ m_commandQueue = << >> /\ popped = << >>
  /\ reconnect_count = 0
  /\ wasConnected = [self \in Threads |-> FALSE]
  /\ tested = [self \in Threads |-> 0]
  /\ stops = 0
  /\ server = "down" /\ wire = << >> /\ sent = 0 /\ accepted = 0
  /\ opened = {}
  /\ closeCancels \in BOOLEAN

Goto(self, place) == pc' = [pc EXCEPT ![self] = place]

-----------------------------------------------------------------------------
(* Disconnect, by either thread *)

queueVars == <<m_ndjson, line, m_commandQueue, popped>>
restVars == <<m_running, stops, pipe, closeCancels>>

\* m_connected.exchange(false)
ExchangeConnected(self) ==
  /\ pc[self] = "disconnect"
  /\ wasConnected' = [wasConnected EXCEPT ![self] = m_connected]
  /\ m_connected' = FALSE
  /\ Goto(self, "check")
  /\ UNCHANGED <<m_pipeHandle, tested, reconnect_count, opened, queueVars, restVars>>

CheckHandle(self) ==
  /\ pc[self] = "check"
  /\ IF m_pipeHandle # 0
     THEN Goto(self, "close") /\ tested' = [tested EXCEPT ![self] = m_pipeHandle]
     ELSE Goto(self, "count") /\ UNCHANGED tested
  /\ UNCHANGED <<m_connected, m_pipeHandle, wasConnected, reconnect_count, opened, queueVars,
                 restVars>>

\* CloseHandle, of the handle tested or of what m_pipeHandle holds by now.  It ends a read
\* pending on the handle or waits for it: which of the two is the system's choice.
CloseHandle(self) ==
  /\ pc[self] = "close"
  /\ \E h \in {tested[self], m_pipeHandle} :
       /\ closeCancels \/ pc["reader"] # "reading" \/ h # accepted \/ h \notin opened
       /\ opened' = opened \ {h}
  /\ tested' = [tested EXCEPT ![self] = 0]
  /\ Goto(self, "invalidate")
  /\ UNCHANGED <<m_connected, m_pipeHandle, wasConnected, reconnect_count, queueVars, restVars>>

InvalidateHandle(self) ==
  /\ pc[self] = "invalidate"
  /\ m_pipeHandle' = 0
  /\ Goto(self, "count")
  /\ UNCHANGED <<m_connected, wasConnected, tested, reconnect_count, opened, queueVars, restVars>>

\* Mutant: idle disconnects are counted too.
CountEveryDisconnect(self) ==
  /\ pc[self] = "count"
  /\ m_ndjson' = << >>
  /\ reconnect_count' = reconnect_count + 1
  /\ wasConnected' = [wasConnected EXCEPT ![self] = FALSE]
  /\ Goto(self, IF self = "reader" THEN "top" ELSE "join")
  /\ UNCHANGED <<m_connected, m_pipeHandle, tested, opened, line, m_commandQueue, popped, restVars>>

CountLoss(self) ==
  /\ pc[self] = "count"
  /\ m_ndjson' = << >>
  /\ reconnect_count' = reconnect_count + (IF wasConnected[self] THEN 1 ELSE 0)
  /\ wasConnected' = [wasConnected EXCEPT ![self] = FALSE]
  /\ Goto(self, IF self = "reader" THEN "top" ELSE "join")
  /\ UNCHANGED <<m_connected, m_pipeHandle, tested, opened, line, m_commandQueue, popped, restVars>>

Disconnect(self) ==
  \/ ExchangeConnected(self) \/ CheckHandle(self) \/ CloseHandle(self)
  \/ InvalidateHandle(self) \/ CountLoss(self)

-----------------------------------------------------------------------------
(* The reader: ReadLoop *)

\* Mutant: the loop does not look at m_running.
ReadLoopForEver ==
  /\ pc["reader"] = "top"
  /\ Goto("reader", "enter")
  /\ UNCHANGED <<m_connected, m_pipeHandle, wasConnected, tested, reconnect_count, opened,
                 queueVars, restVars>>

ReadLoop ==
  /\ pc["reader"] = "top"
  /\ Goto("reader", IF m_running THEN "enter" ELSE "exit")
  /\ UNCHANGED <<m_connected, m_pipeHandle, wasConnected, tested, reconnect_count, opened,
                 queueVars, restVars>>

\* The second test of the loop: Stop may have come since the first.
TestConnected ==
  /\ pc["reader"] = "enter"
  /\ Goto("reader", IF m_connected THEN "read" ELSE "connect")
  /\ UNCHANGED <<m_connected, m_pipeHandle, wasConnected, tested, reconnect_count, opened,
                 queueVars, restVars>>

\* Mutant: the reader gives up when there is no pipe yet.
ConnectOrGiveUp ==
  /\ pc["reader"] = "connect"
  /\ IF server = "listening"
     THEN /\ accepted' = accepted + 1 /\ server' = "serving" /\ wire' = << >>
          /\ m_pipeHandle' = accepted + 1
          /\ opened' = opened \cup {accepted + 1}
          /\ Goto("reader", "connected")
     ELSE /\ m_pipeHandle' = 0
          /\ Goto("reader", "exit")
          /\ UNCHANGED <<accepted, server, wire, opened>>
  /\ UNCHANGED <<m_running, m_connected, wasConnected, tested, reconnect_count, queueVars, stops,
                 sent, closeCancels>>

\* Connect: CreateFile.  When there is no pipe to open, sleep and try again.
Connect ==
  /\ pc["reader"] = "connect"
  /\ IF server = "listening"
     THEN /\ accepted' = accepted + 1 /\ server' = "serving" /\ wire' = << >>
          /\ m_pipeHandle' = accepted + 1
          /\ opened' = opened \cup {accepted + 1}
          /\ Goto("reader", "connected")
     ELSE /\ m_pipeHandle' = 0
          /\ Goto("reader", "top")
          /\ UNCHANGED <<accepted, server, wire, opened>>
  /\ UNCHANGED <<m_running, m_connected, wasConnected, tested, reconnect_count, queueVars, stops,
                 sent, closeCancels>>

\* Connect, once the pipe is open.
Connected ==
  /\ pc["reader"] = "connected"
  /\ m_connected' = TRUE
  /\ m_ndjson' = << >>
  /\ Goto("reader", "read")
  /\ UNCHANGED <<m_pipeHandle, wasConnected, tested, reconnect_count, opened, line,
                 m_commandQueue, popped, restVars>>

\* Connect, when its test reads m_pipeHandle once more and Stop has closed it meanwhile.
ConnectionGone ==
  /\ pc["reader"] = "connected" /\ m_pipeHandle = 0
  /\ Goto("reader", "top")
  /\ UNCHANGED <<m_connected, m_pipeHandle, wasConnected, tested, reconnect_count, opened,
                 queueVars, restVars>>

\* ReadFile(m_pipeHandle) is called; it fails at once on a handle that is not open.
BeginRead ==
  /\ pc["reader"] = "read"
  /\ Goto("reader", IF m_pipeHandle \in opened THEN "reading" ELSE "disconnect")
  /\ UNCHANGED <<m_connected, m_pipeHandle, wasConnected, tested, reconnect_count, opened,
                 queueVars, restVars>>

Silent == pc["reader"] = "reading" /\ accepted \in opened /\ wire = << >> /\ server = "serving"

\* ReadFile fails: the AI engine's end is gone, or the handle was closed meanwhile.
ReadFails ==
  /\ pc["reader"] = "reading"
  /\ accepted \notin opened \/ (wire = << >> /\ server # "serving")
  /\ Goto("reader", "disconnect")
  /\ UNCHANGED <<m_connected, m_pipeHandle, wasConnected, tested, reconnect_count, opened,
                 queueVars, restVars>>

\* Mutant: a line that has ended is not erased from the buffer.
FeedKeepingLine(piece) ==
  /\ m_ndjson' = Append(m_ndjson, piece)
  /\ IF piece.part = "tail" /\ m_ndjson # << >>
     THEN Goto("reader", "push") /\ line' = Append(m_ndjson, piece)
     ELSE Goto("reader", "top") /\ UNCHANGED line

\* NdjsonReader::Feed of one more piece.  A line that is only the end of a message does
\* not parse and is dropped; the worst is supposed of the others.
Feed(piece) ==
  IF piece.part = "head"
  THEN /\ m_ndjson' = Append(m_ndjson, piece)
       /\ Goto("reader", "top")
       /\ UNCHANGED line
  ELSE /\ m_ndjson' = << >>
       /\ IF m_ndjson = << >> THEN Goto("reader", "top") /\ UNCHANGED line
          ELSE Goto("reader", "push") /\ line' = Append(m_ndjson, piece)

ReadPiece ==
  /\ pc["reader"] = "reading" /\ accepted \in opened /\ wire # << >>
  /\ wire' = Tail(wire)
  /\ Feed(Head(wire))
  /\ UNCHANGED <<m_running, m_connected, m_pipeHandle, wasConnected, tested, reconnect_count,
                 opened, m_commandQueue, popped, stops, server, sent, accepted, closeCancels>>

\* Mutant: the queue has no cap.
PushCommandUncapped ==
  /\ pc["reader"] = "push"
  /\ m_commandQueue' =
       IF line[Len(line)].msg \notin Malformed THEN Append(m_commandQueue, line) ELSE m_commandQueue
  /\ line' = << >>
  /\ Goto("reader", "top")
  /\ UNCHANGED <<m_connected, m_pipeHandle, wasConnected, tested, reconnect_count, opened,
                 m_ndjson, popped, restVars>>

\* The line is queued as a command, unless it is none or the queue is full.
PushCommand ==
  /\ pc["reader"] = "push"
  /\ m_commandQueue' =
       IF line[Len(line)].msg \notin Malformed /\ Len(m_commandQueue) < max_queue_size
       THEN Append(m_commandQueue, line) ELSE m_commandQueue
  /\ line' = << >>
  /\ Goto("reader", "top")
  /\ UNCHANGED <<m_connected, m_pipeHandle, wasConnected, tested, reconnect_count, opened,
                 m_ndjson, popped, restVars>>

Reader ==
  \/ ReadLoop \/ TestConnected \/ Connect \/ Connected \/ ConnectionGone
  \/ BeginRead \/ ReadFails \/ ReadPiece \/ PushCommand \/ Disconnect("reader")

-----------------------------------------------------------------------------
(* The main thread *)

TryPopCommand ==
  /\ pc["main"] = "run" /\ m_commandQueue # << >>
  /\ popped' = Append(popped, Head(m_commandQueue))
  /\ m_commandQueue' = Tail(m_commandQueue)
  /\ UNCHANGED <<pc, m_connected, m_pipeHandle, wasConnected, tested, reconnect_count, opened,
                 m_ndjson, line, restVars>>

\* Stop, called by main() and, once it has returned, by the destructor.
Stop ==
  /\ pc["main"] \in {"run", "stopped"} /\ stops < 2
  /\ stops' = stops + 1
  /\ m_running' = FALSE
  /\ Goto("main", "disconnect")
  /\ UNCHANGED <<m_connected, m_pipeHandle, wasConnected, tested, reconnect_count, opened,
                 queueVars, pipe, closeCancels>>

\* m_readThread.join()
Join ==
  /\ pc["main"] = "join" /\ pc["reader"] = "exit"
  /\ Goto("main", "stopped")
  /\ UNCHANGED <<m_connected, m_pipeHandle, wasConnected, tested, reconnect_count, opened,
                 queueVars, restVars>>

Main == TryPopCommand \/ Stop \/ Disconnect("main") \/ Join

-----------------------------------------------------------------------------
(* The AI engine's end of the pipe *)

Listen ==
  /\ server = "down" /\ accepted < MaxConnections
  /\ server' = "listening"
  /\ UNCHANGED <<wire, sent, accepted>>

Write ==
  /\ server = "serving" /\ sent < MaxMessages
  /\ sent' = sent + 1
  /\ wire' = wire \o <<[msg |-> sent + 1, part |-> "head"], [msg |-> sent + 1, part |-> "tail"]>>
  /\ UNCHANGED <<server, accepted>>

\* It goes away.  Of what the reader has not read yet any part may be lost.
Break ==
  /\ server # "down"
  /\ server' = "down"
  /\ \E kept \in 0..Len(wire) : wire' = SubSeq(wire, 1, kept)
  /\ UNCHANGED <<sent, accepted>>

AiEngine ==
  /\ Listen \/ Write \/ Break
  /\ UNCHANGED <<pc, m_running, m_connected, m_pipeHandle, wasConnected, tested, reconnect_count,
                 stops, opened, queueVars, closeCancels>>

Next == Reader \/ Main \/ AiEngine

\* Fairness: both threads run; when Stop is called first, and what the AI engine does,
\* is left open.
Fairness ==
  /\ WF_vars(Reader)
  /\ WF_vars(Disconnect("main") \/ Join \/ (stops > 0 /\ Stop))

Spec == Init /\ [][Next]_vars /\ Fairness

-----------------------------------------------------------------------------

One(condition) == IF condition THEN 1 ELSE 0

\* "Count only real connection losses, not idle disconnects"
\* (actuator/src/ipc_action_subscriber.cpp:131): however the two threads' Disconnects
\* overlap, every connection is counted once, when it has ended.  The exception is one that
\* Stop closes before Connect has taken note of it.
Counted ==
  reconnect_count
    + One(pc["reader"] = "connected") + One(m_connected)
    + One(pc["reader"] \in Disconnecting /\ wasConnected["reader"])
    + One(pc["main"] \in Disconnecting /\ wasConnected["main"])

LossesCountedOnce ==
  \/ accepted = Counted
  \/ accepted = Counted + 1 /\ ~m_running /\ m_pipeHandle = 0 /\ pc["reader"] \in {"top", "exit"}

\* While the service runs, however often connections break, the only handle the process
\* has open is m_pipeHandle, and none is closed twice.  A Stop that comes between the two
\* tests of the reader's loop may lose one: it closes the old handle while the reader opens
\* another (Connect, Disconnect).  It never loses two, and when the second Stop has returned
\* m_pipeHandle is invalid.
OneHandle ==
  /\ m_running =>
       /\ opened \subseteq {m_pipeHandle}
       /\ \A self \in Threads : pc[self] = "close" => tested[self] \in opened
  /\ \A h1, h2 \in opened \ {m_pipeHandle} : h1 = h2
  /\ stops = 2 /\ pc["main"] = "stopped" => m_pipeHandle = 0

\* The commands handed to the main loop and those waiting are messages of the AI engine,
\* each from its head to its tail, in the order sent and none twice, wherever reads and
\* broken connections cut the stream and whatever the full queue dropped.
Delivered == popped \o m_commandQueue

CommandsAreMessages ==
  /\ \A i \in DOMAIN Delivered :
       \E n \in 1..sent :
         Delivered[i] = <<[msg |-> n, part |-> "head"], [msg |-> n, part |-> "tail"]>>
  /\ \A i, j \in DOMAIN Delivered : i < j => Delivered[i][1].msg < Delivered[j][1].msg

\* Stop returns, each time, unless the reader waits on a connection on which the AI
\* engine neither writes nor hangs up (IpcActionSubscriber::Stop).
StopWaitsOnlyForSilence == (stops > 0) ~> (pc["main"] = "stopped" \/ Silent)

\* While the service runs, an AI engine that listens is connected to, also after any
\* number of broken connections.
Reconnects == (m_running /\ server = "listening") ~> (~m_running \/ server # "listening")

\* "Press Ctrl+C to stop the Actuator service" (actuator/src/main.cpp:64): once main()
\* has called Stop, it returns.
StopReturns == (stops = 1) ~> (pc["main"] = "stopped")

-----------------------------------------------------------------------------
(* What makes the first two inductive *)

\* While the service runs, only the reader uses the handle: it is open from Connect to the
\* reader's close.
RunningInv ==
  m_running =>
    /\ pc["main"] = "run"
    /\ pc["reader"] \in {"connected", "read", "reading", "push"} => m_pipeHandle # 0
    /\ pc["reader"] \in {"read", "reading", "push"} => m_connected
    /\ pc["reader"] \in {"top", "enter"} => (m_connected <=> m_pipeHandle # 0)
    /\ pc["reader"] \in Disconnecting => ~m_connected
    /\ pc["reader"] \in {"connect", "count"} => m_pipeHandle = 0
    /\ pc["reader"] = "close" => m_pipeHandle # 0 /\ tested["reader"] = m_pipeHandle
    /\ pc["reader"] = "invalidate" => opened = {}
    /\ pc["reader"] # "invalidate" => m_pipeHandle \in opened \cup {0}

\* A reader that is past the loop's test when Stop comes connects once more and never
\* again.  Until then no handle is lost; when it has, two may be open, of which either
\* thread's Disconnect still closes one.
StoppingInv ==
  /\ pc["reader"] \in {"enter", "connect"} =>
       /\ opened \subseteq {m_pipeHandle}
       /\ pc["main"] = "close" => tested["main"] = m_pipeHandle
       /\ pc["main"] = "invalidate" => opened = {}
  /\ \A h1, h2 \in opened :
       h1 # h2 =>
         /\ m_pipeHandle \in {h1, h2}
         /\ \A self \in Threads :
              /\ pc[self] # "invalidate"
              /\ pc[self] = "close" => tested[self] \in opened

\* When the first Stop has returned the reader is gone.
StoppedInv ==
  /\ pc["main"] = "run" => stops = 0
  /\ pc["reader"] = "exit" => ~m_running
  /\ pc["main"] = "stopped" \/ stops = 2 => pc["reader"] = "exit"
  /\ stops = 2 /\ pc["main"] \in {"count", "join", "stopped"} => m_pipeHandle = 0

HandleInv ==
  /\ pc["reader"] \in {"connect", "connected"} => ~m_connected
  /\ RunningInv /\ StoppingInv /\ StoppedInv /\ OneHandle

=============================================================================
