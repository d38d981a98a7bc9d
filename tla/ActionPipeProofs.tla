--------------------------- MODULE ActionPipeProofs --------------------------
(***************************************************************************)
(* Proofs about ActionPipe: the AI engine's server keeps its instances of  *)
(* the pipe, and, with what it has not written yet counted as written, it  *)
(* is the AI engine of ActionSubscriber.                                   *)
(***************************************************************************)
EXTENDS ActionPipe, ActionSubscriberProofs

\* Where the server is, there are the pipe and its handle; nothing is left to write but
\* while publish writes, and publish has a client then.
ServerInv ==
  /\ acceptor \in {"top", "waiting", "taken", "serving", "disconnect", "ended"}
  /\ engine \in {"run", "writing", "disconnect", "join", "stopped"}
  /\ running \in BOOLEAN
  /\ created \in Nat /\ accepted \in Nat /\ accepted <= created
  /\ handle \in {0, created}
  /\ handle # 0 => acceptor \in {"serving", "disconnect"}
  /\ acceptor \in {"waiting", "taken", "serving", "disconnect"} => created # 0
  /\ handle # 0 \/ acceptor = "taken" => server = "serving"
  /\ server = "listening" => acceptor = "waiting" /\ accepted < created
  /\ engine = "stopped" => acceptor = "ended"
  /\ engine # "run" /\ engine # "writing" => ~running
  /\ engine # "writing" => unwritten = << >>
  /\ unwritten \in Seq(Piece)
  /\ InstancesKept

PathInv == SubscriberTypeOK /\ ServerInv

-----------------------------------------------------------------------------
(* The types *)

\* What the engine's threads do to the pipe keeps the type of what they share with the
\* actuator.
LEMMA PathTypeStep ==
  ASSUME SubscriberTypeOK, ServerInv, [PathNext]_pathVars
  PROVE  SubscriberTypeOK'
<1>0. << >> \in Seq(Piece)
  OBVIOUS
<1>1. CASE (Reader \/ Main) /\ UNCHANGED engineVars
  BY <1>1, TypeStep DEF Next
<1>2. ASSUME UNCHANGED actuatorVars, wire' \in Seq(Piece), sent' \in 0..MaxMessages,
             server' \in {"down", "listening", "serving"}
      PROVE  SubscriberTypeOK'
  BY <1>2 DEF SubscriberTypeOK, actuatorVars, queueVars
<1>3. CASE Acceptor
  <2>1. UNCHANGED <<actuatorVars, sent>>
    BY <1>3 DEF Acceptor, LeaveLoop, CreateInstance, ClientComes, ShutdownSeen, ShareHandle,
                Serve, DisconnectClient
  <2>2. wire' \in {wire, << >>} /\ server' \in {server, "down", "listening"}
    BY <1>3 DEF Acceptor, LeaveLoop, CreateInstance, ClientComes, ShutdownSeen, ShareHandle,
                Serve, DisconnectClient, CleanupHandle
  <2> QED
    BY <1>0, <1>2, <2>1, <2>2 DEF SubscriberTypeOK
<1>4. CASE Engine
  <2>1. UNCHANGED actuatorVars /\ server' \in {server, "down"}
    BY <1>4 DEF Engine, Publish, WritePiece, Written, WriteFails, StopServer, StopDisconnects,
                StopJoins, CleanupHandle
  <2>2. sent' = sent \/ (sent' = sent + 1 /\ sent < MaxMessages)
    BY <1>4 DEF Engine, Publish, WritePiece, Written, WriteFails, StopServer, StopDisconnects,
                StopJoins
  <2>3. wire' \in {wire, << >>} \/ (unwritten # << >> /\ wire' = Append(wire, Head(unwritten)))
    BY <1>4 DEF Engine, Publish, WritePiece, Written, WriteFails, StopServer, StopDisconnects,
                StopJoins, CleanupHandle
  <2>4. wire' \in Seq(Piece)
    <3>1. wire \in Seq(Piece) /\ unwritten \in Seq(Piece)
      BY DEF SubscriberTypeOK, ServerInv
    <3>2. CASE unwritten # << >> /\ wire' = Append(wire, Head(unwritten))
      <4>1. Head(unwritten) \in Piece
        BY <3>1, <3>2
      <4> QED
        BY <3>1, <3>2, <4>1
    <3> QED
      BY <1>0, <2>3, <3>1, <3>2
  <2>5. sent' \in 0..MaxMessages
    BY <2>2, SubscriberAssumption DEF SubscriberTypeOK
  <2> QED
    BY <1>2, <2>1, <2>4, <2>5 DEF SubscriberTypeOK
<1>5. CASE Killed
  <2>1. UNCHANGED actuatorVars /\ UNCHANGED <<wire, sent>> /\ server' = "down"
    BY <1>5 DEF Killed
  <2>2. wire \in Seq(Piece) /\ sent \in 0..MaxMessages
    BY DEF SubscriberTypeOK
  <2> QED
    BY <1>2, <2>1, <2>2
<1>6. CASE UNCHANGED pathVars
  BY <1>6, TypeStep DEF pathVars
<1> QED
  BY <1>1, <1>3, <1>4, <1>5, <1>6 DEF PathNext

-----------------------------------------------------------------------------
(* The server's invariant *)

LEMMA ServerInit == PathInit => ServerInv
  BY DEF PathInit, Init, Started, ServerInv, InstancesKept

\* The two threads of the actuator disturb it only by connecting.
LEMMA ActuatorKeepsServer ==
  ASSUME ServerInv, Reader \/ Main, UNCHANGED engineVars
  PROVE  ServerInv'
<1> USE DEF engineVars, queueVars, restVars, pipe
<1>1. \/ UNCHANGED <<server, accepted>>
      \/ server = "listening" /\ server' = "serving" /\ accepted' = accepted + 1
  BY DEF Reader, Main, ReadLoop, TestConnected, Connect, Connected, ConnectionGone, BeginRead,
         ReadFails, ReadPiece, PushCommand, TryPopCommand, Stop, Join, Disconnect,
         ExchangeConnected, CheckHandle, CloseHandle, InvalidateHandle, CountLoss
<1> QED
  BY <1>1 DEF ServerInv, InstancesKept

\* Closing the shared handle closes the only instance, and the pipe.
LEMMA CleanupKeeps ==
  ASSUME ServerInv, CleanupHandle, UNCHANGED <<created, accepted, running>>,
         engine' \in {"run", "join", engine}, engine' # "writing", unwritten' = << >>,
         engine' = "join" => ~running,
         acceptor' = acceptor \/ (acceptor = "disconnect" /\ acceptor' = "top")
  PROVE  ServerInv'
<1> USE DEF ServerInv, InstancesKept, CleanupHandle
<1>1. CASE handle = 0
  BY <1>1
<1>2. CASE handle # 0
  BY <1>2
<1> QED
  BY <1>1, <1>2

LEMMA AcceptorKeepsServer ==
  ASSUME ServerInv, Acceptor
  PROVE  ServerInv'
<1> USE DEF ServerInv, InstancesKept, LockFree
<1>0. UNCHANGED accepted
  BY DEF Acceptor, actuatorVars
<1>1. CASE LeaveLoop
  BY <1>0, <1>1 DEF LeaveLoop
<1>2. CASE CreateInstance
  BY <1>0, <1>2 DEF CreateInstance
<1>3. CASE ClientComes
  BY <1>0, <1>3 DEF ClientComes
<1>4. CASE ShutdownSeen
  BY <1>0, <1>4 DEF ShutdownSeen
<1>5. CASE ShareHandle
  BY <1>0, <1>5 DEF ShareHandle
<1>6. CASE Serve
  BY <1>0, <1>6 DEF Serve
<1>7. CASE DisconnectClient
  BY <1>0, <1>7, CleanupKeeps DEF DisconnectClient
<1> QED
  BY <1>1, <1>2, <1>3, <1>4, <1>5, <1>6, <1>7 DEF Acceptor

LEMMA EngineKeepsServer ==
  ASSUME ServerInv, SubscriberTypeOK, Engine
  PROVE  ServerInv'
<1> USE DEF ServerInv, InstancesKept
<1>0. UNCHANGED accepted
  BY DEF Engine, actuatorVars
<1>1. CASE Publish
  <2>1. unwritten' \in Seq(Piece)
    <3>1. sent + 1 \in 1..MaxMessages
      BY <1>1, SubscriberAssumption DEF Publish, SubscriberTypeOK
    <3>2. /\ [msg |-> sent + 1, part |-> "head"] \in Piece
          /\ [msg |-> sent + 1, part |-> "tail"] \in Piece
      BY <3>1 DEF Piece
    <3> QED
      BY <1>1, <3>2 DEF Publish
  <2> QED
    BY <1>0, <1>1, <2>1 DEF Publish
<1>2. CASE WritePiece
  BY <1>0, <1>2 DEF WritePiece
<1>3. CASE Written
  BY <1>0, <1>3 DEF Written
<1>4. CASE WriteFails
  BY <1>0, <1>4, CleanupKeeps DEF WriteFails
<1>5. CASE StopServer
  BY <1>0, <1>5 DEF StopServer
<1>6. CASE StopDisconnects
  BY <1>0, <1>6, CleanupKeeps DEF StopDisconnects
<1>7. CASE StopJoins
  BY <1>0, <1>7 DEF StopJoins
<1> QED
  BY <1>1, <1>2, <1>3, <1>4, <1>5, <1>6, <1>7 DEF Engine

LEMMA ServerStep ==
  ASSUME SubscriberTypeOK, ServerInv, [PathNext]_pathVars
  PROVE  ServerInv'
<1>1. CASE (Reader \/ Main) /\ UNCHANGED engineVars
  BY <1>1, ActuatorKeepsServer
<1>2. CASE Killed
  <2>1. << >> \in Seq(Piece)
    OBVIOUS
  <2> QED
    BY <1>2, <2>1 DEF Killed, actuatorVars, ServerInv, InstancesKept
<1>3. CASE UNCHANGED pathVars
  BY <1>3 DEF pathVars, vars, pipe, engineVars, ServerInv, InstancesKept
<1> QED
  BY <1>1, <1>2, <1>3, AcceptorKeepsServer, EngineKeepsServer DEF PathNext

LEMMA PathInvariant == PathSpec => []PathInv
<1>1. PathInit => PathInv
  BY TypeInit, ServerInit DEF PathInit, PathInv
<1>2. PathInv /\ [PathNext]_pathVars => PathInv'
  BY PathTypeStep, ServerStep DEF PathInv
<1> QED
  BY <1>1, <1>2, PTL DEF PathSpec

\* For any number of connections and messages, wherever the engine is killed or a write is
\* cut: the open instances are the ones the server has in hand (_accept_loop, _disconnect,
\* stop).
THEOREM InstancesAreKept == PathSpec => []InstancesKept
<1>1. PathInv => InstancesKept
  BY DEF PathInv, ServerInv
<1> QED
  BY <1>1, PathInvariant, PTL

\* An instance is created by the accept thread only, as long as MaxConnections allows.
LEMMA CreatedStep ==
  ASSUME created <= MaxConnections, created \in Nat, [PathNext]_pathVars
  PROVE  created' <= MaxConnections
<1>1. created' = created \/ (created < MaxConnections /\ created' = created + 1)
  BY DEF PathNext, Acceptor, LeaveLoop, CreateInstance, ClientComes, ShutdownSeen, ShareHandle,
         Serve, DisconnectClient, Engine, Publish, WritePiece, Written, WriteFails, StopServer,
         StopDisconnects, StopJoins, Killed, pathVars, engineVars
<1> QED
  BY <1>1, SubscriberAssumption

\* The types of both ends, with the places at which the engine's main thread has a message
\* in hand (_accept_loop, publish, stop; ReadLoop, Stop).
THEOREM ActionPipeTypeCorrect == PathSpec => []ActionPipeTypeOK
<1>1. PathInit => created <= MaxConnections
  BY SubscriberAssumption DEF PathInit
<1>2. PathInv /\ created <= MaxConnections /\ [PathNext]_pathVars => (created <= MaxConnections)'
  BY CreatedStep DEF PathInv, ServerInv
<1>3. PathInv /\ created <= MaxConnections => ActionPipeTypeOK
  <2> SUFFICES ASSUME PathInv, created <= MaxConnections PROVE ActionPipeTypeOK
    OBVIOUS
  <2>1. created \in 0..MaxConnections /\ handle \in 0..created
    BY SubscriberAssumption DEF PathInv, ServerInv
  <2>2. instances \subseteq 1..created
    BY <2>1, SubscriberAssumption DEF PathInv, ServerInv, InstancesKept
  <2> QED
    BY <2>1, <2>2 DEF PathInv, ServerInv, ActionPipeTypeOK
<1> QED
  BY <1>1, <1>2, <1>3, PathInvariant, PTL DEF PathSpec

-----------------------------------------------------------------------------
(* The server is the AI engine the subscriber expects *)

\* The stream with what is still to be written.
stream == wire \o unwritten

LEMMA StreamOfNothing ==
  ASSUME NEW T, NEW s \in Seq(T)
  PROVE  s \o << >> = s /\ << >> \o s = s /\ << >> \o << >> = << >>
  BY ConcatProperties

\* A read takes the same piece off either stream.
LEMMA HeadOfStream ==
  ASSUME NEW T, NEW p \in Seq(T), NEW q \in Seq(T), p # << >>
  PROVE  p \o q # << >> /\ Head(p \o q) = Head(p) /\ Tail(p \o q) = Tail(p) \o q
<1>1. /\ p \o q \in Seq(T) /\ Len(p \o q) = Len(p) + Len(q)
      /\ Len(p) \in Nat \ {0} /\ Len(q) \in Nat
  BY ConcatProperties
<1>2. p \o q # << >> /\ Head(p \o q) = Head(p)
  BY <1>1, ConcatProperties
<1>3. /\ Tail(p) \in Seq(T) /\ Len(Tail(p)) = Len(p) - 1
      /\ \A i \in 1..Len(p) - 1 : Tail(p)[i] = p[i + 1]
  BY <1>1
<1>4. /\ Tail(p \o q) \in Seq(T) /\ Len(Tail(p \o q)) = Len(p) + Len(q) - 1
      /\ \A i \in 1..Len(p) + Len(q) - 1 : Tail(p \o q)[i] = (p \o q)[i + 1]
  BY <1>1, <1>2
<1>5. Tail(p) \o q \in Seq(T) /\ Len(Tail(p) \o q) = Len(p) + Len(q) - 1
  BY <1>1, <1>3, ConcatProperties
<1>6. \A i \in 1..Len(p) + Len(q) - 1 : Tail(p \o q)[i] = (Tail(p) \o q)[i]
  <2> TAKE i \in 1..Len(p) + Len(q) - 1
  <2>1. (p \o q)[i + 1] = IF i + 1 <= Len(p) THEN p[i + 1] ELSE q[i + 1 - Len(p)]
    BY <1>1, ConcatProperties
  <2>2. (Tail(p) \o q)[i] = IF i <= Len(p) - 1 THEN Tail(p)[i] ELSE q[i - (Len(p) - 1)]
    BY <1>1, <1>3, ConcatProperties
  <2> QED
    BY <1>1, <1>3, <1>4, <2>1, <2>2
<1> QED
  BY <1>1, <1>2, <1>4, <1>5, <1>6, SeqEqual

\* The two threads of the actuator cannot tell the streams apart.
LEMMA ActuatorRefines ==
  ASSUME PathInv, Reader \/ Main, UNCHANGED engineVars
  PROVE  [Pipe!Next]_(Pipe!vars)
<1> USE DEF Pipe!Next, Pipe!Reader, Pipe!Main, Pipe!pipe, Pipe!restVars, Pipe!queueVars,
            Pipe!Goto, Pipe!Disconnecting
<1>0. UNCHANGED unwritten /\ wire \in Seq(Piece) /\ unwritten \in Seq(Piece)
  BY DEF engineVars, PathInv, SubscriberTypeOK, ServerInv
<1>1. ASSUME UNCHANGED wire PROVE UNCHANGED stream
  BY <1>0, <1>1 DEF stream
<1>2. CASE Connect
  <2>1. CASE server = "listening"
    <3>1. unwritten = << >> /\ wire' = << >>
      BY <1>2, <2>1 DEF Connect, PathInv, ServerInv, InstancesKept
    <3>2. stream' = << >>
      BY <1>0, <3>1, StreamOfNothing DEF stream
    <3> QED
      BY <1>2, <2>1, <3>2 DEF Connect, Pipe!Connect, Goto, queueVars, stream
  <2>2. CASE server # "listening"
    <3>1. UNCHANGED stream
      BY <1>1, <1>2, <2>2 DEF Connect
    <3> QED
      BY <1>2, <2>2, <3>1 DEF Connect, Pipe!Connect, Goto, queueVars, stream
  <2> QED
    BY <2>1, <2>2
<1>3. CASE ReadPiece
  <2>1. stream # << >> /\ Head(stream) = Head(wire) /\ stream' = Tail(stream)
    BY <1>0, <1>3, HeadOfStream DEF ReadPiece, stream
  <2> QED
    BY <1>3, <2>1 DEF ReadPiece, Pipe!ReadPiece, Feed, Pipe!Feed, Goto, stream
<1>4. CASE ReadFails
  <2>1. UNCHANGED stream
    BY <1>1, <1>4 DEF ReadFails, restVars, pipe
  <2>2. wire = << >> /\ server # "serving" => stream = << >>
    BY <1>0, StreamOfNothing DEF stream, PathInv, ServerInv, InstancesKept
  <2> QED
    BY <1>4, <2>1, <2>2 DEF ReadFails, Pipe!ReadFails, Goto, queueVars, restVars, pipe, stream
<1>5. ASSUME NEW self \in Threads, Disconnect(self)
      PROVE  Pipe!Disconnect(self)
  <2>1. UNCHANGED stream
    BY <1>1, <1>5 DEF Disconnect, ExchangeConnected, CheckHandle, CloseHandle, InvalidateHandle,
                      CountLoss, restVars, pipe
  <2>2. ExchangeConnected(self) => Pipe!ExchangeConnected(self)
    BY <2>1 DEF ExchangeConnected, Pipe!ExchangeConnected, Goto, queueVars, restVars, pipe, stream
  <2>3. CheckHandle(self) => Pipe!CheckHandle(self)
    BY <2>1 DEF CheckHandle, Pipe!CheckHandle, Goto, queueVars, restVars, pipe, stream
  <2>4. CloseHandle(self) => Pipe!CloseHandle(self)
    BY <2>1 DEF CloseHandle, Pipe!CloseHandle, Goto, queueVars, restVars, pipe, stream
  <2>5. InvalidateHandle(self) => Pipe!InvalidateHandle(self)
    BY <2>1 DEF InvalidateHandle, Pipe!InvalidateHandle, Goto, queueVars, restVars, pipe, stream
  <2>6. CountLoss(self) => Pipe!CountLoss(self)
    BY <2>1 DEF CountLoss, Pipe!CountLoss, Goto, queueVars, restVars, pipe, stream
  <2> QED
    BY <1>5, <2>2, <2>3, <2>4, <2>5, <2>6 DEF Disconnect, Pipe!Disconnect
<1>6. CASE ReadLoop \/ TestConnected \/ Connected \/ ConnectionGone
  <2>1. UNCHANGED stream
    BY <1>1, <1>6 DEF ReadLoop, TestConnected, Connected, ConnectionGone, restVars, pipe
  <2>2. ReadLoop => Pipe!ReadLoop
    BY <2>1 DEF ReadLoop, Pipe!ReadLoop, Goto, queueVars, restVars, pipe, stream
  <2>3. TestConnected => Pipe!TestConnected
    BY <2>1 DEF TestConnected, Pipe!TestConnected, Goto, queueVars, restVars, pipe, stream
  <2>4. Connected => Pipe!Connected
    BY <2>1 DEF Connected, Pipe!Connected, Goto, queueVars, restVars, pipe, stream
  <2>5. ConnectionGone => Pipe!ConnectionGone
    BY <2>1 DEF ConnectionGone, Pipe!ConnectionGone, Goto, queueVars, restVars, pipe, stream
  <2> QED
    BY <1>6, <2>2, <2>3, <2>4, <2>5
<1>7. CASE BeginRead \/ PushCommand
  <2>1. UNCHANGED stream
    BY <1>1, <1>7 DEF BeginRead, PushCommand, restVars, pipe
  <2>2. BeginRead => Pipe!BeginRead
    BY <2>1 DEF BeginRead, Pipe!BeginRead, Goto, queueVars, restVars, pipe, stream
  <2>3. PushCommand => Pipe!PushCommand
    BY <2>1 DEF PushCommand, Pipe!PushCommand, Goto, queueVars, restVars, pipe, stream
  <2> QED
    BY <1>7, <2>2, <2>3
<1>8. CASE TryPopCommand \/ Stop \/ Join
  <2>1. UNCHANGED stream
    BY <1>1, <1>8 DEF TryPopCommand, Stop, Join, restVars, pipe
  <2>2. TryPopCommand => Pipe!TryPopCommand
    BY <2>1 DEF TryPopCommand, Pipe!TryPopCommand, queueVars, restVars, pipe, stream
  <2>3. Stop => Pipe!Stop
    BY <2>1 DEF Stop, Pipe!Stop, Goto, queueVars, restVars, pipe, stream
  <2>4. Join => Pipe!Join
    BY <2>1 DEF Join, Pipe!Join, Goto, queueVars, restVars, pipe, stream
  <2> QED
    BY <1>8, <2>2, <2>3, <2>4
<1> QED
  BY <1>2, <1>3, <1>4, <1>5, <1>6, <1>7, <1>8 DEF Reader, Main, Threads

\* What the engine leaves alone, and the handling of the stream's end.
LEMMA EngineSteps ==
  ASSUME PathInv, UNCHANGED actuatorVars
  PROVE  /\ UNCHANGED <<stream, server, sent>> => [Pipe!Next]_(Pipe!vars)
         /\ server # "down" /\ server' = "down" /\ sent' = sent
              /\ (\E kept \in 0..Len(stream) : stream' = SubSeq(stream, 1, kept))
              => [Pipe!Next]_(Pipe!vars)
<1>1. UNCHANGED <<pc, m_running, m_connected, m_pipeHandle, wasConnected, tested, reconnect_count,
                  stops, opened, queueVars, closeCancels, accepted>>
  BY DEF actuatorVars
<1>2. UNCHANGED <<stream, server, sent>> => UNCHANGED Pipe!vars
  BY <1>1 DEF Pipe!vars, Pipe!pipe, queueVars, stream
<1>3. server # "down" /\ server' = "down" /\ sent' = sent
        /\ (\E kept \in 0..Len(stream) : stream' = SubSeq(stream, 1, kept))
        => Pipe!AiEngine
  BY <1>1 DEF Pipe!AiEngine, Pipe!Break, Pipe!queueVars, queueVars, stream
<1> QED
  BY <1>2, <1>3 DEF Pipe!Next

\* The pipe ends with nothing lost, or with all of it.
LEMMA Kept ==
  ASSUME PathInv
  PROVE  /\ stream = SubSeq(stream, 1, Len(stream)) /\ Len(stream) \in Nat
         /\ << >> = SubSeq(stream, 1, 0)
         /\ Len(wire) \in 0..Len(stream) /\ wire = SubSeq(stream, 1, Len(wire))
<1>1. wire \in Seq(Piece) /\ unwritten \in Seq(Piece) /\ stream \in Seq(Piece)
  BY ConcatProperties DEF PathInv, SubscriberTypeOK, ServerInv, stream
<1>2. /\ Len(stream) = Len(wire) + Len(unwritten)
      /\ \A i \in 1..Len(wire) : stream[i] = wire[i]
  BY <1>1, ConcatProperties DEF stream
<1> QED
  BY <1>1, <1>2

LEMMA CleanupRefines ==
  ASSUME PathInv, CleanupHandle, unwritten' = << >>, sent' = sent, UNCHANGED actuatorVars,
         engine = "writing" \/ unwritten = << >>
  PROVE  [Pipe!Next]_(Pipe!vars)
<1>1. CASE handle = 0
  <2>1. unwritten = << >> /\ UNCHANGED <<wire, server>>
    BY <1>1 DEF PathInv, ServerInv, InstancesKept, CleanupHandle
  <2> QED
    BY <2>1, EngineSteps DEF stream
<1>2. CASE handle # 0
  <2>1. server = "serving" /\ server' = "down" /\ wire' = << >>
    BY <1>2 DEF PathInv, ServerInv, CleanupHandle
  <2>2. stream' = SubSeq(stream, 1, 0)
    BY <2>1, Kept, StreamOfNothing DEF stream
  <2>3. 0 \in 0..Len(stream)
    BY Kept
  <2> QED
    BY <2>1, <2>2, <2>3, EngineSteps
<1> QED
  BY <1>1, <1>2

LEMMA AcceptorRefines ==
  ASSUME PathInv, Acceptor
  PROVE  [Pipe!Next]_(Pipe!vars)
<1>0. UNCHANGED actuatorVars
  BY DEF Acceptor
<1>1. CASE LeaveLoop \/ ShareHandle \/ Serve
  BY <1>0, <1>1, EngineSteps DEF LeaveLoop, ShareHandle, Serve, stream
<1>2. CASE CreateInstance
  <2>1. server = "down" /\ accepted < MaxConnections
    BY <1>2, SubscriberAssumption DEF CreateInstance, PathInv, ServerInv, InstancesKept
  <2>2. Pipe!Listen
    BY <1>0, <1>2, <2>1 DEF CreateInstance, actuatorVars, Pipe!Listen, stream
  <2> QED
    BY <1>0, <2>2 DEF Pipe!Next, Pipe!AiEngine, Pipe!queueVars, queueVars, actuatorVars
<1>3. ASSUME server # "down", server' = "down", UNCHANGED <<wire, unwritten, sent>>
      PROVE  [Pipe!Next]_(Pipe!vars)
  <2>1. stream' = SubSeq(stream, 1, Len(stream)) /\ Len(stream) \in 0..Len(stream)
    BY <1>3, Kept DEF stream
  <2> QED
    BY <1>0, <1>3, <2>1, EngineSteps
<1>4. CASE ClientComes
  BY <1>0, <1>3, <1>4, EngineSteps DEF ClientComes, stream
<1>5. CASE ShutdownSeen
  BY <1>3, <1>5 DEF ShutdownSeen, PathInv, ServerInv, InstancesKept
<1>6. CASE DisconnectClient
  BY <1>0, <1>6, CleanupRefines DEF DisconnectClient, LockFree, PathInv, ServerInv
<1> QED
  BY <1>1, <1>2, <1>4, <1>5, <1>6 DEF Acceptor

LEMMA EngineRefines ==
  ASSUME PathInv, Engine
  PROVE  [Pipe!Next]_(Pipe!vars)
<1>0. UNCHANGED actuatorVars /\ wire \in Seq(Piece) /\ unwritten \in Seq(Piece)
  BY DEF Engine, PathInv, SubscriberTypeOK, ServerInv
<1>1. CASE Publish
  <2>1. unwritten = << >> /\ server = "serving" /\ sent < MaxMessages
    BY <1>1 DEF Publish, PathInv, ServerInv
  <2>2. stream = wire /\ stream' = wire \o unwritten'
    BY <1>0, <1>1, <2>1, StreamOfNothing DEF Publish, stream
  <2>3. Pipe!Write
    BY <1>0, <1>1, <2>1, <2>2 DEF Publish, Pipe!Write, actuatorVars, stream
  <2> QED
    BY <1>0, <2>3 DEF Pipe!Next, Pipe!AiEngine, Pipe!queueVars, queueVars, actuatorVars
<1>2. CASE WritePiece
  <2>1. UNCHANGED stream
    BY <1>0, <1>2, MovedFromHead DEF WritePiece, stream
  <2> QED
    BY <1>0, <1>2, <2>1, EngineSteps DEF WritePiece
<1>3. CASE Written \/ StopServer \/ StopJoins
  BY <1>0, <1>3, EngineSteps DEF Written, StopServer, StopJoins, stream
<1>4. CASE WriteFails
  BY <1>0, <1>4, CleanupRefines DEF WriteFails
<1>5. CASE StopDisconnects
  BY <1>0, <1>5, CleanupRefines DEF StopDisconnects, PathInv, ServerInv
<1> QED
  BY <1>1, <1>2, <1>3, <1>4, <1>5 DEF Engine

LEMMA KilledRefines ==
  ASSUME PathInv, Killed
  PROVE  [Pipe!Next]_(Pipe!vars)
<1>0. UNCHANGED <<actuatorVars, wire, sent>> /\ unwritten' = << >> /\ server' = "down"
  BY DEF Killed
<1>1. wire \in Seq(Piece)
  BY DEF PathInv, SubscriberTypeOK
<1>2. stream' = wire
  BY <1>0, <1>1, StreamOfNothing DEF stream
<1>3. CASE server = "down"
  <2>1. unwritten = << >>
    BY <1>3 DEF PathInv, ServerInv, InstancesKept
  <2>2. UNCHANGED <<stream, server, sent>>
    BY <1>0, <1>1, <1>2, <1>3, <2>1, StreamOfNothing DEF stream
  <2> QED
    BY <1>0, <2>2, EngineSteps
<1>4. CASE server # "down"
  BY <1>0, <1>2, <1>4, Kept, EngineSteps
<1> QED
  BY <1>3, <1>4

\* Whatever the number of messages and connections, and wherever writes are cut, clients
\* turned away and the engine killed: to the subscriber, the server is the AI engine that
\* ActionSubscriber supposes (PipeServer.publish, _accept_loop, stop).
THEOREM ServerIsAiEngine == PathSpec => IsPipe
<1>1. PathInit => Pipe!Init
  BY StreamOfNothing DEF PathInit, Started, Init, Pipe!Init, Pipe!Threads, Threads
<1>2. PathInv /\ [PathNext]_pathVars => [Pipe!Next]_(Pipe!vars)
  <2> SUFFICES ASSUME PathInv, [PathNext]_pathVars PROVE [Pipe!Next]_(Pipe!vars)
    OBVIOUS
  <2>1. CASE (Reader \/ Main) /\ UNCHANGED engineVars
    BY <2>1, ActuatorRefines
  <2>2. CASE UNCHANGED pathVars
    BY <2>2 DEF pathVars, vars, pipe, engineVars, queueVars, Pipe!vars, Pipe!pipe
  <2> QED
    BY <2>1, <2>2, AcceptorRefines, EngineRefines, KilledRefines DEF PathNext
<1> QED
  BY <1>1, <1>2, PathInvariant, PTL DEF PathSpec, IsPipe

-----------------------------------------------------------------------------
(* What is proved of the subscriber holds of the two together *)

Proved == INSTANCE ActionSubscriberProofs WITH wire <- stream

\* The two instances are the same specification.
LEMMA SameStep ==
  ASSUME [Pipe!Next]_(Pipe!vars)
  PROVE  [Proved!Next]_(Proved!vars)
<1> USE DEF Pipe!Goto, Proved!Goto, Pipe!queueVars, Proved!queueVars, Pipe!restVars,
            Proved!restVars, Pipe!pipe, Proved!pipe, stream
<1>1. CASE UNCHANGED Pipe!vars
  BY <1>1 DEF Pipe!vars, Proved!vars
<1>2. CASE Pipe!Reader
  <2>1. CASE Pipe!ReadLoop \/ Pipe!Connect \/ Pipe!Connected \/ Pipe!BeginRead
    BY <2>1 DEF Pipe!ReadLoop, Proved!ReadLoop, Pipe!Connect, Proved!Connect, Pipe!Connected,
                Proved!Connected, Pipe!BeginRead, Proved!BeginRead, Proved!Reader, Proved!Next
  <2>2. CASE Pipe!TestConnected \/ Pipe!ConnectionGone
    BY <2>2 DEF Pipe!TestConnected, Proved!TestConnected, Pipe!ConnectionGone,
                Proved!ConnectionGone, Proved!Reader, Proved!Next
  <2>3. CASE Pipe!ReadFails \/ Pipe!ReadPiece \/ Pipe!PushCommand
    BY <2>3 DEF Pipe!ReadFails, Proved!ReadFails, Pipe!ReadPiece, Proved!ReadPiece, Pipe!Feed,
                Proved!Feed, Pipe!PushCommand, Proved!PushCommand, Proved!Reader, Proved!Next
  <2>4. CASE Pipe!Disconnect("reader")
    BY <2>4 DEF Pipe!Disconnect, Proved!Disconnect, Pipe!ExchangeConnected,
                Proved!ExchangeConnected, Pipe!CheckHandle, Proved!CheckHandle,
                Pipe!CloseHandle, Proved!CloseHandle, Pipe!InvalidateHandle,
                Proved!InvalidateHandle, Pipe!CountLoss, Proved!CountLoss, Proved!Reader,
                Proved!Next
  <2> QED
    BY <1>2, <2>1, <2>2, <2>3, <2>4 DEF Pipe!Reader
<1>3. CASE Pipe!Main
  <2>1. CASE Pipe!TryPopCommand \/ Pipe!Stop \/ Pipe!Join
    BY <2>1 DEF Pipe!TryPopCommand, Proved!TryPopCommand, Pipe!Stop, Proved!Stop, Pipe!Join,
                Proved!Join, Proved!Main, Proved!Next
  <2>2. CASE Pipe!Disconnect("main")
    BY <2>2 DEF Pipe!Disconnect, Proved!Disconnect, Pipe!ExchangeConnected,
                Proved!ExchangeConnected, Pipe!CheckHandle, Proved!CheckHandle,
                Pipe!CloseHandle, Proved!CloseHandle, Pipe!InvalidateHandle,
                Proved!InvalidateHandle, Pipe!CountLoss, Proved!CountLoss, Proved!Main,
                Proved!Next
  <2> QED
    BY <1>3, <2>1, <2>2 DEF Pipe!Main
<1>4. CASE Pipe!AiEngine
  BY <1>4 DEF Pipe!AiEngine, Proved!AiEngine, Pipe!Listen, Proved!Listen, Pipe!Write,
              Proved!Write, Pipe!Break, Proved!Break, Proved!Next
<1> QED
  BY <1>1, <1>2, <1>3, <1>4 DEF Pipe!Next

\* So the two together are the subscriber of the proofs.
LEMMA PathIsSubscriber == PathSpec => Proved!Init /\ [][Proved!Next]_(Proved!vars)
<1>1. PathInit => Proved!Init
  BY StreamOfNothing DEF PathInit, Started, Init, Proved!Init, Proved!Threads, Threads, stream
<1>2. IsPipe => [][Proved!Next]_(Proved!vars)
  BY SameStep, PTL DEF IsPipe
<1> QED
  BY <1>1, <1>2, ServerIsAiEngine, PTL DEF PathSpec

\* Every command the actuator's main loop gets is a whole message the engine published, in
\* the order published and none twice, wherever its writes were cut by their timeout, its
\* clients turned away and itself killed (PipeServer.publish, NdjsonReader::Feed).
THEOREM PublishedCommandsAreWhole == PathSpec => []CommandsAreMessages
<1> DEFINE PipeInv == Proved!SubscriberTypeOK /\ Proved!HandleInv /\ Proved!CommandInv
<1>1. Proved!Init => PipeInv
  BY SubscriberAssumption, Proved!TypeInit, Proved!HandleInit, Proved!CommandInit
     DEF Proved!SubscriberAssumption
<1>2. PipeInv /\ [Proved!Next]_(Proved!vars) => PipeInv'
  BY SubscriberAssumption, Proved!TypeStep, Proved!HandleStep, Proved!CommandStep
     DEF Proved!SubscriberAssumption
<1>3. PipeInv => CommandsAreMessages
  BY DEF Proved!CommandInv, Proved!CommandsAreMessages, CommandsAreMessages, Proved!Delivered,
         Delivered
<1> QED
  BY <1>1, <1>2, <1>3, PathIsSubscriber, PTL

\* With the engine's server at the other end, too, no handle is lost or closed twice while
\* the service runs, and at most one is lost by Stop (Connect, Disconnect); and every
\* connection is counted once when it has ended, also one that the server turned away or
\* cut (reconnect_count), but for one that Stop closes while it is opened.
THEOREM PublishedHandleIsKept == PathSpec => []OneHandle /\ []LossesCountedOnce
<1> DEFINE PipeInv == Proved!SubscriberTypeOK /\ Proved!HandleInv /\ Proved!LossesCountedOnce
<1>1. Proved!Init => PipeInv
  <2>1. Proved!Init => Proved!LossesCountedOnce
    BY DEF Proved!Init, Proved!LossesCountedOnce, Proved!Counted, Proved!One,
           Proved!Disconnecting, Proved!Threads
  <2> QED
    BY <2>1, SubscriberAssumption, Proved!TypeInit, Proved!HandleInit
       DEF Proved!SubscriberAssumption
<1>2. PipeInv /\ [Proved!Next]_(Proved!vars) => PipeInv'
  BY SubscriberAssumption, Proved!TypeStep, Proved!HandleStep, Proved!CountStep
     DEF Proved!SubscriberAssumption
<1>3. PipeInv => OneHandle /\ LossesCountedOnce
  <2>1. PipeInv => OneHandle
    BY DEF Proved!HandleInv, Proved!OneHandle, OneHandle, Proved!Threads, Threads
  <2>2. PipeInv => LossesCountedOnce
    BY DEF Proved!LossesCountedOnce, LossesCountedOnce, Proved!Counted, Counted, Proved!One, One,
           Proved!Disconnecting, Disconnecting
  <2> QED
    BY <2>1, <2>2
<1> QED
  BY <1>1, <1>2, <1>3, PathIsSubscriber, PTL

=============================================================================
