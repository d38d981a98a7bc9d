------------------------------ MODULE ActionPipe -----------------------------
(***************************************************************************)
(* Both ends of the action pipe: the actuator's reader (ActionSubscriber)  *)
(* and, in place of the AI engine that may do anything there, its          *)
(* PipeServer (ai-engine/src/ipc_action_publisher.py): a thread accepts    *)
(* one client after the other, the engine's main thread publishes and      *)
(* stops.  They share a handle under one lock, which publish holds until   *)
(* its write has ended or timed out; all else done under the lock is one   *)
(* step.  self._connected says that there is a handle.                     *)
(*                                                                         *)
(* The instances of the pipe are numbered in the order of their creation.  *)
(* A message published while there is no client is lost and not counted in *)
(* sent.  The engine may be killed at any time and is started again.       *)
(***************************************************************************)
EXTENDS ActionSubscriber

VARIABLES
  acceptor,        \* the place of the accept thread
  engine,          \* the place of the main thread in publish and stop
  running,         \* self._running; the shutdown event is set when it is cleared
  handle,          \* self._handle; 0 is None
  instances,       \* external: the pipe instances the engine has open
  created,         \* external: the number of instances there have been
  unwritten        \* the pieces of the message being published, not yet in the pipe

engineVars == <<acceptor, engine, running, handle, instances, created, unwritten>>
pathVars == <<vars, engineVars>>

ActionPipeTypeOK ==
  /\ SubscriberTypeOK
  /\ acceptor \in {"top", "waiting", "taken", "serving", "disconnect", "ended"}
  /\ engine \in {"run", "writing", "disconnect", "join", "stopped"}
  /\ running \in BOOLEAN
  /\ created \in 0..MaxConnections /\ handle \in 0..created /\ instances \subseteq 1..created
  /\ unwritten \in Seq(Piece) /\ (engine # "writing" => unwritten = << >>)

\* As start leaves the server.
Started ==
  /\ acceptor = "top" /\ engine = "run" /\ running = TRUE
  /\ handle = 0 /\ instances = {} /\ unwritten = << >>

PathInit == Init /\ Started /\ created = 0

\* What the engine leaves alone.
actuatorVars == <<pc, m_running, m_connected, m_pipeHandle, wasConnected, tested, reconnect_count,
                  stops, opened, queueVars, closeCancels, accepted>>

LockFree == engine # "writing"

\* _cleanup_handle: the client is disconnected, and loses what it has not read.
CleanupHandle ==
  /\ handle' = 0
  /\ instances' = instances \ {handle}
  /\ IF handle = 0 THEN UNCHANGED <<server, wire>> ELSE server' = "down" /\ wire' = << >>

-----------------------------------------------------------------------------
(* The accept thread: _accept_loop *)

LeaveLoop ==
  /\ acceptor = "top" /\ ~running
  /\ acceptor' = "ended"
  /\ UNCHANGED <<engine, running, handle, instances, created, unwritten, server, wire, sent>>

CreateInstance ==
  /\ acceptor = "top" /\ running /\ created < MaxConnections
  /\ created' = created + 1
  /\ instances' = instances \cup {created + 1}
  /\ server' = "listening"
  /\ acceptor' = "waiting"
  /\ UNCHANGED <<engine, running, handle, unwritten, wire, sent>>

\* ConnectNamedPipe: a client has come; or one has come and gone.
ClientComes ==
  /\ acceptor = "waiting" /\ server = "serving"
  /\ \/ acceptor' = "taken" /\ UNCHANGED <<server, instances>>
     \/ /\ accepted \notin opened
        /\ acceptor' = "top" /\ server' = "down" /\ instances' = instances \ {created}
  /\ UNCHANGED <<engine, running, handle, created, unwritten, wire, sent>>

\* Mutant: the shutdown event is looked at only when a client has come.
ShutdownUnseen ==
  /\ acceptor = "waiting" /\ ~running /\ server = "serving"
  /\ acceptor' = "ended" /\ server' = "down" /\ instances' = instances \ {created}
  /\ UNCHANGED <<engine, running, handle, created, unwritten, wire, sent>>

\* The wait ends by the shutdown event.  A client that comes right then is turned away.
ShutdownSeen ==
  /\ acceptor = "waiting" /\ ~running
  /\ acceptor' = "ended" /\ server' = "down" /\ instances' = instances \ {created}
  /\ UNCHANGED <<engine, running, handle, created, unwritten, wire, sent>>

ShareHandle ==
  /\ acceptor = "taken" /\ LockFree
  /\ handle' = created
  /\ acceptor' = "serving"
  /\ UNCHANGED <<engine, running, instances, created, unwritten, server, wire, sent>>

\* Mutant: a server that was stopped leaves the loop at once.
ServeUntilStopped ==
  /\ acceptor = "serving" /\ LockFree
  /\ ~running \/ handle = 0
  /\ acceptor' = IF running THEN "disconnect" ELSE "ended"
  /\ UNCHANGED <<engine, running, handle, instances, created, unwritten, server, wire, sent>>

\* The client is served until it is lost or the server stops.
Serve ==
  /\ acceptor = "serving" /\ LockFree
  /\ ~running \/ handle = 0
  /\ acceptor' = "disconnect"
  /\ UNCHANGED <<engine, running, handle, instances, created, unwritten, server, wire, sent>>

DisconnectClient ==
  /\ acceptor = "disconnect" /\ LockFree
  /\ CleanupHandle
  /\ acceptor' = "top"
  /\ UNCHANGED <<engine, running, created, unwritten, sent>>

Acceptor ==
  /\ \/ LeaveLoop \/ CreateInstance \/ ClientComes \/ ShutdownSeen \/ ShareHandle \/ Serve
     \/ DisconnectClient
  /\ UNCHANGED actuatorVars

-----------------------------------------------------------------------------
(* The main thread: publish and stop *)

\* publish, when there is a client.
Publish ==
  /\ engine = "run" /\ running /\ handle # 0 /\ sent < MaxMessages
  /\ sent' = sent + 1
  /\ unwritten' = <<[msg |-> sent + 1, part |-> "head"], [msg |-> sent + 1, part |-> "tail"]>>
  /\ engine' = "writing"
  /\ UNCHANGED <<acceptor, running, handle, instances, created, server, wire>>

\* WriteFile, as far as the client makes room; and its completion.
WritePiece ==
  /\ engine = "writing" /\ unwritten # << >> /\ accepted \in opened
  /\ wire' = Append(wire, Head(unwritten))
  /\ unwritten' = Tail(unwritten)
  /\ UNCHANGED <<acceptor, engine, running, handle, instances, created, server, sent>>

Written ==
  /\ engine = "writing" /\ unwritten = << >>
  /\ engine' = "run"
  /\ UNCHANGED <<acceptor, running, handle, instances, created, unwritten, server, wire, sent>>

\* Mutant: a write that has timed out is cancelled and the client kept.
WriteCancelled ==
  /\ engine = "writing"
  /\ unwritten' = << >>
  /\ engine' = "run"
  /\ UNCHANGED <<acceptor, running, handle, instances, created, server, wire, sent>>

\* The client has gone or did not read for WRITE_TIMEOUT_MS: the rest is not written, and
\* the client is disconnected.
WriteFails ==
  /\ engine = "writing"
  /\ unwritten' = << >>
  /\ CleanupHandle
  /\ engine' = "run"
  /\ UNCHANGED <<acceptor, running, created, sent>>

StopServer ==
  /\ engine = "run" /\ running
  /\ running' = FALSE
  /\ engine' = "disconnect"
  /\ UNCHANGED <<acceptor, handle, instances, created, unwritten, server, wire, sent>>

StopDisconnects ==
  /\ engine = "disconnect"
  /\ CleanupHandle
  /\ engine' = "join"
  /\ UNCHANGED <<acceptor, running, created, unwritten, sent>>

\* join: its three seconds are longer than any sleep of the accept thread.
StopJoins ==
  /\ engine = "join" /\ acceptor = "ended"
  /\ engine' = "stopped"
  /\ UNCHANGED <<acceptor, running, handle, instances, created, unwritten, server, wire, sent>>

Engine ==
  /\ \/ Publish \/ WritePiece \/ Written \/ WriteFails \/ StopServer \/ StopDisconnects
     \/ StopJoins
  /\ UNCHANGED actuatorVars

\* The process ends; what is in the pipe can still be read.  It is started again.
Killed ==
  /\ acceptor' = "top" /\ engine' = "run" /\ running' = TRUE
  /\ handle' = 0 /\ instances' = {} /\ unwritten' = << >>
  /\ server' = "down"
  /\ UNCHANGED <<created, wire, sent, actuatorVars>>

PathNext == ((Reader \/ Main) /\ UNCHANGED engineVars) \/ Acceptor \/ Engine \/ Killed

\* The threads of the actuator run, as in ActionSubscriber, and so do those of the engine;
\* which message is published, when it stops, and how fast writes go is left open.
PathSpec ==
  /\ PathInit /\ [][PathNext]_pathVars
  /\ Fairness
  /\ WF_pathVars(Acceptor)
  /\ WF_pathVars((Written \/ WriteFails \/ StopDisconnects \/ StopJoins) /\ UNCHANGED actuatorVars)

-----------------------------------------------------------------------------

\* However a stop, a lost client and a new one overlap: an open instance is the one the
\* accept thread has in hand, or the shared handle, never both and never forgotten; a
\* message is written to the shared one only; and when stop has returned none is open
\* (_accept_loop, _disconnect, stop).
InstancesKept ==
  /\ instances = (IF acceptor \in {"waiting", "taken"} THEN {created} ELSE {})
                   \cup (IF handle # 0 THEN {handle} ELSE {})
  /\ acceptor \in {"waiting", "taken"} => handle = 0
  /\ engine = "writing" => handle # 0
  /\ server = "down" <=> instances = {}
  /\ engine = "stopped" => instances = {}

\* The server, whose writes may be cut by a timeout, is the AI engine as the subscriber
\* takes it to be: each message counts as written at once, and what is not written in the
\* end is lost with the connection.  So what is proved of the subscriber holds here.
Pipe == INSTANCE ActionSubscriber WITH wire <- wire \o unwritten
IsPipe == Pipe!Init /\ [][Pipe!Next]_(Pipe!vars)

\* "stop() can interrupt a pending ConnectNamedPipe and a slow client can never block the
\* publisher" (ai-engine/src/ipc_action_publisher.py:36): every publish ends, and every stop,
\* unless the engine is killed, after which it runs again.
PublishAndStopEnd ==
  /\ (engine = "writing") ~> (engine # "writing")
  /\ (engine = "disconnect") ~> (engine \in {"stopped", "run"})

=============================================================================
