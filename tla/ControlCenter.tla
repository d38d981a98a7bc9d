----------------------------- MODULE ControlCenter ---------------------------
(***************************************************************************)
(* The dashboard server as a whole (dashboard/server/index.js): the        *)
(* process manager behind HTTP commands, the pages that watch it, and the  *)
(* way from Ctrl+C to the exit.                                            *)
(***************************************************************************)
EXTENDS ProcessManager, Functions

VARIABLE server     \* the HTTP server, and the process with it

vars == <<managerVars, feedVars, server>>

TypeOK ==
  /\ ManagerTypeOK
  /\ server \in {"starting", "listening", "failed", "closing", "exited"}
  /\ page \in [Pages -> {"absent", "fetching", "connecting", "open"}]

Init == ManagerInit /\ FeedInit /\ server = "starting"

Up == server # "exited"

-----------------------------------------------------------------------------

\* server.listen.  A port in use ends the process; another error only prevents serving.
Listen ==
  /\ server = "starting"
  /\ server' \in {"listening", "failed", "exited"}
  /\ UNCHANGED <<managerVars, feedVars>>

\* The bound on spawns leaves room for the calls of startAll that are under way.
Room(starts) ==
  spawned + starts
    + SumFunction([call \in StartAllCalls |->
                     IF startAll[call] = 0 THEN 0 ELSE Len(ModuleOrder) + 1 - startAll[call]])
    <= MaxSpawns

\* The commands, by a page or any other local program; those that the gate before them
\* refuses change nothing.  startAll starts its first module at once.
Command ==
  /\ server = "listening"
  /\ \/ Room(1) /\ \E m \in Modules : Start(m) /\ UNCHANGED startAll
     \/ \E m \in Modules : Stop(m)
     \/ StopAll
     \/ \E call \in StartAllCalls :
          /\ startAll[call] = 0 /\ Room(Len(ModuleOrder))
          /\ LET m == ModuleOrder[1]
             IN  \/ Start(m)
                 \/ Running(m) /\ UNCHANGED <<modules, children, spawned, timers, erred, feedVars>>
          /\ startAll' = [startAll EXCEPT ![call] = 2]
  /\ UNCHANGED server

\* What goes on without a command, until the process exits.
Continue ==
  /\ Up
  /\ \/ \E call \in StartAllCalls : startAll[call] # 0 /\ StartAllNext(call)
     \/ \E timer \in timers : ForceStop(timer)
     \/ \E c \in Children : CloseEvent(c)
  /\ UNCHANGED server

\* What the children do, also when the process is gone.
Child ==
  /\ \E c \in Children : ChildExits(c)
  /\ UNCHANGED server

\* The pages.  New connections need a server that listens.
Page ==
  /\ \E p \in Pages :
       \/ server = "listening" /\ OpenPage(p, StatusOf(modules))
       \/ Mounted(p)
       \/ server = "listening" /\ ConnectWS(p, StatusOf(modules))
       \/ HandleMessage(p) \/ LoseSocket(p)
  /\ UNCHANGED <<managerVars, server>>

\* Ctrl+C: pm.shutdown, no new pages, server.close.  The sockets of pages stay open, and
\* startAll goes on.
SigInt ==
  /\ server \in {"listening", "failed", "closing"}
  /\ Shutdown
  /\ server' = "closing"

NoStartAll == \A call \in StartAllCalls : startAll[call] = 0
NoSocket == \A p \in Pages : page[p] # "open"

\* Mutant: the process exits with nothing more done.
ServerClosedAtOnce ==
  /\ server = "closing"
  /\ NoSocket /\ NoStartAll
  /\ server' = "exited"
  /\ UNCHANGED <<managerVars, feedVars>>

\* The last connection has ended, so server.close calls back: process.exit, and in its
\* `exit` event pm.shutdown again.  (A request for startAll is answered at its end.)
ServerClosed ==
  /\ server = "closing"
  /\ NoSocket /\ NoStartAll
  /\ Shutdown
  /\ server' = "exited"

Next == Listen \/ Command \/ Continue \/ Child \/ Page \/ SigInt \/ ServerClosed

\* The event loop runs; what a child that was terminated leaves open is closed.  The
\* user, the pages' connections and children left in peace do as they like.
Fairness ==
  /\ \A call \in StartAllCalls : WF_vars(Up /\ startAll[call] # 0 /\ StartAllNext(call) /\ UNCHANGED server)
  /\ \A c \in Children : WF_vars(Up /\ CloseEvent(c) /\ UNCHANGED server)
  /\ \A p \in Pages : WF_vars(HandleMessage(p) /\ UNCHANGED <<managerVars, server>>)
  /\ WF_vars(ServerClosed)

Spec == Init /\ [][Next]_vars /\ Fairness

-----------------------------------------------------------------------------

\* Whatever commands, timers and events overlap, "running" means that the record has a child
\* which has not yet closed, with its pid; and as long as no child of the module has emitted
\* `error`, it has no other (ProcessManager.start, stop, `close`).
OneChild ==
  \A m \in Modules :
    /\ Running(m) <=> modules[m].proc # NoProc
    /\ Running(m) =>
         LET child == children[modules[m].proc]
         IN  /\ child.of = m /\ child.state \in {"alive", "exited"}
             /\ modules[m].pid = child.pid
    /\ m \notin erred =>
         \A c \in Children :
           children[c].of = m /\ children[c].state \in {"alive", "exited"} => modules[m].proc = c

\* A page with an open socket and nothing under way shows the records as they are,
\* after whatever losses, and whatever happened between its fetch and its connection.
PageFollows ==
  \A p \in Pages :
    page[p] = "open" /\ inbox[p] = << >> => view[p] = StatusOf(modules)

\* When the server has exited, no child runs but of modules of which one emitted `error`.
ExitLeavesNoChild ==
  server = "exited" =>
    \A c \in Children : children[c].state = "alive" => children[c].of \in erred

\* The forced termination that follows every stop after two seconds reaches the child
\* the record names only when that child has got the pid of an earlier one: a kill either
\* ends its child or makes the record let go of it, so the timer is never about the child
\* of its own stop (ProcessManager.stop).
ForcedKillOnlyByReusedPid ==
  [][\A m \in Modules :
       LET c == modules[m].proc
       IN  /\ timers' # timers /\ c # NoProc
           /\ \E timer \in timers : ForceStop(timer)
           /\ children[c].state = "alive" /\ children'[c].state # "alive"
           => children[c].pid # c]_vars

\* A child that was terminated leaves the record, unless the server exits first.
StopTakesEffect ==
  \A c \in Children :
    children[c].killed ~> (server = "exited" \/ \A m \in Modules : modules[m].proc # c)

\* Ctrl+C ends the process, unless a page keeps its socket.
CtrlCWaitsOnlyForPages == (server = "closing") ~> (server = "exited" \/ ~NoSocket)

\* "Press Ctrl+C to stop" (dashboard/server/index.js:178).
CtrlCStops == (server = "closing") ~> (server = "exited")

=============================================================================
