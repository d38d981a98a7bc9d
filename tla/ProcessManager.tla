---------------------------- MODULE ProcessManager ---------------------------
(***************************************************************************)
(* The dashboard's process manager                                         *)
(* (dashboard/server/process-manager.js): one record for each module of    *)
(* the system, and the child processes it spawns and kills.                *)
(*                                                                         *)
(* The code runs on one event loop, so an action is a whole callback.  The *)
(* callbacks are the commands, the `close` and `error` events of a child,  *)
(* the timer that every stop leaves behind and the sleeps of startAll;     *)
(* their order is open.  Time is left out: a timer may fire at any moment. *)
(*                                                                         *)
(* Children (external: Node's ChildProcess and the operating system) are   *)
(* numbered in the order of the calls of spawn.  One is "exited" when it   *)
(* has ended and its `close` event is still to come, and "gone" after it.  *)
(* A child has a pid of its own, its number, or that of a process that has *)
(* ended, if there is a timer that still remembers it: to all others it is *)
(* as good as new.  The logs are the business of DataPath.                 *)
(***************************************************************************)
EXTENDS StatusFeed, Naturals

CONSTANTS
  ModuleOrder,     \* the keys of MODULE_DEFINITIONS, in their order
  MaxSpawns,       \* bound on the calls of spawn
  StartAllCalls    \* calls of startAll that may overlap

Modules == {ModuleOrder[i] : i \in DOMAIN ModuleOrder}
Children == 1..MaxSpawns
Pids == 1..MaxSpawns
NoProc == 0
NoPid == 0

ASSUME ManagerAssumption ==
  /\ ModuleOrder \in Seq(Modules) /\ ModuleOrder # << >>
  /\ MaxSpawns \in Nat

VARIABLES
  modules,     \* this.modules
  children,
  spawned,     \* the number of calls of spawn
  timers,      \* the pending timers of stop: a module and the pid it had
  startAll,    \* for each call: the place in ModuleOrder it starts next; 0 when idle
  erred        \* history: the modules of which a child has emitted `error`

managerVars == <<modules, children, spawned, timers, startAll, erred>>

ExitCodes == {"null", "0", "other"}

ManagerTypeOK ==
  /\ modules \in [Modules -> [status : {"stopped", "running", "error"}, pid : Pids \cup {NoPid},
                              proc : Children \cup {NoProc}, exitCode : ExitCodes]]
  /\ children \in [Children -> [of : Modules, pid : Pids \cup {NoPid}, killed : BOOLEAN,
                                state : {"unborn", "alive", "exited", "gone"},
                                code : ExitCodes]]
  /\ spawned \in 0..MaxSpawns
  /\ timers \subseteq Modules \X Pids
  /\ startAll \in [StartAllCalls -> 0..Len(ModuleOrder) + 1]
  /\ erred \subseteq Modules

\* The constructor.
ManagerInit ==
  /\ modules = [m \in Modules |-> [status |-> "stopped", pid |-> NoPid, proc |-> NoProc,
                                   exitCode |-> "null"]]
  /\ children = [c \in Children |-> [of |-> ModuleOrder[1], pid |-> NoPid, killed |-> FALSE,
                                     state |-> "unborn", code |-> "null"]]
  /\ spawned = 0 /\ timers = {} /\ erred = {}
  /\ startAll = [call \in StartAllCalls |-> 0]

\* getAllStatus
StatusOf(mods) == [m \in Modules |-> [status |-> mods[m].status, pid |-> mods[m].pid,
                                      exitCode |-> mods[m].exitCode]]

\* _emit and its listener in index.js, once for all the changes of one callback.
Emit == Broadcast(StatusOf(modules')) /\ UNCHANGED <<page, view>>

AlivePids == {children[c].pid : c \in {d \in Children : children[d].state = "alive"}}

Running(m) == modules[m].status = "running"

-----------------------------------------------------------------------------
(* start *)

Born(m, pid, state) == [of |-> m, pid |-> pid, killed |-> FALSE, state |-> state, code |-> "other"]
NeverBorn(m) == [of |-> m, pid |-> NoPid, killed |-> FALSE, state |-> "gone", code |-> "null"]

Spawned(m) ==
  \E pid \in {spawned + 1} \cup {timer[2] : timer \in timers} :
    /\ pid \notin AlivePids
    /\ children' = [children EXCEPT ![spawned + 1] = Born(m, pid, "alive")]
    /\ modules' = [modules EXCEPT ![m] = [status |-> "running", pid |-> pid, proc |-> spawned + 1,
                     exitCode |-> "null"]]
    /\ UNCHANGED erred

\* There is no such program: the record is "running" until the `error` event, which no
\* other callback can precede.  `close` follows later, or never.
SpawnFails(m) ==
  \E child \in {Born(m, NoPid, "exited"), NeverBorn(m)} :
    /\ children' = [children EXCEPT ![spawned + 1] = child]
    /\ modules' = [modules EXCEPT ![m] = [status |-> "error", pid |-> NoPid, proc |-> NoProc,
                     exitCode |-> "null"]]
    /\ erred' = erred \cup {m}

\* spawn itself throws: the record keeps what it had of the last child.
SpawnThrows(m) ==
  /\ children' = [children EXCEPT ![spawned + 1] = NeverBorn(m)]
  /\ modules' = [modules EXCEPT ![m].status = "error", ![m].exitCode = "null"]
  /\ UNCHANGED erred

\* Mutant: a module that is running may be started again.
StartAgain(m) ==
  /\ spawned < MaxSpawns
  /\ Spawned(m) \/ SpawnFails(m) \/ SpawnThrows(m)
  /\ spawned' = spawned + 1
  /\ UNCHANGED timers
  /\ Emit

Start(m) ==
  /\ ~Running(m)
  /\ spawned < MaxSpawns
  /\ Spawned(m) \/ SpawnFails(m) \/ SpawnThrows(m)
  /\ spawned' = spawned + 1
  /\ UNCHANGED timers
  /\ Emit

\* Mutant: the call is over one sleep late.
AdvancedLate(place) == IF place = Len(ModuleOrder) + 2 THEN 0 ELSE place + 1

\* Mutant: the call starts over.
AdvancedOver(place) == IF place = Len(ModuleOrder) + 1 THEN 1 ELSE place + 1

\* After the last module and its sleep the call of startAll is over.
Advanced(place) == IF place = Len(ModuleOrder) + 1 THEN 0 ELSE place + 1

\* startAll, the call and after every sleep: one start, which a running module refuses;
\* and after the last sleep the answer.
StartAllNext(call) ==
  /\ IF startAll[call] \in DOMAIN ModuleOrder
     THEN LET m == ModuleOrder[startAll[call]]
          IN  \/ Start(m)
              \/ Running(m) /\ UNCHANGED <<modules, children, spawned, timers, erred, feedVars>>
     ELSE UNCHANGED <<modules, children, spawned, timers, erred, feedVars>>
  /\ startAll' = [startAll EXCEPT ![call] = Advanced(@)]

-----------------------------------------------------------------------------
(* stop and shutdown *)

\* The children of the modules in targets are terminated; for those in failed the
\* system refuses, and proc.kill() emits `error` before it returns.  A child that has
\* ended is not marked as killed.
KilledChildren(targets, failed) ==
  [c \in Children |->
    IF /\ children[c].state = "alive"
       /\ \E m \in targets \ failed : modules[m].proc = c
    THEN [children[c] EXCEPT !.killed = TRUE, !.state = "exited", !.code = "other"]
    ELSE children[c]]

Refusing(targets) ==
  SUBSET {m \in targets : modules[m].proc # NoProc /\ children[modules[m].proc].state = "alive"}

\* Mutant: after a refused kill the record keeps its child.
ErrorEventKeepingProc(record) ==
  [record EXCEPT !.status = "error", !.pid = NoPid]

\* The handler of `error`.
ErrorEvent(record) ==
  [record EXCEPT !.status = "error", !.pid = NoPid, !.proc = NoProc]

\* stop, of every module in targets that is running.
StopModules(targets) ==
  LET stopped == {m \in targets : Running(m)} IN
  \E failed \in Refusing(stopped) :
    /\ stopped # {}
    /\ children' = KilledChildren(stopped, failed)
    /\ modules' = [m \in Modules |->
         IF m \in failed THEN ErrorEvent(modules[m]) ELSE modules[m]]
    /\ timers' = timers \cup {<<m, modules[m].pid>> : m \in stopped}
    /\ erred' = erred \cup failed
    /\ IF failed # {} THEN Emit ELSE UNCHANGED feedVars
    /\ UNCHANGED <<spawned, startAll>>

Stop(m) == StopModules({m})
StopAll == StopModules(Modules)

Shutdown ==
  LET targets == {m \in Modules : modules[m].proc # NoProc /\ ~children[modules[m].proc].killed} IN
  \E failed \in Refusing(targets) :
    /\ children' = KilledChildren(targets, failed)
    /\ modules' = [m \in Modules |-> IF m \in failed THEN ErrorEvent(modules[m]) ELSE modules[m]]
    /\ erred' = erred \cup failed
    /\ IF failed # {} THEN Emit ELSE UNCHANGED feedVars
    /\ UNCHANGED <<spawned, timers, startAll>>

\* The timer of stop looks at the child the module has now, and terminates by the pid
\* the module had then: whichever process has it, one of ours or another one (as in the
\* second disjunct, which also covers that none has it or that taskkill is refused).
ForceStop(timer) ==
  LET m == timer[1] proc == modules[m].proc IN
  /\ timer \in timers
  /\ timers' = timers \ {timer}
  /\ IF proc # NoProc /\ ~children[proc].killed
     THEN \/ /\ timer[2] \in AlivePids
             /\ children' = [c \in Children |->
                  IF children[c].state = "alive" /\ children[c].pid = timer[2]
                  THEN [children[c] EXCEPT !.state = "exited", !.code = "other"]
                  ELSE children[c]]
          \/ UNCHANGED children
     ELSE UNCHANGED children
  /\ UNCHANGED <<modules, spawned, startAll, erred, feedVars>>

-----------------------------------------------------------------------------
(* The children *)

\* One ends by itself, well or badly.
ChildExits(c) ==
  /\ children[c].state = "alive"
  /\ \E code \in {"0", "other"} :
       children' = [children EXCEPT ![c].state = "exited", ![c].code = code]
  /\ UNCHANGED <<modules, spawned, timers, startAll, erred, feedVars>>

\* What is left of a child that nobody hears of again.
Gone(c) == [children EXCEPT ![c].state = "gone", ![c].pid = NoPid, ![c].killed = FALSE,
                            ![c].code = "null"]

CloseRecord(record, c) ==
  [record EXCEPT !.exitCode = children[c].code,
                 !.status = IF children[c].code = "0" THEN "stopped" ELSE "error",
                 !.pid = NoPid, !.proc = NoProc]

\* Mutant: the end of a child is not announced.
CloseEventSilent(c) ==
  /\ children[c].state = "exited"
  /\ children' = Gone(c)
  /\ modules' = [modules EXCEPT ![children[c].of] = CloseRecord(@, c)]
  /\ UNCHANGED <<spawned, timers, startAll, erred, feedVars>>

\* Mutant: the record is left alone when the child was killed.
CloseEventOfOthers(c) ==
  /\ children[c].state = "exited"
  /\ children' = Gone(c)
  /\ modules' = [modules EXCEPT ![children[c].of] =
                   IF children[c].killed THEN @ ELSE CloseRecord(@, c)]
  /\ Emit
  /\ UNCHANGED <<spawned, timers, startAll, erred>>

\* The handler of `close` does not ask whose child the record is about.
CloseEvent(c) ==
  /\ children[c].state = "exited"
  /\ children' = Gone(c)
  /\ modules' = [modules EXCEPT ![children[c].of] = CloseRecord(@, c)]
  /\ Emit
  /\ UNCHANGED <<spawned, timers, startAll, erred>>

=============================================================================
