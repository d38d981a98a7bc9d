------------------------- MODULE ControlCenterProofs -------------------------
(***************************************************************************)
(* Proofs about ControlCenter, for any modules, any number of spawns and   *)
(* of overlapping calls of startAll, and any pages: its type, what the     *)
(* records say of the children, which children a late timer can end, what  *)
(* the exit leaves behind, and that the pages follow the records.          *)
(***************************************************************************)
EXTENDS ControlCenter, SequenceTheorems, TLAPS

ModuleRecord == [status : {"stopped", "running", "error"}, pid : Pids \cup {NoPid},
                 proc : Children \cup {NoProc}, exitCode : ExitCodes]
ChildRecord == [of : Modules, pid : Pids \cup {NoPid}, killed : BOOLEAN,
                state : {"unborn", "alive", "exited", "gone"}, code : ExitCodes]

Open(c) == children[c].state \in {"alive", "exited"}

\* What the records say is so (the parts of OneChild), and no child is born before its turn.
RecordsOK ==
  /\ \A m \in Modules : Running(m) <=> modules[m].proc # NoProc
  /\ \A m \in Modules :
       LET c == modules[m].proc
       IN  c # NoProc => /\ children[c].of = m /\ Open(c)
                         /\ children[c].pid = modules[m].pid /\ modules[m].pid \in Pids
  /\ \A m \in Modules \ erred : \A c \in Children :
       children[c].of = m /\ Open(c) => modules[m].proc = c
  /\ \A c \in Children : c > spawned => children[c].state = "unborn"

\* kill() marks a child only when it ends it.
KilledOK == \A c \in Children : children[c].killed => children[c].state = "exited"

\* A pid comes again only when the child that had it first is dead, and a timer remembers no
\* pid that the child of a record still has from its birth.
PidsOK ==
  /\ \A c \in Children : children[c].pid <= spawned
  /\ \A timer \in timers : timer[2] <= spawned
  /\ \A c, d \in Children :
       c # d /\ children[c].pid = d => ~(children[d].state = "alive" /\ children[d].pid = d)
  /\ \A timer \in timers : \A d \in Children :
       timer[2] = d /\ children[d].state = "alive" /\ children[d].pid = d
         => \A m \in Modules : modules[m].proc # d

\* The state of the process manager, without the calls of startAll.
CoreType ==
  /\ modules \in [Modules -> ModuleRecord] /\ children \in [Children -> ChildRecord]
  /\ spawned \in 0..MaxSpawns /\ timers \subseteq Modules \X Pids /\ erred \subseteq Modules

CoreInv == CoreType /\ RecordsOK /\ KilledOK /\ PidsOK

core == <<modules, children, spawned, timers, erred>>

-----------------------------------------------------------------------------
(* Kinds of steps *)

\* Whoever takes it, a step is one of the operations of the process manager or changes
\* nothing there.
LEMMA StepKinds ==
  ASSUME [Next]_vars
  PROVE  \/ \E m \in Modules : Start(m)
         \/ \E targets \in SUBSET Modules : StopModules(targets)
         \/ Shutdown
         \/ \E timer \in timers : ForceStop(timer)
         \/ \E c \in Children : ChildExits(c)
         \/ \E c \in Children : CloseEvent(c)
         \/ UNCHANGED core
<1>0. ModuleOrder \in Seq(Modules) /\ ModuleOrder # << >>
  BY ManagerAssumption
<1>a. /\ \A i \in DOMAIN ModuleOrder : ModuleOrder[i] \in Modules
      /\ ModuleOrder[1] \in Modules
  BY <1>0
<1>1. CASE Command
  <2>1. CASE \E m \in Modules : Start(m)
    BY <2>1
  <2>2. CASE \E m \in Modules : Stop(m)
    BY <2>2 DEF Stop
  <2>3. CASE StopAll
    BY <2>3 DEF StopAll
  <2>4. CASE Start(ModuleOrder[1]) \/ UNCHANGED core
    BY <1>a, <2>4
  <2> QED
    BY <1>1, <2>1, <2>2, <2>3, <2>4 DEF Command, core
<1>2. CASE Continue
  <2>1. CASE \E call \in StartAllCalls : StartAllNext(call)
    <3>1. PICK call \in StartAllCalls : StartAllNext(call)
      BY <2>1
    <3> QED
      BY <1>a, <3>1 DEF StartAllNext, core
  <2> QED
    BY <1>2, <2>1 DEF Continue
<1>3. CASE Listen \/ Page \/ UNCHANGED vars
  BY <1>3 DEF Listen, Page, vars, managerVars, core
<1>4. CASE Child
  BY <1>4 DEF Child
<1>5. CASE SigInt \/ ServerClosed
  BY <1>5 DEF SigInt, ServerClosed
<1> QED
  BY <1>1, <1>2, <1>3, <1>4, <1>5 DEF Next

-----------------------------------------------------------------------------
(* The operations of the process manager *)

\* The numbers the constants stand for.
LEMMA Numbers ==
  /\ MaxSpawns \in Nat /\ Children = 1..MaxSpawns /\ Pids = 1..MaxSpawns
  /\ NoProc = 0 /\ NoPid = 0
  /\ ModuleOrder \in Seq(Modules) /\ Len(ModuleOrder) \in Nat \ {0} /\ ModuleOrder[1] \in Modules
<1>1. MaxSpawns \in Nat /\ ModuleOrder \in Seq(Modules) /\ ModuleOrder # << >>
  BY ManagerAssumption
<1> QED
  BY <1>1 DEF Children, Pids, NoProc, NoPid

\* At first no child is born and every record is empty.
LEMMA CoreInit == Init => CoreInv
<1> SUFFICES ASSUME Init PROVE CoreInv
  OBVIOUS
<1> USE Numbers
<1>1. CoreType
  BY DEF Init, ManagerInit, CoreType, ModuleRecord, ChildRecord, ExitCodes
<1>2. RecordsOK
  BY DEF Init, ManagerInit, RecordsOK, Running, Open
<1>3. KilledOK /\ PidsOK
  BY DEF Init, ManagerInit, KilledOK, PidsOK
<1> QED
  BY <1>1, <1>2, <1>3 DEF CoreInv

\* A module that is started has no child, so the new one is its only one.
LEMMA SpawnedKeeps ==
  ASSUME CoreInv, NEW m \in Modules, ~Running(m), spawned < MaxSpawns, Spawned(m),
         spawned' = spawned + 1, UNCHANGED timers
  PROVE  CoreInv'
<1> USE Numbers
<1> DEFINE n == spawned + 1
<1>1. /\ n \in Children /\ spawned \in Nat /\ n' = n + 1 /\ modules[m].proc = NoProc
      /\ children[n].state = "unborn"
  BY DEF CoreInv, CoreType, RecordsOK
<1>2. PICK pid \in {n} \cup {timer[2] : timer \in timers} :
        /\ pid \notin AlivePids
        /\ children' = [children EXCEPT ![n] = Born(m, pid, "alive")]
        /\ modules' = [modules EXCEPT ![m] = [status |-> "running", pid |-> pid, proc |-> n,
                         exitCode |-> "null"]]
        /\ UNCHANGED erred
  BY DEF Spawned
<1>3. pid \in Pids /\ pid <= n
  BY <1>1 DEF CoreInv, CoreType, PidsOK
<1>4. CoreType'
  BY <1>1, <1>2, <1>3 DEF CoreInv, CoreType, ModuleRecord, ChildRecord, ExitCodes, Born
<1>5. /\ \A c \in Children \ {n} : children'[c] = children[c]
      /\ children'[n] = Born(m, pid, "alive")
      /\ \A k \in Modules \ {m} : modules'[k] = modules[k]
      /\ modules'[m] = [status |-> "running", pid |-> pid, proc |-> n, exitCode |-> "null"]
  BY <1>1, <1>2 DEF CoreInv, CoreType
<1>6. RecordsOK'
  <2>1. \A k \in Modules : Running(k)' <=> modules'[k].proc # NoProc
    BY <1>1, <1>5 DEF CoreInv, RecordsOK, Running
  <2>2. \A k \in Modules :
          modules'[k].proc # NoProc =>
            /\ children'[modules'[k].proc].of = k /\ Open(modules[k].proc)'
            /\ children'[modules'[k].proc].pid = modules'[k].pid /\ modules'[k].pid \in Pids
    <3> TAKE k \in Modules
    <3>1. CASE k = m
      BY <3>1, <1>3, <1>5 DEF Open, Born
    <3>2. CASE k # m
      <4>1. HAVE modules'[k].proc # NoProc
      <4>2. modules[k].proc \in Children /\ Open(modules[k].proc)
        BY <3>2, <4>1, <1>5 DEF CoreInv, RecordsOK, CoreType, ModuleRecord
      <4>3. modules[k].proc # n
        BY <4>2, <1>1 DEF Open
      <4> QED
        BY <3>2, <4>1, <4>2, <4>3, <1>5 DEF CoreInv, RecordsOK, Open
    <3> QED
      BY <3>1, <3>2
  <2>3. \A k \in Modules \ erred' : \A c \in Children :
          children'[c].of = k /\ Open(c)' => modules'[k].proc = c
    <3> TAKE k \in Modules \ erred'
    <3> TAKE c \in Children
    <3>1. HAVE children'[c].of = k /\ Open(c)'
    <3>2. CASE c = n
      BY <3>1, <3>2, <1>5 DEF Born
    <3>3. CASE c # n
      <4>1. modules[k].proc = c
        BY <3>1, <3>3, <1>2, <1>5 DEF CoreInv, RecordsOK, Open
      <4>2. k # m
        BY <4>1, <1>1
      <4> QED
        BY <4>1, <4>2, <1>5
    <3> QED
      BY <3>2, <3>3
  <2>4. \A c \in Children : c > spawned' => children'[c].state = "unborn"
    BY <1>1, <1>5 DEF CoreInv, RecordsOK
  <2> QED
    BY <2>1, <2>2, <2>3, <2>4 DEF RecordsOK
<1>7. KilledOK'
  BY <1>5 DEF CoreInv, KilledOK, Born
<1>8. PidsOK'
  <2>1. /\ \A c \in Children : children'[c].pid <= spawned'
        /\ \A timer \in timers' : timer[2] <= spawned'
    BY <1>1, <1>3, <1>5, SMTT(30) DEF CoreInv, CoreType, ChildRecord, PidsOK, Born
  <2>2. \A c, d \in Children :
          c # d /\ children'[c].pid = d => ~(children'[d].state = "alive" /\ children'[d].pid = d)
    <3> TAKE c, d \in Children
    <3>1. CASE c # n /\ d # n
      BY <3>1, <1>5 DEF CoreInv, PidsOK
    <3>2. CASE c # n /\ d = n
      BY <3>2, <1>1, <1>5 DEF CoreInv, PidsOK
    <3>3. CASE c = n /\ d # n
      <4>1. SUFFICES ASSUME pid = d, children[d].state = "alive", children[d].pid = d PROVE FALSE
        BY <3>3, <1>5 DEF Born
      <4> QED
        BY <4>1, <1>2 DEF AlivePids
    <3> QED
      BY <3>1, <3>2, <3>3
  <2>3. \A timer \in timers' : \A d \in Children :
          timer[2] = d /\ children'[d].state = "alive" /\ children'[d].pid = d
            => \A k \in Modules : modules'[k].proc # d
    <3> TAKE timer \in timers'
    <3> TAKE d \in Children
    <3>1. HAVE timer[2] = d /\ children'[d].state = "alive" /\ children'[d].pid = d
    <3>2. d # n
      BY <3>1, <1>1 DEF CoreInv, PidsOK
    <3> QED
      BY <3>1, <3>2, <1>5 DEF CoreInv, PidsOK
  <2> QED
    BY <2>1, <2>2, <2>3 DEF PidsOK
<1> QED
  BY <1>4, <1>6, <1>7, <1>8 DEF CoreInv

\* A start that fails leaves no child behind that could be a second one: the module has
\* emitted `error`, or nothing was born.
LEMMA NotSpawnedKeeps ==
  ASSUME CoreInv, NEW m \in Modules, ~Running(m), spawned < MaxSpawns,
         SpawnFails(m) \/ SpawnThrows(m),
         spawned' = spawned + 1, UNCHANGED timers
  PROVE  CoreInv'
<1> USE Numbers
<1> DEFINE n == spawned + 1
<1>1. /\ n \in Children /\ spawned \in Nat /\ n' = n + 1 /\ modules[m].proc = NoProc
      /\ children[n].state = "unborn"
  BY DEF CoreInv, CoreType, RecordsOK
<1>2. PICK child \in {Born(m, NoPid, "exited"), NeverBorn(m)} :
        /\ children' = [children EXCEPT ![n] = child]
        /\ child.state = "exited" => m \in erred'
  <2>1. CASE SpawnFails(m)
    BY <2>1 DEF SpawnFails, CoreInv, CoreType
  <2>2. CASE SpawnThrows(m)
    BY <2>2 DEF SpawnThrows, NeverBorn
  <2> QED
    BY <2>1, <2>2
<1>3. PICK record \in ModuleRecord :
        /\ record.status = "error" /\ record.proc = NoProc
        /\ modules' = [modules EXCEPT ![m] = record]
        /\ erred \subseteq erred' /\ erred' \subseteq Modules
  <2>1. CASE SpawnFails(m)
    <3> DEFINE record == [status |-> "error", pid |-> NoPid, proc |-> NoProc, exitCode |-> "null"]
    <3>1. record \in ModuleRecord
      BY DEF ModuleRecord, ExitCodes
    <3> QED
      BY <2>1, <3>1 DEF SpawnFails, CoreInv, CoreType
  <2>2. CASE SpawnThrows(m)
    <3> DEFINE record == [modules[m] EXCEPT !.status = "error", !.exitCode = "null"]
    <3>a. modules[m] \in ModuleRecord
      BY DEF CoreInv, CoreType
    <3>1. record \in ModuleRecord /\ record.status = "error" /\ record.proc = NoProc
      BY <1>1, <3>a DEF ModuleRecord, ExitCodes
    <3>2. modules' = [modules EXCEPT ![m] = record]
      BY <2>2 DEF SpawnThrows, CoreInv, CoreType, ModuleRecord
    <3> QED
      BY <2>2, <3>1, <3>2 DEF SpawnThrows, CoreInv, CoreType
  <2> QED
    BY <2>1, <2>2
<1>4. child \in ChildRecord /\ child.of = m /\ child.pid = NoPid /\ ~child.killed
      /\ child.state \in {"exited", "gone"}
  <2>1. CASE child = Born(m, NoPid, "exited")
    BY <2>1 DEF Born, ChildRecord, ExitCodes
  <2>2. CASE child = NeverBorn(m)
    BY <2>2 DEF NeverBorn, ChildRecord, ExitCodes
  <2> QED
    BY <2>1, <2>2
<1>5. /\ \A c \in Children \ {n} : children'[c] = children[c]
      /\ children'[n] = child
      /\ \A k \in Modules \ {m} : modules'[k] = modules[k]
      /\ modules'[m] = record
  BY <1>1, <1>2, <1>3 DEF CoreInv, CoreType
<1>6. CoreType'
  BY <1>1, <1>2, <1>3, <1>4 DEF CoreInv, CoreType
<1>7. RecordsOK'
  <2>1. \A k \in Modules : Running(k)' <=> modules'[k].proc # NoProc
    BY <1>3, <1>5 DEF CoreInv, RecordsOK, Running
  <2>2. \A k \in Modules :
          modules'[k].proc # NoProc =>
            /\ children'[modules'[k].proc].of = k /\ Open(modules[k].proc)'
            /\ children'[modules'[k].proc].pid = modules'[k].pid /\ modules'[k].pid \in Pids
    <3> TAKE k \in Modules
    <3>1. HAVE modules'[k].proc # NoProc
    <3>2. k # m /\ modules[k].proc \in Children /\ Open(modules[k].proc)
      BY <3>1, <1>3, <1>5 DEF CoreInv, RecordsOK, CoreType, ModuleRecord
    <3>3. modules[k].proc # n
      BY <3>2, <1>1 DEF Open
    <3> QED
      BY <3>1, <3>2, <3>3, <1>5 DEF CoreInv, RecordsOK, Open
  <2>3. \A k \in Modules \ erred' : \A c \in Children :
          children'[c].of = k /\ Open(c)' => modules'[k].proc = c
    <3> TAKE k \in Modules \ erred'
    <3> TAKE c \in Children
    <3>1. HAVE children'[c].of = k /\ Open(c)'
    <3>2. c # n
      BY <3>1, <1>2, <1>4, <1>5 DEF Open
    <3>3. modules[k].proc = c
      BY <3>1, <3>2, <1>3, <1>5 DEF CoreInv, RecordsOK, Open
    <3> QED
      BY <3>3, <1>1, <1>5
  <2>4. \A c \in Children : c > spawned' => children'[c].state = "unborn"
    BY <1>1, <1>5 DEF CoreInv, RecordsOK
  <2> QED
    BY <2>1, <2>2, <2>3, <2>4 DEF RecordsOK
<1>8. KilledOK'
  BY <1>4, <1>5 DEF CoreInv, KilledOK
<1>9. PidsOK'
  <2>1. /\ \A c \in Children : children'[c].pid <= spawned'
        /\ \A timer \in timers' : timer[2] <= spawned'
    BY <1>1, <1>4, <1>5 DEF CoreInv, CoreType, ChildRecord, PidsOK
  <2>2. \A c, d \in Children :
          c # d /\ children'[c].pid = d => ~(children'[d].state = "alive" /\ children'[d].pid = d)
    BY <1>4, <1>5 DEF CoreInv, PidsOK
  <2>3. \A timer \in timers' : \A d \in Children :
          timer[2] = d /\ children'[d].state = "alive" /\ children'[d].pid = d
            => \A k \in Modules : modules'[k].proc # d
    BY <1>3, <1>4, <1>5 DEF CoreInv, PidsOK
  <2> QED
    BY <2>1, <2>2, <2>3 DEF PidsOK
<1> QED
  BY <1>6, <1>7, <1>8, <1>9 DEF CoreInv

LEMMA StartKeeps ==
  ASSUME CoreInv, NEW m \in Modules, Start(m)
  PROVE  CoreInv'
BY SpawnedKeeps, NotSpawnedKeeps DEF Start

\* What kills, timers and children that end have in common: some children that were alive
\* have ended, some records have let go of a child that refused to, and a new timer is about
\* one of either kind.
LEMMA EndingKeeps ==
  ASSUME CoreInv, CoreType', KilledOK', UNCHANGED spawned, erred \subseteq erred',
         \A c \in Children :
           \/ children'[c] = children[c]
           \/ /\ children[c].state = "alive" /\ children'[c].state = "exited"
              /\ children'[c].of = children[c].of /\ children'[c].pid = children[c].pid,
         \A k \in Modules :
           \/ modules'[k] = modules[k]
           \/ k \in erred' /\ modules'[k].status = "error" /\ modules'[k].proc = NoProc,
         \A timer \in timers' \ timers :
           \E k \in Modules :
             /\ Running(k) /\ timer[2] = modules[k].pid
             /\ \/ modules'[k].proc = NoProc
                \/ children'[modules[k].proc].state # "alive"
  PROVE  CoreInv'
<1> USE Numbers
<1>1. \A c \in Children : /\ Open(c)' <=> Open(c)
                          /\ children'[c].of = children[c].of
                          /\ children'[c].pid = children[c].pid
                          /\ children'[c].state = "alive" => children[c].state = "alive"
                          /\ children'[c].state = "unborn" <=> children[c].state = "unborn"
  BY DEF Open
<1>2. \A k \in Modules : modules[k].proc \in Children \cup {NoProc}
  BY DEF CoreInv, CoreType, ModuleRecord
<1>3. RecordsOK'
  <2>1. \A k \in Modules : Running(k)' <=> modules'[k].proc # NoProc
    BY DEF CoreInv, RecordsOK, Running
  <2>2. \A k \in Modules :
          modules'[k].proc # NoProc =>
            /\ children'[modules'[k].proc].of = k /\ Open(modules[k].proc)'
            /\ children'[modules'[k].proc].pid = modules'[k].pid /\ modules'[k].pid \in Pids
    <3> TAKE k \in Modules
    <3>1. HAVE modules'[k].proc # NoProc
    <3>2. modules'[k] = modules[k] /\ modules[k].proc \in Children
      BY <3>1, <1>2
    <3> QED
      BY <3>1, <3>2, <1>1 DEF CoreInv, RecordsOK, Open
  <2>3. \A k \in Modules \ erred' : \A c \in Children :
          children'[c].of = k /\ Open(c)' => modules'[k].proc = c
    BY <1>1 DEF CoreInv, RecordsOK
  <2>4. \A c \in Children : c > spawned' => children'[c].state = "unborn"
    BY <1>1 DEF CoreInv, RecordsOK
  <2> QED
    BY <2>1, <2>2, <2>3, <2>4 DEF RecordsOK
<1>4. PidsOK'
  <2>1. \A timer \in timers' \ timers :
          \E k \in Modules : /\ modules[k].proc \in Children
                            /\ timer[2] = children[modules[k].proc].pid
                            /\ \/ modules'[k].proc = NoProc
                               \/ children'[modules[k].proc].state # "alive"
    BY <1>2 DEF CoreInv, RecordsOK
  <2>2. /\ \A c \in Children : children'[c].pid <= spawned'
        /\ \A timer \in timers' : timer[2] <= spawned'
    BY <1>1, <2>1 DEF CoreInv, PidsOK
  <2>3. \A c, d \in Children :
          c # d /\ children'[c].pid = d => ~(children'[d].state = "alive" /\ children'[d].pid = d)
    BY <1>1 DEF CoreInv, PidsOK
  <2>4. \A timer \in timers' : \A d \in Children :
          timer[2] = d /\ children'[d].state = "alive" /\ children'[d].pid = d
            => \A k \in Modules : modules'[k].proc # d
    <3> TAKE timer \in timers'
    <3> TAKE d \in Children
    <3>1. HAVE timer[2] = d /\ children'[d].state = "alive" /\ children'[d].pid = d
    <3>2. children[d].state = "alive" /\ children[d].pid = d /\ d # NoProc
      BY <3>1, <1>1
    <3>3. CASE timer \in timers
      BY <3>1, <3>2, <3>3 DEF CoreInv, PidsOK
    <3>4. CASE timer \notin timers
      <4>1. PICK k \in Modules : /\ modules[k].proc \in Children
                                 /\ timer[2] = children[modules[k].proc].pid
                                 /\ \/ modules'[k].proc = NoProc
                                    \/ children'[modules[k].proc].state # "alive"
        BY <2>1, <3>4
      <4>2. modules[k].proc = d
        BY <3>1, <3>2, <4>1 DEF CoreInv, PidsOK
      <4>3. modules'[k].proc = NoProc
        BY <3>1, <4>1, <4>2
      <4>4. \A other \in Modules : modules[other].proc = d => other = k
        BY <3>2, <4>2 DEF CoreInv, RecordsOK
      <4> QED
        BY <3>2, <4>3, <4>4
    <3> QED
      BY <3>3, <3>4
  <2> QED
    BY <2>2, <2>3, <2>4 DEF PidsOK
<1> QED
  BY <1>3, <1>4 DEF CoreInv

\* A kill ends the children it reaches and makes the records of the others let go.
LEMMA KillKeeps ==
  ASSUME CoreInv, NEW targets \in SUBSET Modules, NEW failed \in Refusing(targets),
         children' = KilledChildren(targets, failed),
         modules' = [m \in Modules |-> IF m \in failed THEN ErrorEvent(modules[m]) ELSE modules[m]],
         erred' = erred \cup failed, UNCHANGED spawned,
         \/ UNCHANGED timers
         \/ /\ timers' = timers \cup {<<m, modules[m].pid>> : m \in targets}
            /\ \A m \in targets : Running(m)
  PROVE  CoreInv'
<1> USE Numbers
<1>1. /\ failed \subseteq targets /\ failed \subseteq Modules
      /\ \A m \in failed : modules[m].proc # NoProc
  BY DEF Refusing
<1>2. \A c \in Children :
        \/ children'[c] = children[c]
        \/ /\ children[c].state = "alive"
           /\ children'[c] = [children[c] EXCEPT !.killed = TRUE, !.state = "exited", !.code = "other"]
  BY DEF KilledChildren
<1>3. \A c \in Children :
        LET ended == [children[c] EXCEPT !.killed = TRUE, !.state = "exited", !.code = "other"]
        IN  /\ ended \in ChildRecord /\ ended.state = "exited"
            /\ ended.of = children[c].of /\ ended.pid = children[c].pid
  <2> TAKE c \in Children
  <2>1. children[c] \in ChildRecord
    BY DEF CoreInv, CoreType
  <2> QED
    BY <2>1 DEF ChildRecord, ExitCodes
<1>4. \A m \in Modules :
        /\ ErrorEvent(modules[m]) \in ModuleRecord
        /\ ErrorEvent(modules[m]).status = "error" /\ ErrorEvent(modules[m]).proc = NoProc
  <2> TAKE m \in Modules
  <2>1. modules[m] \in ModuleRecord
    BY DEF CoreInv, CoreType
  <2> QED
    BY <2>1 DEF ModuleRecord, ErrorEvent
<1>5. CoreType'
  <2>1. children' \in [Children -> ChildRecord]
    <3>1. \A c \in Children : children'[c] \in ChildRecord
      <4> TAKE c \in Children
      <4>1. CASE children'[c] = children[c]
        BY <4>1 DEF CoreInv, CoreType
      <4>2. CASE children'[c] = [children[c] EXCEPT !.killed = TRUE, !.state = "exited", !.code = "other"]
        BY <4>2, <1>3, ZenonT(40)
      <4> QED
        BY <1>2, <4>1, <4>2
    <3> QED
      BY <3>1 DEF KilledChildren
  <2>2. modules' \in [Modules -> ModuleRecord]
    BY <1>4 DEF CoreInv, CoreType
  <2>3. timers' \subseteq Modules \X Pids
    <3>1. CASE UNCHANGED timers
      BY <3>1 DEF CoreInv, CoreType
    <3>2. CASE /\ timers' = timers \cup {<<m, modules[m].pid>> : m \in targets}
               /\ \A m \in targets : Running(m)
      <4>1. \A m \in targets : m \in Modules /\ modules[m].pid \in Pids
        BY <3>2 DEF CoreInv, RecordsOK
      <4> QED
        BY <3>2, <4>1 DEF CoreInv, CoreType
    <3> QED
      BY <3>1, <3>2
  <2> QED
    BY <1>1, <2>1, <2>2, <2>3 DEF CoreInv, CoreType
<1>6. KilledOK'
  <2>1. \A c \in Children : children'[c].killed => children'[c].state = "exited"
    <3> TAKE c \in Children
    <3>1. CASE children'[c] = children[c]
      BY <3>1 DEF CoreInv, KilledOK
    <3>2. CASE children'[c] = [children[c] EXCEPT !.killed = TRUE, !.state = "exited", !.code = "other"]
      BY <3>2, <1>3
    <3> QED
      BY <1>2, <3>1, <3>2
  <2> QED
    BY <2>1 DEF KilledOK
<1>7. \A c \in Children :
        \/ children'[c] = children[c]
        \/ /\ children[c].state = "alive" /\ children'[c].state = "exited"
           /\ children'[c].of = children[c].of /\ children'[c].pid = children[c].pid
  BY <1>2, <1>3
<1>8. \A k \in Modules :
        \/ modules'[k] = modules[k]
        \/ k \in erred' /\ modules'[k].status = "error" /\ modules'[k].proc = NoProc
  BY <1>4
<1>9. \A timer \in timers' \ timers :
        \E k \in Modules :
          /\ Running(k) /\ timer[2] = modules[k].pid
          /\ \/ modules'[k].proc = NoProc
             \/ children'[modules[k].proc].state # "alive"
  <2> TAKE timer \in timers' \ timers
  <2>1. PICK k \in targets : timer = <<k, modules[k].pid>> /\ Running(k)
    OBVIOUS
  <2>2. k \in Modules /\ modules[k].proc \in Children
    BY <2>1 DEF CoreInv, CoreType, RecordsOK, ModuleRecord
  <2>3. CASE k \in failed
    BY <1>4, <2>1, <2>2, <2>3
  <2>4. CASE k \notin failed
    <3>1. children[modules[k].proc].state = "alive" => children'[modules[k].proc] =
            [children[modules[k].proc] EXCEPT !.killed = TRUE, !.state = "exited", !.code = "other"]
      BY <2>1, <2>2, <2>4 DEF KilledChildren
    <3>2. children'[modules[k].proc].state # "alive"
      BY <1>2, <1>3, <2>2, <3>1
    <3> QED
      BY <2>1, <2>2, <3>2
  <2> QED
    BY <2>3, <2>4
<1> QED
  BY <1>5, <1>6, <1>7, <1>8, <1>9, EndingKeeps

LEMMA StopKeeps ==
  ASSUME CoreInv, NEW targets \in SUBSET Modules, StopModules(targets)
  PROVE  CoreInv'
<1> DEFINE stopped == {m \in targets : Running(m)}
<1>1. PICK failed \in Refusing(stopped) :
        /\ children' = KilledChildren(stopped, failed)
        /\ modules' = [m \in Modules |-> IF m \in failed THEN ErrorEvent(modules[m]) ELSE modules[m]]
        /\ timers' = timers \cup {<<m, modules[m].pid>> : m \in stopped}
        /\ erred' = erred \cup failed
        /\ UNCHANGED spawned
  BY DEF StopModules
<1>2. stopped \in SUBSET Modules /\ \A m \in stopped : Running(m)
  OBVIOUS
<1> QED
  BY <1>1, <1>2, KillKeeps

LEMMA ShutdownKeeps ==
  ASSUME CoreInv, Shutdown
  PROVE  CoreInv'
<1> DEFINE targets == {m \in Modules : modules[m].proc # NoProc /\ ~children[modules[m].proc].killed}
<1>1. PICK failed \in Refusing(targets) :
        /\ children' = KilledChildren(targets, failed)
        /\ modules' = [m \in Modules |-> IF m \in failed THEN ErrorEvent(modules[m]) ELSE modules[m]]
        /\ erred' = erred \cup failed
        /\ UNCHANGED <<spawned, timers>>
  BY DEF Shutdown
<1>2. targets \in SUBSET Modules
  OBVIOUS
<1> QED
  BY <1>1, <1>2, KillKeeps

\* A child that ends without a kill.
LEMMA EndedIsChild ==
  ASSUME CoreType, NEW c \in Children, NEW code \in ExitCodes
  PROVE  LET ended == [children[c] EXCEPT !.state = "exited", !.code = code]
         IN  /\ ended \in ChildRecord /\ ended.state = "exited"
             /\ ended.of = children[c].of /\ ended.pid = children[c].pid
<1>1. children[c] \in ChildRecord
  BY DEF CoreType
<1> QED
  BY <1>1 DEF ChildRecord

LEMMA ForceStopKeeps ==
  ASSUME CoreInv, NEW timer \in timers, ForceStop(timer)
  PROVE  CoreInv'
<1>1. \A c \in Children :
        \/ children'[c] = children[c]
        \/ /\ children[c].state = "alive"
           /\ children'[c] = [children[c] EXCEPT !.state = "exited", !.code = "other"]
  BY DEF ForceStop
<1>2. /\ timers' \subseteq timers /\ UNCHANGED <<modules, spawned, erred>>
      /\ children' = [c \in Children |-> children'[c]]
  BY DEF ForceStop, CoreInv, CoreType
<1>3. "other" \in ExitCodes
  BY DEF ExitCodes
<1>4. \A c \in Children :
        children'[c] \in ChildRecord /\
        \/ children'[c] = children[c]
        \/ /\ children[c].state = "alive" /\ children'[c].state = "exited"
           /\ children'[c].of = children[c].of /\ children'[c].pid = children[c].pid
  <2> TAKE c \in Children
  <2>1. CASE children'[c] = children[c]
    BY <2>1 DEF CoreInv, CoreType
  <2>2. CASE /\ children[c].state = "alive"
             /\ children'[c] = [children[c] EXCEPT !.state = "exited", !.code = "other"]
    <3>1. children[c] \in ChildRecord
      BY DEF CoreInv, CoreType
    <3> QED
      BY <2>2, <3>1, <1>3 DEF ChildRecord
  <2> QED
    BY <1>1, <2>1, <2>2
<1>5. CoreType'
  BY <1>2, <1>4 DEF CoreInv, CoreType
<1>6. KilledOK'
  BY <1>4 DEF CoreInv, KilledOK
<1> QED
  BY <1>2, <1>4, <1>5, <1>6, EndingKeeps

LEMMA ChildExitsKeeps ==
  ASSUME CoreInv, NEW c \in Children, ChildExits(c)
  PROVE  CoreInv'
<1>1. PICK code \in {"0", "other"} :
        children' = [children EXCEPT ![c].state = "exited", ![c].code = code]
  BY DEF ChildExits
<1>2. /\ UNCHANGED <<modules, spawned, timers, erred>> /\ children[c].state = "alive"
      /\ code \in ExitCodes
  BY DEF ChildExits, ExitCodes
<1>3. children' = [children EXCEPT ![c] = [children[c] EXCEPT !.state = "exited", !.code = code]]
  BY <1>1 DEF CoreInv, CoreType, ChildRecord
<1>4. \A d \in Children :
        children'[d] \in ChildRecord /\
        \/ children'[d] = children[d]
        \/ /\ children[d].state = "alive" /\ children'[d].state = "exited"
           /\ children'[d].of = children[d].of /\ children'[d].pid = children[d].pid
  BY <1>2, <1>3, EndedIsChild, ZenonT(40) DEF CoreInv, CoreType
<1>5. CoreType'
  BY <1>2, <1>3, <1>4 DEF CoreInv, CoreType
<1>6. KilledOK'
  BY <1>4 DEF CoreInv, KilledOK
<1> QED
  BY <1>2, <1>4, <1>5, <1>6, EndingKeeps

\* With `close` the child is gone; if its module emitted no `error`, the record was about it.
LEMMA CloseKeeps ==
  ASSUME CoreInv, NEW c \in Children, CloseEvent(c)
  PROVE  CoreInv'
<1> USE Numbers
<1> DEFINE m == children[c].of
           record == CloseRecord(modules[m], c)
           child == [children[c] EXCEPT !.state = "gone", !.pid = NoPid, !.killed = FALSE, !.code = "null"]
<1>1. children[c] \in ChildRecord /\ children[c].state = "exited" /\ UNCHANGED <<spawned, timers, erred>>
  BY DEF CoreInv, CoreType, CloseEvent
<1>2. m \in Modules /\ children[c].code \in ExitCodes /\ modules[m] \in ModuleRecord
  BY <1>1 DEF CoreInv, CoreType, ChildRecord
<1>3. /\ record \in ModuleRecord /\ record.status \in {"stopped", "error"} /\ record.proc = NoProc
  BY <1>2 DEF CloseRecord, ModuleRecord
<1>4. child \in ChildRecord /\ child.state = "gone" /\ child.pid = NoPid /\ ~child.killed
  BY <1>1 DEF ChildRecord, ExitCodes
<1>5. children' = [children EXCEPT ![c] = child]
  BY DEF CloseEvent, Gone, CoreInv, CoreType, ChildRecord
<1>6. modules' = [modules EXCEPT ![m] = record]
  BY DEF CloseEvent
<1>7. /\ children'[c] = child /\ \A d \in Children \ {c} : children'[d] = children[d]
      /\ modules'[m] = record /\ \A k \in Modules \ {m} : modules'[k] = modules[k]
  BY <1>2, <1>5, <1>6 DEF CoreInv, CoreType
<1> HIDE DEF record, child
<1>8. CoreType'
  BY <1>1, <1>3, <1>4, <1>5, <1>6 DEF CoreInv, CoreType
<1>9. RecordsOK'
  <2>1. \A k \in Modules : Running(k)' <=> modules'[k].proc # NoProc
    BY <1>3, <1>7 DEF CoreInv, RecordsOK, Running
  <2>2. \A k \in Modules :
          modules'[k].proc # NoProc =>
            /\ children'[modules'[k].proc].of = k /\ Open(modules[k].proc)'
            /\ children'[modules'[k].proc].pid = modules'[k].pid /\ modules'[k].pid \in Pids
    <3> TAKE k \in Modules
    <3>1. HAVE modules'[k].proc # NoProc
    <3>2. k # m /\ modules'[k] = modules[k] /\ modules[k].proc \in Children
      BY <3>1, <1>3, <1>7 DEF CoreInv, CoreType, ModuleRecord
    <3>3. modules[k].proc # c
      BY <3>1, <3>2 DEF CoreInv, RecordsOK
    <3> QED
      BY <3>1, <3>2, <3>3, <1>7 DEF CoreInv, RecordsOK, Open
  <2>3. \A k \in Modules \ erred' : \A d \in Children :
          children'[d].of = k /\ Open(d)' => modules'[k].proc = d
    <3> TAKE k \in Modules \ erred'
    <3> TAKE d \in Children
    <3>1. HAVE children'[d].of = k /\ Open(d)'
    <3>2. d # c
      BY <3>1, <1>4, <1>7 DEF Open
    <3>3. modules[k].proc = d
      BY <3>1, <3>2, <1>1, <1>7 DEF CoreInv, RecordsOK, Open
    <3>4. k # m
      BY <3>2, <3>3, <1>1 DEF CoreInv, RecordsOK, Open
    <3> QED
      BY <3>3, <3>4, <1>7
  <2>4. \A d \in Children : d > spawned' => children'[d].state = "unborn"
    BY <1>1, <1>7 DEF CoreInv, RecordsOK
  <2> QED
    BY <2>1, <2>2, <2>3, <2>4 DEF RecordsOK
<1>10. KilledOK'
  BY <1>4, <1>7 DEF CoreInv, KilledOK
<1>11. PidsOK'
  <2>1. /\ \A d \in Children : children'[d].pid <= spawned'
        /\ \A timer \in timers' : timer[2] <= spawned'
    BY <1>1, <1>4, <1>7 DEF CoreInv, CoreType, PidsOK
  <2>2. \A b, d \in Children :
          b # d /\ children'[b].pid = d => ~(children'[d].state = "alive" /\ children'[d].pid = d)
    BY <1>4, <1>7 DEF CoreInv, PidsOK
  <2>3. \A timer \in timers' : \A d \in Children :
          timer[2] = d /\ children'[d].state = "alive" /\ children'[d].pid = d
            => \A k \in Modules : modules'[k].proc # d
    BY <1>1, <1>3, <1>4, <1>7 DEF CoreInv, PidsOK
  <2> QED
    BY <2>1, <2>2, <2>3 DEF PidsOK
<1> QED
  BY <1>8, <1>9, <1>10, <1>11 DEF CoreInv

-----------------------------------------------------------------------------
(* The invariant *)

\* Any step of the system keeps what is known of records, children and timers.
LEMMA CoreStep ==
  ASSUME CoreInv, [Next]_vars
  PROVE  CoreInv'
<1>1. CASE UNCHANGED core
  BY <1>1 DEF core, CoreInv, CoreType, RecordsOK, KilledOK, PidsOK, Running, Open
<1> QED
  BY <1>1, StepKinds, StartKeeps, StopKeeps, ShutdownKeeps, ForceStopKeeps, ChildExitsKeeps,
     CloseKeeps

\* What TypeOK says beyond CoreType.
OtherType ==
  /\ startAll \in [StartAllCalls -> 0..Len(ModuleOrder) + 1]
  /\ server \in {"starting", "listening", "failed", "closing", "exited"}
  /\ page \in [Pages -> {"absent", "fetching", "connecting", "open"}]

LEMMA OtherTypeStep ==
  ASSUME OtherType, [Next]_vars
  PROVE  OtherType'
<1> USE Numbers DEF OtherType
<1>0. ASSUME Emit \/ UNCHANGED feedVars
      PROVE  UNCHANGED page
  BY <1>0 DEF Emit, feedVars
<1>1. ASSUME NEW m \in Modules, Start(m) PROVE UNCHANGED page
  BY <1>0, <1>1 DEF Start
<1>2. ASSUME NEW targets, StopModules(targets) PROVE UNCHANGED <<page, startAll>>
  BY <1>0, <1>2 DEF StopModules
<1>3. ASSUME Shutdown PROVE UNCHANGED <<page, startAll>>
  BY <1>0, <1>3 DEF Shutdown
<1>4. CASE Command
  <2>1. UNCHANGED server
    BY <1>4 DEF Command
  <2>2. CASE \E m \in Modules : Start(m) /\ UNCHANGED startAll
    BY <2>1, <2>2, <1>1
  <2>3. CASE (\E m \in Modules : Stop(m)) \/ StopAll
    BY <2>1, <2>3, <1>2 DEF Stop, StopAll
  <2>4. CASE \E call \in StartAllCalls :
               /\ Start(ModuleOrder[1]) \/ UNCHANGED feedVars
               /\ startAll' = [startAll EXCEPT ![call] = 2]
    <3>1. UNCHANGED page
      BY <2>4, <1>0, <1>1
    <3>2. startAll' \in [StartAllCalls -> 0..Len(ModuleOrder) + 1]
      BY <2>4
    <3> QED
      BY <2>1, <3>1, <3>2
  <2> QED
    BY <1>4, <2>2, <2>3, <2>4 DEF Command
<1>5. CASE Continue
  <2>1. UNCHANGED server
    BY <1>5 DEF Continue
  <2>2. ASSUME NEW call \in StartAllCalls, StartAllNext(call)
        PROVE  OtherType'
    <3>1. \A i \in DOMAIN ModuleOrder : ModuleOrder[i] \in Modules
      BY DEF Modules
    <3>2. UNCHANGED page
      BY <2>2, <3>1, <1>0, <1>1 DEF StartAllNext
    <3>3. startAll' = [startAll EXCEPT ![call] = Advanced(startAll[call])]
      BY <2>2 DEF StartAllNext
    <3>4. Advanced(startAll[call]) \in 0..Len(ModuleOrder) + 1
      BY DEF Advanced
    <3> QED
      BY <2>1, <3>2, <3>3, <3>4
  <2>3. CASE (\E timer \in timers : ForceStop(timer)) \/ \E c \in Children : CloseEvent(c)
    BY <2>1, <2>3, <1>0 DEF ForceStop, CloseEvent
  <2> QED
    BY <1>5, <2>2, <2>3 DEF Continue
<1>6. CASE Listen \/ Child \/ UNCHANGED vars
  BY <1>6 DEF Listen, Child, ChildExits, vars, managerVars, feedVars
<1>7. CASE Page
  BY <1>7 DEF Page, managerVars, OpenPage, Mounted, ConnectWS, HandleMessage, LoseSocket
<1>8. CASE SigInt \/ ServerClosed
  BY <1>8, <1>3 DEF SigInt, ServerClosed
<1> QED
  BY <1>4, <1>5, <1>6, <1>7, <1>8 DEF Next

\* The whole type is that of the two parts.
LEMMA TypeParts == TypeOK <=> CoreType /\ OtherType
  BY DEF TypeOK, ManagerTypeOK, CoreType, OtherType, ModuleRecord, ChildRecord

\* The state of the dashboard's server keeps its type.
THEOREM ControlCenterTypeCorrect == Spec => []TypeOK
<1>1. Init => OtherType
  BY Numbers DEF Init, ManagerInit, FeedInit, OtherType
<1>2. CoreInv /\ OtherType /\ [Next]_vars => (CoreInv /\ OtherType)'
  BY CoreStep, OtherTypeStep
<1>3. CoreInv /\ OtherType => TypeOK
  BY TypeParts DEF CoreInv
<1> QED
  BY CoreInit, <1>1, <1>2, <1>3, PTL DEF Spec

\* The inductive invariant holds always.
LEMMA CoreAlways == Spec => []CoreInv
  BY CoreInit, CoreStep, PTL DEF Spec

\* Whatever overlaps: "running" is said exactly of a module whose recorded child has not
\* closed, and a module that has emitted no `error` has no other child.
THEOREM RecordsAreTrue == Spec => []OneChild
<1>1. CoreInv => OneChild
  BY DEF CoreInv, RecordsOK, OneChild, Open
<1> QED
  BY CoreAlways, <1>1, PTL

\* A forced termination reaches the child of a record only by a pid that has come again.
THEOREM ForcedKillsAreStray == Spec => ForcedKillOnlyByReusedPid
<1> DEFINE Stray ==
      \A m \in Modules :
        LET c == modules[m].proc
        IN  /\ timers' # timers /\ c # NoProc
            /\ \E timer \in timers : ForceStop(timer)
            /\ children[c].state = "alive" /\ children'[c].state # "alive"
            => children[c].pid # c
<1>1. CoreInv => Stray
  <2> SUFFICES ASSUME CoreInv, NEW m \in Modules, modules[m].proc # NoProc,
                      NEW timer \in timers, ForceStop(timer),
                      children[modules[m].proc].state = "alive",
                      children'[modules[m].proc].state # "alive",
                      children[modules[m].proc].pid = modules[m].proc
               PROVE  FALSE
    OBVIOUS
  <2>1. modules[m].proc \in Children
    BY DEF CoreInv, CoreType, ModuleRecord
  <2>2. timer[2] = modules[m].proc
    BY <2>1 DEF ForceStop
  <2> QED
    BY <2>1, <2>2 DEF CoreInv, PidsOK
<1>2. CoreInv => [Stray]_vars
  BY <1>1
<1> HIDE DEF Stray
<1>3. Spec => [][Stray]_vars
  BY CoreAlways, <1>2, PTL
<1> QED
  BY <1>3 DEF ForcedKillOnlyByReusedPid, Stray

-----------------------------------------------------------------------------
(* The exit *)

\* While the server starts nothing has been asked of it.
NothingYet == server = "starting" => spawned = 0 /\ \A call \in StartAllCalls : startAll[call] = 0

\* Before the server listens there is no command, no timer and no child.
LEMMA NothingYetStep ==
  ASSUME CoreInv, NothingYet, [Next]_vars
  PROVE  NothingYet'
<1> USE Numbers
<1> SUFFICES ASSUME server' = "starting"
             PROVE  (spawned = 0 /\ \A call \in StartAllCalls : startAll[call] = 0)'
  BY DEF NothingYet
<1>1. server = "starting"
  BY DEF Next, Listen, Command, Continue, Child, Page, SigInt, ServerClosed, vars
<1>2. spawned = 0 /\ \A call \in StartAllCalls : startAll[call] = 0
  BY <1>1 DEF NothingYet
<1>3. CASE Continue
  <2>1. (\E timer \in timers : ForceStop(timer)) \/ \E c \in Children : CloseEvent(c)
    BY <1>2, <1>3 DEF Continue
  <2> QED
    BY <1>2, <2>1 DEF ForceStop, CloseEvent
<1>4. CASE Child \/ Page \/ UNCHANGED vars
  BY <1>2, <1>4 DEF Child, ChildExits, Page, vars, managerVars
<1> QED
  BY <1>1, <1>3, <1>4 DEF Next, Listen, Command, SigInt, ServerClosed

\* No step after the exit starts a child, and the exit itself ends those there are: one that
\* is alive, of a module without an `error`, is in its record and was not killed before.
LEMMA ExitStep ==
  ASSUME CoreInv, NothingYet, ExitLeavesNoChild, [Next]_vars
  PROVE  ExitLeavesNoChild'
<1> USE Numbers
<1> SUFFICES ASSUME server' = "exited", NEW c \in Children, children'[c].state = "alive"
             PROVE  children'[c].of \in erred'
  BY DEF ExitLeavesNoChild
<1>1. CASE server = "exited"
  <2>1. children[c].state = "alive" => children[c].of \in erred
    BY <1>1 DEF ExitLeavesNoChild
  <2>2. CASE Child
    <3>1. PICK d \in Children : ChildExits(d)
      BY <2>2 DEF Child
    <3>2. PICK code : children' = [children EXCEPT ![d].state = "exited", ![d].code = code]
      BY <3>1 DEF ChildExits
    <3>3. UNCHANGED erred /\ children[d] \in ChildRecord
      BY <3>1 DEF ChildExits, CoreInv, CoreType
    <3>4. c # d
      BY <3>2, <3>3 DEF CoreInv, CoreType, ChildRecord
    <3>5. children'[c] = children[c]
      BY <3>2, <3>4 DEF CoreInv, CoreType
    <3> QED
      BY <2>1, <3>3, <3>5
  <2>3. CASE Page \/ UNCHANGED vars
    BY <2>1, <2>3 DEF Page, managerVars, vars
  <2> QED
    BY <1>1, <2>2, <2>3 DEF Next, Listen, Command, Continue, Up, SigInt, ServerClosed
<1>2. CASE Listen /\ server # "exited"
  <2>1. spawned = 0 /\ UNCHANGED <<children, erred>>
    BY <1>2 DEF Listen, NothingYet, managerVars
  <2> QED
    BY <2>1 DEF CoreInv, RecordsOK
<1>3. CASE ServerClosed /\ server # "exited"
  <2> DEFINE targets == {m \in Modules : modules[m].proc # NoProc /\ ~children[modules[m].proc].killed}
  <2>1. PICK failed \in Refusing(targets) :
          children' = KilledChildren(targets, failed) /\ erred' = erred \cup failed
    BY <1>3 DEF ServerClosed, Shutdown
  <2>2. \/ children'[c] = children[c] /\ ~(\E m \in targets \ failed :
              children[c].state = "alive" /\ modules[m].proc = c)
        \/ children'[c] = [children[c] EXCEPT !.killed = TRUE, !.state = "exited", !.code = "other"]
    BY <2>1 DEF KilledChildren
  <2>3. children[c] \in ChildRecord
    BY DEF CoreInv, CoreType
  <2>4. children'[c] = children[c] /\ \A m \in targets \ failed : modules[m].proc # c
    BY <2>2, <2>3 DEF ChildRecord
  <2>5. children[c].of \in Modules /\ ~children[c].killed
    BY <2>3, <2>4 DEF ChildRecord, CoreInv, KilledOK
  <2>6. SUFFICES ASSUME children[c].of \notin erred PROVE children[c].of \in failed
    BY <2>1, <2>4
  <2>7. modules[children[c].of].proc = c
    BY <2>4, <2>5, <2>6 DEF CoreInv, RecordsOK, Open
  <2> QED
    BY <2>4, <2>5, <2>7
<1> QED
  BY <1>1, <1>2, <1>3 DEF Next, Command, Continue, Child, Page, SigInt, vars

\* When the server has exited it has left no child behind but of modules with an `error`.
THEOREM ExitIsClean == Spec => []ExitLeavesNoChild
<1>1. Init => NothingYet /\ ExitLeavesNoChild
  BY DEF Init, ManagerInit, NothingYet, ExitLeavesNoChild
<1> QED
  BY <1>1, CoreInit, CoreStep, NothingYetStep, ExitStep, PTL DEF Spec

-----------------------------------------------------------------------------
(* The pages *)

Statuses == [Modules -> [status : {"stopped", "running", "error"}, pid : Pids \cup {NoPid},
                         exitCode : ExitCodes]]

FeedType ==
  /\ page \in [Pages -> {"absent", "fetching", "connecting", "open"}]
  /\ inbox \in [Pages -> Seq(Statuses)]
  /\ view \in [Pages -> Statuses \cup {<< >>}]

\* The last message under way to an open page, or else what it shows, is the records.
Fresh ==
  \A p \in Pages :
    page[p] = "open" =>
      IF inbox[p] = << >> THEN view[p] = StatusOf(modules)
      ELSE inbox[p][Len(inbox[p])] = StatusOf(modules)

FeedInv == FeedType /\ Fresh

LEMMA StatusType == ASSUME CoreType PROVE StatusOf(modules) \in Statuses
  BY DEF CoreType, ModuleRecord, StatusOf, Statuses

\* A message to every open page renews what they will show.
LEMMA EmitFresh ==
  ASSUME FeedInv, CoreType', Emit
  PROVE  FeedInv'
<1>1. StatusOf(modules') \in Statuses
  BY StatusType DEF CoreType, ModuleRecord, StatusOf, Statuses
<1> DEFINE now == StatusOf(modules')
<1>2. /\ UNCHANGED <<page, view>>
      /\ inbox' = [p \in Pages |-> IF page[p] = "open" THEN Append(inbox[p], now) ELSE inbox[p]]
  BY DEF Emit, Broadcast
<1>3. StatusOf(modules)' = now
  BY DEF StatusOf
<1> HIDE DEF now
<1>4. now \in Statuses
  BY <1>1 DEF now
<1>5. FeedType'
  BY <1>2, <1>4 DEF FeedInv, FeedType
<1>6. Fresh'
  <2> SUFFICES ASSUME NEW p \in Pages, page'[p] = "open"
               PROVE  inbox'[p] # << >> /\ inbox'[p][Len(inbox'[p])] = now
    BY <1>3 DEF Fresh
  <2>1. inbox'[p] = Append(inbox[p], now) /\ inbox[p] \in Seq(Statuses)
    BY <1>2 DEF FeedInv, FeedType
  <2> QED
    BY <2>1, <1>4
<1> QED
  BY <1>5, <1>6 DEF FeedInv

\* The last message stays the last while others are handled before it.
LEMMA LastOfTail ==
  ASSUME NEW T, NEW s \in Seq(T), s # << >>
  PROVE  IF Tail(s) = << >> THEN Head(s) = s[Len(s)] ELSE Tail(s)[Len(Tail(s))] = s[Len(s)]
<1>1. /\ Len(s) \in Nat \ {0} /\ Head(s) = s[1]
      /\ Tail(s) \in Seq(T) /\ Len(Tail(s)) = Len(s) - 1
      /\ \A i \in 1..Len(Tail(s)) : Tail(s)[i] = s[i + 1]
  BY EmptySeq, HeadTailProperties
<1>2. CASE Tail(s) = << >>
  <2>1. PICK k \in Nat : k = Len(Tail(s)) /\ k = 0
    BY <1>2, EmptySeq
  <2>2. PICK n \in Nat : n = Len(s) /\ k = n - 1
    BY <1>1, <2>1
  <2>3. n = 1
    BY <2>1, <2>2
  <2>4. Head(s) = s[Len(s)]
    BY <1>1, <2>2, <2>3
  <2> QED
    BY <1>2, <2>4
<1>3. CASE Tail(s) # << >>
  <2>0. Len(Tail(s)) \in Nat \ {0}
    BY <1>1, <1>3, EmptySeq
  <2>1. Len(s) - 1 \in Nat \ {0}
    BY <1>1, <2>0
  <2>2. Tail(s)[Len(s) - 1] = s[Len(s)]
    BY <1>1, <2>1
  <2> QED
    BY <1>1, <1>3, <2>2
<1> QED
  BY <1>2, <1>3

\* One page changes, and is still fresh if it is open.
LEMMA OnePage ==
  ASSUME FeedInv, UNCHANGED modules, NEW p \in Pages,
         NEW life \in {"absent", "fetching", "connecting", "open"},
         NEW messages \in Seq(Statuses), NEW shown \in Statuses \cup {<< >>},
         page' = [page EXCEPT ![p] = life], inbox' = [inbox EXCEPT ![p] = messages],
         view' = [view EXCEPT ![p] = shown],
         life = "open" => IF messages = << >> THEN shown = StatusOf(modules)
                          ELSE messages[Len(messages)] = StatusOf(modules)
  PROVE  FeedInv'
<1> DEFINE now == StatusOf(modules)
<1>1. StatusOf(modules)' = now
  OBVIOUS
<1>2. FeedType'
  <2>1. page' \in [Pages -> {"absent", "fetching", "connecting", "open"}]
    BY DEF FeedInv, FeedType
  <2>2. inbox' \in [Pages -> Seq(Statuses)]
    BY DEF FeedInv, FeedType
  <2>3. view' \in [Pages -> Statuses \cup {<< >>}]
    BY DEF FeedInv, FeedType
  <2>4. UNCHANGED Statuses
    BY DEF Statuses
  <2> QED
    BY <2>1, <2>2, <2>3, <2>4 DEF FeedType
<1>3. /\ page'[p] = life /\ inbox'[p] = messages /\ view'[p] = shown
      /\ \A q \in Pages \ {p} : page'[q] = page[q] /\ inbox'[q] = inbox[q] /\ view'[q] = view[q]
  BY DEF FeedInv, FeedType
<1>4. \A q \in Pages :
        page'[q] = "open" =>
          IF inbox'[q] = << >> THEN view'[q] = now ELSE inbox'[q][Len(inbox'[q])] = now
  <2> TAKE q \in Pages
  <2>1. CASE q = p
    BY <2>1, <1>3
  <2>2. CASE q # p
    BY <2>2, <1>3 DEF FeedInv, Fresh
  <2> QED
    BY <2>1, <2>2
<1> QED
  BY <1>1, <1>2, <1>4 DEF FeedInv, Fresh

\* Without a change of the records, what the pages do keeps them as fresh as they are.
LEMMA PageFresh ==
  ASSUME CoreInv, FeedInv, Page
  PROVE  FeedInv'
<1> DEFINE now == StatusOf(modules)
<1>1. now \in Statuses /\ UNCHANGED modules
  BY StatusType DEF CoreInv, Page, managerVars
<1>2. PICK p \in Pages :
        \/ OpenPage(p, now) \/ Mounted(p) \/ ConnectWS(p, now) \/ HandleMessage(p) \/ LoseSocket(p)
  BY DEF Page
<1>3. /\ page[p] \in {"absent", "fetching", "connecting", "open"}
      /\ inbox[p] \in Seq(Statuses) /\ view[p] \in Statuses \cup {<< >>}
      /\ page = [page EXCEPT ![p] = page[p]] /\ view = [view EXCEPT ![p] = view[p]]
      /\ page[p] = "open" => IF inbox[p] = << >> THEN view[p] = now
                              ELSE inbox[p][Len(inbox[p])] = now
  BY DEF FeedInv, FeedType, Fresh
<1> HIDE DEF now
<1>4. CASE OpenPage(p, now)
  <2>1. PICK answer \in {<<now>>, << >>} : inbox' = [inbox EXCEPT ![p] = answer]
    BY <1>4 DEF OpenPage
  <2>a. <<now>> \in Seq(Statuses) /\ << >> \in Seq(Statuses)
    BY <1>1
  <2>2. answer \in Seq(Statuses)
    BY <2>a
  <2>3. page' = [page EXCEPT ![p] = "fetching"] /\ view' = [view EXCEPT ![p] = view[p]]
    BY <1>3, <1>4 DEF OpenPage
  <2> QED
    BY <1>1, <1>3, <2>1, <2>2, <2>3, OnePage
<1>5. CASE Mounted(p)
  <2>1. << >> \in Seq(Statuses) /\ (inbox[p] # << >> => Head(inbox[p]) \in Statuses)
    BY <1>3
  <2>2. page' = [page EXCEPT ![p] = "connecting"] /\ inbox' = [inbox EXCEPT ![p] = << >>]
    BY <1>5 DEF Mounted
  <2>3. PICK shown \in Statuses \cup {<< >>} : view' = [view EXCEPT ![p] = shown]
    BY <1>3, <1>5, <2>1 DEF Mounted
  <2> QED
    BY <1>1, <2>1, <2>2, <2>3, OnePage
<1>6. CASE ConnectWS(p, now)
  <2>1. <<now>> \in Seq(Statuses) /\ <<now>> # << >> /\ <<now>>[Len(<<now>>)] = now
    BY <1>1
  <2>2. /\ page' = [page EXCEPT ![p] = "open"] /\ inbox' = [inbox EXCEPT ![p] = <<now>>]
        /\ view' = [view EXCEPT ![p] = view[p]]
    BY <1>3, <1>6 DEF ConnectWS
  <2> QED
    BY <1>1, <1>3, <2>1, <2>2, OnePage DEF now
<1>7. CASE HandleMessage(p)
  <2>1. /\ inbox[p] # << >> /\ page[p] = "open"
        /\ inbox' = [inbox EXCEPT ![p] = Tail(inbox[p])] /\ view' = [view EXCEPT ![p] = Head(inbox[p])]
        /\ page' = [page EXCEPT ![p] = page[p]]
    BY <1>3, <1>7 DEF HandleMessage
  <2>2. Head(inbox[p]) \in Statuses /\ Tail(inbox[p]) \in Seq(Statuses)
    BY <1>3, <2>1
  <2>3. IF Tail(inbox[p]) = << >> THEN Head(inbox[p]) = now
        ELSE Tail(inbox[p])[Len(Tail(inbox[p]))] = now
    BY <1>3, <2>1, LastOfTail
  <2> QED
    BY <1>1, <1>3, <2>1, <2>2, <2>3, OnePage DEF now
<1>8. CASE LoseSocket(p)
  <2>1. << >> \in Seq(Statuses)
    OBVIOUS
  <2>2. /\ page' = [page EXCEPT ![p] = "connecting"] /\ inbox' = [inbox EXCEPT ![p] = << >>]
        /\ view' = [view EXCEPT ![p] = view[p]]
    BY <1>3, <1>8 DEF LoseSocket
  <2> QED
    BY <1>1, <1>3, <2>1, <2>2, OnePage
<1> QED
  BY <1>2, <1>4, <1>5, <1>6, <1>7, <1>8

\* A step that broadcasts nothing and is no page's leaves records and pages alone.
LEMMA FeedStep ==
  ASSUME CoreInv, CoreInv', FeedInv, [Next]_vars
  PROVE  FeedInv'
<1>1. CASE Emit
  BY <1>1, EmitFresh DEF CoreInv
<1>2. CASE UNCHANGED <<modules, feedVars>>
  BY <1>2 DEF feedVars, FeedInv, FeedType, Fresh
<1>3. ASSUME NEW m \in Modules, Start(m) PROVE Emit
  BY <1>3 DEF Start
<1>4. ASSUME NEW targets \in SUBSET Modules, StopModules(targets)
      PROVE  Emit \/ UNCHANGED <<modules, feedVars>>
  <2>1. PICK failed \in Refusing({m \in targets : Running(m)}) :
          /\ modules' = [m \in Modules |-> IF m \in failed THEN ErrorEvent(modules[m]) ELSE modules[m]]
          /\ IF failed # {} THEN Emit ELSE UNCHANGED feedVars
    BY <1>4 DEF StopModules
  <2>2. failed = {} => UNCHANGED modules
    BY <2>1 DEF CoreInv, CoreType
  <2> QED
    BY <2>1, <2>2
<1>5. ASSUME Shutdown PROVE Emit \/ UNCHANGED <<modules, feedVars>>
  <2>1. PICK failed :
          /\ modules' = [m \in Modules |-> IF m \in failed THEN ErrorEvent(modules[m]) ELSE modules[m]]
          /\ IF failed # {} THEN Emit ELSE UNCHANGED feedVars
    BY <1>5 DEF Shutdown
  <2>2. failed = {} => UNCHANGED modules
    BY <2>1 DEF CoreInv, CoreType
  <2> QED
    BY <2>1, <2>2
<1>6. ASSUME NEW m \in Modules, Stop(m) PROVE Emit \/ UNCHANGED <<modules, feedVars>>
  BY <1>4, <1>6 DEF Stop
<1>7. ASSUME StopAll PROVE Emit \/ UNCHANGED <<modules, feedVars>>
  BY <1>4, <1>7 DEF StopAll
<1>8. CASE Command
  <2>1. ModuleOrder[1] \in Modules
    BY Numbers
  <2> QED
    BY <1>1, <1>2, <1>3, <1>6, <1>7, <1>8, <2>1 DEF Command
<1>9. CASE Continue
  <2>1. \A i \in DOMAIN ModuleOrder : ModuleOrder[i] \in Modules
    BY DEF Modules
  <2>2. ASSUME NEW call \in StartAllCalls, StartAllNext(call)
        PROVE  Emit \/ UNCHANGED <<modules, feedVars>>
    BY <1>3, <2>1, <2>2 DEF StartAllNext
  <2>3. ASSUME NEW timer \in timers, ForceStop(timer)
        PROVE  UNCHANGED <<modules, feedVars>>
    BY <2>3 DEF ForceStop
  <2>4. ASSUME NEW c \in Children, CloseEvent(c) PROVE Emit
    BY <2>4 DEF CloseEvent
  <2> QED
    BY <1>1, <1>2, <1>9, <2>2, <2>3, <2>4 DEF Continue
<1>10. CASE Page
  BY <1>10, PageFresh
<1>11. CASE Listen \/ Child \/ UNCHANGED vars
  BY <1>2, <1>11 DEF Listen, Child, ChildExits, vars, managerVars
<1>12. CASE SigInt \/ ServerClosed
  BY <1>1, <1>2, <1>5, <1>12 DEF SigInt, ServerClosed
<1> QED
  BY <1>8, <1>9, <1>10, <1>11, <1>12 DEF Next

\* An open page to which nothing is under way shows the records as they are.
THEOREM PagesFollow == Spec => []PageFollows
<1>1. Init => FeedInv
  <2> SUFFICES ASSUME Init PROVE FeedInv
    OBVIOUS
  <2>1. << >> \in Seq(Statuses)
    OBVIOUS
  <2> QED
    BY <2>1 DEF Init, FeedInit, FeedInv, FeedType, Fresh
<1>2. CoreInv /\ CoreInv' /\ FeedInv /\ [Next]_vars => FeedInv'
  BY FeedStep
<1>3. FeedInv => PageFollows
  BY DEF FeedInv, Fresh, PageFollows
<1> QED
  BY CoreAlways, <1>1, <1>2, <1>3, PTL DEF Spec

=============================================================================
