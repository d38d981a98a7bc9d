---------------------------- MODULE DataPathProofs ---------------------------
(***************************************************************************)
(* Theorems about the way of the data to the page (DataPath), for any      *)
(* number of sockets, messages, pieces and points: the sockets of the      *)
(* bridge, in whatever order their events come; what it takes out of the   *)
(* stream; what the page and its chart show of that.                       *)
(***************************************************************************)
EXTENDS DataPath, FiniteSetTheorems, SequenceTheorems, WellFoundedInduction, TLAPS

(***************************************************************************)
(* The sockets                                                             *)
(***************************************************************************)

\* The variables that say which connection there is.
connection == <<running, client, connected, timer, socket, promptClose>>

LifeType ==
  /\ running \in BOOLEAN /\ connected \in BOOLEAN /\ timer \in BOOLEAN /\ promptClose \in BOOLEAN
  /\ client \in Sockets \cup {0}
  /\ socket \in [Sockets -> {"closed", "connecting", "open", "closing"}]

\* When every `close` is prompt, there is nothing left of earlier sockets, and a timer
\* runs only while the client's socket is lost.
PromptInv ==
  promptClose /\ running =>
    /\ \A s \in Sockets : s # client => socket[s] = "closed"
    /\ timer => socket[client] \in {"closing", "closed"}

\* ConnectedIsTrue needs PromptInv, for a late `close` makes the bridge disconnected
\* whichever socket it is of; and both need OneSocket, for a connection that comes
\* about is then the client's.
BridgeInv ==
  /\ LifeType
  /\ running => client \in Sockets
  /\ StoppedForGood
  /\ OneSocket
  /\ ConnectedIsTrue
  /\ PromptInv

LEMMA ZeroIsNoSocket == 0 \notin Sockets
BY BridgeAssumption

LEMMA BridgeInitInv == BridgeInit => BridgeInv
<1> SUFFICES ASSUME BridgeInit PROVE BridgeInv
  OBVIOUS
<1>1. LifeType
  BY DEF BridgeInit, LifeType
<1>2. running /\ ~connected /\ ~timer /\ client \in Sockets
  BY DEF BridgeInit
<1>3. \A s \in Sockets : socket[s] = IF s = client THEN "connecting" ELSE "closed"
  BY DEF BridgeInit
<1> QED
  BY <1>1, <1>2, <1>3 DEF BridgeInv, StoppedForGood, OneSocket, ConnectedIsTrue, PromptInv

\* The socket that connects is the client's, and no timer runs.
LEMMA ConnectKeeps ==
  ASSUME BridgeInv, NEW s \in Sockets, OnConnect(s)
  PROVE  BridgeInv'
<1>1. s = client /\ running /\ s # 0 /\ client \in Sockets
  BY ZeroIsNoSocket DEF BridgeInv, OneSocket, OnConnect, StoppedForGood
<1>2. /\ socket' = [socket EXCEPT ![s] = "open"] /\ connected'
      /\ UNCHANGED <<running, client, timer, promptClose>>
  BY DEF OnConnect
<1>3. promptClose => ~timer
  BY <1>1 DEF BridgeInv, LifeType, PromptInv, OnConnect
<1>4. LifeType'
  BY <1>2 DEF BridgeInv, LifeType
<1>5. \A t \in Sockets : socket'[t] = IF t = client THEN "open" ELSE socket[t]
  BY <1>1, <1>2 DEF BridgeInv, LifeType
<1> QED
  BY <1>1, <1>2, <1>3, <1>4, <1>5
  DEF BridgeInv, StoppedForGood, OneSocket, ConnectedIsTrue, PromptInv

\* The three ways to lose a socket: it is lost, the bridge is disconnected, and if it
\* still runs a timer runs.  With prompt closes the socket was the client's.
LEMMA LossKeeps ==
  ASSUME BridgeInv, NEW s \in Sockets, NEW state \in {"closing", "closed"},
         socket[s] # "closed",
         socket' = [socket EXCEPT ![s] = state], connected' = FALSE, ScheduleReconnect,
         UNCHANGED <<running, client, promptClose>>
  PROVE  BridgeInv'
<1>1. LifeType'
  BY DEF BridgeInv, LifeType, ScheduleReconnect
<1>2. \A t \in Sockets : socket'[t] = IF t = s THEN state ELSE socket[t]
  BY DEF BridgeInv, LifeType
<1>3. (running => client \in Sockets)' /\ StoppedForGood'
  BY DEF BridgeInv, StoppedForGood, ScheduleReconnect
<1>4. OneSocket'
  BY <1>2 DEF BridgeInv, OneSocket
<1>5. promptClose /\ running => s = client
  BY DEF BridgeInv, PromptInv
<1>6. client # 0 => running
  BY DEF BridgeInv, StoppedForGood
<1>7. ConnectedIsTrue'
  BY <1>2, <1>5, <1>6 DEF BridgeInv, LifeType, ConnectedIsTrue
<1>8. PromptInv'
  BY <1>2, <1>5 DEF BridgeInv, PromptInv
<1> QED
  BY <1>1, <1>3, <1>4, <1>7, <1>8 DEF BridgeInv

\* What destroy() leaves of the sockets.
LEMMA AllDestroyed ==
  ASSUME BridgeInv
  PROVE  /\ Destroyed \in [Sockets -> {"closed", "closing"}]
         /\ \A s \in Sockets : socket[s] = "closed" => Destroyed[s] = "closed"
<1> SUFFICES ASSUME NEW s \in Sockets
             PROVE  /\ Destroyed[s] \in {"closed", "closing"}
                    /\ socket[s] = "closed" => Destroyed[s] = "closed"
  BY DEF Destroyed
<1>1. Destroyed[s] = IF s = client /\ socket[s] # "closed" THEN "closing" ELSE socket[s]
  BY DEF Destroyed
<1>2. s # client => socket[s] \notin {"connecting", "open"}
  BY DEF BridgeInv, OneSocket
<1> QED
  BY <1>1, <1>2 DEF BridgeInv, LifeType

\* _disconnect leaves no live socket, and _connect makes the only one.
LEMMA TimerKeeps ==
  ASSUME BridgeInv, OnTimer
  PROVE  BridgeInv'
<1>1. PICK s \in Sockets :
        /\ Free(s) /\ client' = s
        /\ socket' = [Destroyed EXCEPT ![s] = "connecting"]
  BY DEF OnTimer
<1>2. /\ running /\ client \in Sockets /\ timer
      /\ ~timer' /\ timer' \in BOOLEAN /\ ~connected' /\ connected' \in BOOLEAN
      /\ UNCHANGED <<running, promptClose>>
  BY DEF OnTimer, BridgeInv, StoppedForGood, outside
<1>3. /\ Destroyed \in [Sockets -> {"closed", "closing"}]
      /\ \A t \in Sockets : socket[t] = "closed" => Destroyed[t] = "closed"
  BY AllDestroyed
<1>4. \A t \in Sockets : socket'[t] = IF t = s THEN "connecting" ELSE Destroyed[t]
  BY <1>1, <1>3
<1>5. LifeType'
  <2>1. socket' \in [Sockets -> {"closed", "connecting", "open", "closing"}]
    BY <1>1, <1>3
  <2> QED
    BY <1>1, <1>2, <2>1 DEF BridgeInv, LifeType
<1>6. OneSocket'
  BY <1>1, <1>3, <1>4 DEF OneSocket
<1>7. ConnectedIsTrue'
  BY <1>1, <1>2, <1>4 DEF ConnectedIsTrue
<1>8. PromptInv'
  <2>1. promptClose => \A t \in Sockets : socket[t] = "closed"
    BY <1>2 DEF BridgeInv, PromptInv, OnTimer
  <2> QED
    BY <1>1, <1>2, <1>3, <1>4, <2>1 DEF PromptInv
<1> QED
  BY <1>1, <1>2, <1>5, <1>6, <1>7, <1>8 DEF BridgeInv, StoppedForGood

LEMMA StopKeeps ==
  ASSUME BridgeInv, BridgeStop
  PROVE  BridgeInv'
<1>1. /\ ~running' /\ running' \in BOOLEAN /\ ~timer' /\ timer' \in BOOLEAN
      /\ ~connected' /\ connected' \in BOOLEAN
      /\ client' = 0 /\ socket' = Destroyed /\ promptClose' = promptClose
  BY DEF BridgeStop, outside
<1>2. Destroyed \in [Sockets -> {"closed", "closing"}]
  BY AllDestroyed
<1>3. LifeType'
  BY <1>1, <1>2 DEF BridgeInv, LifeType
<1>4. OneSocket'
  BY <1>1, <1>2 DEF OneSocket
<1> QED
  BY <1>1, <1>3, <1>4 DEF BridgeInv, StoppedForGood, ConnectedIsTrue, PromptInv

LEMMA NothingChanges ==
  ASSUME BridgeInv, UNCHANGED connection
  PROVE  BridgeInv'
BY DEF connection, BridgeInv, LifeType, StoppedForGood, OneSocket, ConnectedIsTrue, PromptInv

\* Every step of the whole path of the data.
LEMMA BridgeStep == BridgeInv /\ [Next]_vars => BridgeInv'
<1> SUFFICES ASSUME BridgeInv, [Next]_vars PROVE BridgeInv'
  OBVIOUS
<1>1. CASE OnMessages
  BY <1>1, NothingChanges DEF OnMessages, OnData, connection
<1>2. CASE OnBridge
  <2>1. ASSUME NEW s \in Sockets, OnConnect(s) PROVE BridgeInv'
    BY <2>1, ConnectKeeps
  <2>2. ASSUME NEW s \in Sockets, OnError(s) PROVE BridgeInv'
    <3>1. socket[s] # "closed" /\ UNCHANGED <<running, client, promptClose>>
      BY <2>2 DEF OnError, outside
    <3> QED
      BY <2>2, <3>1, LossKeeps DEF OnError
  <2>3. ASSUME NEW s \in Sockets, OnEnd(s) PROVE BridgeInv'
    <3>1. socket[s] # "closed" /\ UNCHANGED <<running, client, promptClose>>
      BY <2>3 DEF OnEnd, outside
    <3> QED
      BY <2>3, <3>1, LossKeeps DEF OnEnd
  <2>4. ASSUME NEW s \in Sockets, OnClose(s) PROVE BridgeInv'
    <3>1. socket[s] # "closed" /\ UNCHANGED <<running, client, promptClose>>
      BY <2>4 DEF OnClose, outside
    <3> QED
      BY <2>4, <3>1, LossKeeps DEF OnClose
  <2>5. CASE OnTimer
    BY <2>5, TimerKeeps
  <2>6. CASE BridgeStop
    BY <2>6, StopKeeps
  <2>7. CASE Server
    BY <2>7, NothingChanges DEF Server, bridgeAlone, connection
  <2> QED
    BY <1>2, <2>1, <2>2, <2>3, <2>4, <2>5, <2>6, <2>7 DEF OnBridge
<1>3. CASE AddLog
  BY <1>3, NothingChanges DEF AddLog, bridgeVars, connection
<1>4. CASE ClearLogs
  BY <1>4, NothingChanges DEF ClearLogs, bridgeVars, connection
<1>5. CASE UNCHANGED vars
  BY <1>5, NothingChanges DEF vars, bridgeVars, connection
<1> QED
  BY <1>1, <1>2, <1>3, <1>4, <1>5 DEF Next

LEMMA BridgeIsInvariant == Spec => []BridgeInv
<1>1. Init => BridgeInv
  BY BridgeInitInv DEF Init
<1> QED
  BY <1>1, BridgeStep, PTL DEF Spec

\* However late the `close` events of destroyed sockets come, no socket but the client's
\* is ever connecting or open (PipeBridge._disconnect before _connect).
THEOREM OneLiveSocket == Spec => []OneSocket
<1>1. BridgeInv => OneSocket
  BY DEF BridgeInv
<1> QED
  BY <1>1, BridgeIsInvariant, PTL

\* "connected" is said of open connections only, and of all of them when closes are prompt
\* (the handlers of connect, error, close and end).
THEOREM ConnectedMeansOpen == Spec => []ConnectedIsTrue
<1>1. BridgeInv => ConnectedIsTrue
  BY DEF BridgeInv
<1> QED
  BY <1>1, BridgeIsInvariant, PTL

\* After stop no event, however late, brings a socket or a timer back (PipeBridge.stop).
THEOREM StopIsFinal == Spec => []StoppedForGood
<1>1. BridgeInv => StoppedForGood
  BY DEF BridgeInv
<1> QED
  BY <1>1, BridgeIsInvariant, PTL

(***************************************************************************)
(* Induction, over the set of the numbers that have a property             *)
(***************************************************************************)

LEMMA LeastNumber ==
  ASSUME NEW T \in SUBSET Nat, T # {}
  PROVE  \E m \in T : \A k \in T : m <= k
<1>1. IsWellFoundedOn(OpToRel(<, Nat), Nat)
  BY NatLessThanWellFounded
<1>2. PICK m \in T : \A k \in T : <<k, m>> \notin OpToRel(<, Nat)
  BY <1>1, WFMin
<1>3. \A k \in T : ~ (k < m)
  BY <1>2 DEF OpToRel
<1> QED
  BY <1>3

LEMMA InductionUpTo ==
  ASSUME NEW n \in Nat, NEW S \in SUBSET (0..n),
         0 \in S, \A k \in S : k < n => k + 1 \in S
  PROVE  S = 0..n
<1> SUFFICES ASSUME 0..n \ S # {} PROVE FALSE
  OBVIOUS
<1>1. PICK m \in 0..n \ S : \A k \in 0..n \ S : m <= k
  <2> DEFINE T == 0..n \ S
  <2>1. T \in SUBSET Nat /\ T # {}
    OBVIOUS
  <2> HIDE DEF T
  <2>2. \E m \in T : \A k \in T : m <= k
    BY <2>1, LeastNumber
  <2> QED
    BY <2>2 DEF T
<1>2. m # 0 /\ m - 1 \in 0..n /\ ~ (m <= m - 1)
  OBVIOUS
<1>3. m - 1 \in S
  BY <1>1, <1>2
<1> QED
  BY <1>2, <1>3

(***************************************************************************)
(* The stream                                                              *)
(***************************************************************************)

\* The states of the loop of _onData follow from one another.
LEMMA FedEquation ==
  ASSUME NEW start, NEW pieces, Len(pieces) \in Nat
  PROVE  Fed(start, pieces) =
           [i \in 0..Len(pieces) |->
              IF i = 0 THEN start ELSE Feed(Fed(start, pieces)[i - 1], pieces[i])]
<1> DEFINE n == Len(pieces)
           Step(f, i) == IF i = 0 THEN start ELSE Feed(f[i - 1], pieces[i])
           UpTo(f, k) == f = [i \in 0..k |-> Step(f, i)]
           S == {k \in 0..n : \E f : UpTo(f, k)}
<1>1. 0 \in S
  <2> DEFINE g == [i \in 0..0 |-> start]
  <2>1. UpTo(g, 0)
    OBVIOUS
  <2> HIDE DEF g, UpTo
  <2>2. \E f : UpTo(f, 0)
    BY <2>1
  <2> QED
    BY <2>2
<1>2. ASSUME NEW k \in S, k < n
      PROVE  k + 1 \in S
  <2>0. k \in 0..n /\ \E f : UpTo(f, k)
    <3> HIDE DEF UpTo
    <3> QED
      OBVIOUS
  <2>1. PICK f : UpTo(f, k)
    BY <2>0
  <2> DEFINE g == [i \in 0..k + 1 |-> IF i = k + 1 THEN Feed(f[k], pieces[k + 1]) ELSE f[i]]
  <2>2. k \in 0..k /\ k + 1 \in 0..n /\ \A i \in 0..k : i # k + 1
    BY <1>2, <2>0
  <2>3. ASSUME NEW i \in 0..k + 1 PROVE g[i] = Step(g, i)
    <3>1. CASE i = k + 1
      BY <2>2, <3>1
    <3>2. CASE i = 0
      BY <2>1, <2>2, <3>2
    <3>3. CASE i \in 1..k
      <4>1. i - 1 \in 0..k /\ i \in 0..k /\ i # 0
        BY <2>0, <3>3
      <4>2. g[i - 1] = f[i - 1] /\ g[i] = f[i]
        BY <2>2, <4>1
      <4>3. f[i] = Step(f, i)
        BY <2>1, <4>1
      <4> QED
        BY <4>1, <4>2, <4>3
    <3> QED
      BY <2>0, <3>1, <3>2, <3>3
  <2>4. UpTo(g, k + 1)
    BY <2>3
  <2> HIDE DEF g, UpTo
  <2>5. \E h : UpTo(h, k + 1)
    BY <2>4
  <2> QED
    BY <2>2, <2>5
<1>3. n \in S
  <2>1. S \in SUBSET (0..n) /\ n \in 0..n
    OBVIOUS
  <2> HIDE DEF S
  <2> QED
    BY <1>1, <1>2, <2>1, InductionUpTo
<1> QED
  BY <1>3 DEF Fed

LEMMA FedSteps ==
  ASSUME NEW start, NEW pieces, Len(pieces) \in Nat
  PROVE  /\ Fed(start, pieces)[0] = start
         /\ \A i \in 0..Len(pieces) - 1 :
              Fed(start, pieces)[i + 1] = Feed(Fed(start, pieces)[i], pieces[i + 1])
<1>1. 0 \in 0..Len(pieces)
  OBVIOUS
<1>2. ASSUME NEW i \in 0..Len(pieces) - 1
      PROVE  i + 1 \in 0..Len(pieces) /\ i + 1 # 0 /\ (i + 1) - 1 = i
  OBVIOUS
<1> HIDE DEF Fed
<1> QED
  BY <1>1, <1>2, FedEquation

-----------------------------------------------------------------------------

\* The number of the message that a line comes from.
Number(line) == line[1].msg

Ends(piece) == piece.part = Parts(piece.msg)

\* What is in the pipe: after the end of a message a later one begins, and after any other
\* piece comes the next one of its message.
InOrder(pieces) ==
  /\ pieces \in Seq(Piece)
  /\ \A i \in 1..Len(pieces) :
       pieces[i].msg <= sent /\ pieces[i].part <= Parts(pieces[i].msg)
  /\ \A i, j \in 1..Len(pieces) : i < j => pieces[i].msg <= pieces[j].msg
  /\ \A i \in 1..Len(pieces) - 1 :
       IF Ends(pieces[i]) THEN pieces[i + 1].part = 1 /\ pieces[i].msg < pieces[i + 1].msg
       ELSE pieces[i + 1] = [msg |-> pieces[i].msg, part |-> pieces[i].part + 1]

\* An unfinished line: consecutive pieces of one message, not the last.
Unfinished(line) ==
  /\ line \in Seq(Piece)
  /\ \A k \in 1..Len(line) :
       /\ line[k].msg = line[1].msg /\ line[k].part = line[1].part + k - 1
       /\ line[k].part < Parts(line[1].msg)
  /\ line # << >> => Number(line) <= sent

\* Lines that are whole messages, each later than those before.
Whole(found) ==
  /\ found \in Seq(Seq(Piece))
  /\ \A k \in 1..Len(found) : found[k] = Pieces(Number(found[k])) /\ Number(found[k]) \in k..sent
  /\ \A j, k \in 1..Len(found) : j < k => Number(found[j]) < Number(found[k])

\* Where the first i pieces have been read: the buffer goes on with the next one, and the
\* lines found are of earlier messages than all the rest.
ReadUpTo(i, pieces, line, found) ==
  /\ Unfinished(line) /\ Whole(found)
  /\ line # << >> /\ i < Len(pieces) =>
       pieces[i + 1] = [msg |-> Number(line), part |-> line[1].part + Len(line)]
  /\ \A k \in 1..Len(found) :
       /\ \A j \in i + 1..Len(pieces) : Number(found[k]) < pieces[j].msg
       /\ line # << >> => Number(found[k]) < Number(line)

\* A message the other end has finished writing ends the pipe, while it serves.
StreamInv ==
  /\ sent \in 0..MaxMessages
  /\ InOrder(wire)
  /\ server = "serving" => IF wire = << >> THEN buffer = << >> ELSE Ends(wire[Len(wire)])
  /\ ReadUpTo(0, wire, buffer, received)
  /\ Len(buffer) <= MaxBuffer

LEMMA PieceFields ==
  /\ \A p \in Piece : /\ p.msg \in 1..MaxMessages /\ p.part \in 1..3
                      /\ p = [msg |-> p.msg, part |-> p.part]
  /\ \A n \in 1..MaxMessages, i \in 1..3 : [msg |-> n, part |-> i] \in Piece
  /\ \A n \in 1..MaxMessages : Parts(n) \in 2..3
BY DEF Piece, Parts

\* A line that grew to the end of its message from its first piece is the message.
LEMMA FinishedLine ==
  ASSUME NEW line, Unfinished(line), line # << >>, line[1].part = 1,
         NEW piece \in Piece, Ends(piece),
         piece = [msg |-> Number(line), part |-> line[1].part + Len(line)]
  PROVE  /\ Append(line, piece) = Pieces(piece.msg) /\ Append(line, piece) \in Seq(Piece)
         /\ Number(Append(line, piece)) = piece.msg
<1> DEFINE longer == Append(line, piece)
<1>1. /\ line \in Seq(Piece) /\ Len(line) \in Nat \ {0}
      /\ longer \in Seq(Piece) /\ Len(longer) = Len(line) + 1
      /\ \A k \in 1..Len(line) : longer[k] = line[k]
      /\ longer[Len(line) + 1] = piece
  BY DEF Unfinished
<1>2. Len(longer) = Parts(piece.msg)
  BY <1>1 DEF Ends
<1>3. ASSUME NEW k \in 1..Len(longer)
      PROVE  longer[k] = [msg |-> piece.msg, part |-> k]
  <2>1. CASE k = Len(line) + 1
    BY <1>1, <2>1
  <2>2. CASE k \in 1..Len(line)
    <3>1. longer[k] \in Piece /\ longer[k].msg = piece.msg /\ longer[k].part = k
      BY <1>1, <2>2 DEF Unfinished, Number
    <3> QED
      BY <3>1, PieceFields
  <2> QED
    BY <1>1, <1>3, <2>1, <2>2
<1>4. longer = [k \in 1..Len(longer) |-> longer[k]]
  BY <1>1
<1>5. longer = [k \in 1..Parts(piece.msg) |-> [msg |-> piece.msg, part |-> k]]
  <2> HIDE DEF longer
  <2> QED
    BY <1>2, <1>3, <1>4
<1> QED
  BY <1>1, <1>5 DEF Pieces, Number

\* The next piece belongs to the unfinished line, and so does what is after it.
LEMMA LineGrows ==
  ASSUME NEW pieces, InOrder(pieces), NEW i \in 0..Len(pieces) - 1, NEW line, NEW found,
         ReadUpTo(i, pieces, line, found), ~ Ends(pieces[i + 1])
  PROVE  ReadUpTo(i + 1, pieces, Append(line, pieces[i + 1]), found)
<1> DEFINE piece == pieces[i + 1]
           longer == Append(line, piece)
<1>1. /\ pieces \in Seq(Piece) /\ i \in Nat /\ i + 1 \in 1..Len(pieces) /\ Len(pieces) \in Nat
      /\ piece \in Piece /\ piece.msg <= sent /\ piece.part < Parts(piece.msg)
  <2>1. pieces \in Seq(Piece) /\ Len(pieces) \in Nat
    BY DEF InOrder
  <2>2. i \in Nat /\ i + 1 \in 1..Len(pieces) /\ piece \in Piece
    BY <2>1
  <2>3. piece.msg <= sent /\ piece.part <= Parts(piece.msg) /\ piece.part # Parts(piece.msg)
    BY <2>2 DEF InOrder, Ends
  <2>4. piece.part \in 1..3 /\ Parts(piece.msg) \in 2..3
    BY <2>2, PieceFields
  <2> HIDE DEF piece
  <2> QED
    BY <2>1, <2>2, <2>3, <2>4
<1>2. /\ line \in Seq(Piece) /\ Len(line) \in Nat
      /\ longer \in Seq(Piece) /\ Len(longer) = Len(line) + 1
      /\ \A k \in 1..Len(line) : longer[k] = line[k]
      /\ longer[Len(line) + 1] = piece
  BY <1>1 DEF ReadUpTo, Unfinished
<1>3. CASE line = << >>
  <2>1. Len(longer) = 1 /\ longer[1] = piece
    BY <1>2, <1>3
  <2>2. Unfinished(longer)
    <3>1. \A k \in 1..Len(longer) : k = 1
      BY <2>1
    <3>2. piece.part \in Nat
      BY <1>1, PieceFields
    <3> HIDE DEF longer, piece
    <3> QED
      BY <1>1, <1>2, <2>1, <3>1, <3>2 DEF Unfinished, Number
  <2>3. i + 1 < Len(pieces) => pieces[i + 2] = [msg |-> piece.msg, part |-> piece.part + 1]
    BY <1>1 DEF InOrder
  <2>4. \A k \in 1..Len(found) : Number(found[k]) < piece.msg
    BY <1>1 DEF ReadUpTo
  <2> QED
    BY <1>1, <1>2, <2>1, <2>2, <2>3, <2>4 DEF ReadUpTo, Number
<1>4. CASE line # << >>
  <2>1. /\ piece = [msg |-> Number(line), part |-> line[1].part + Len(line)]
        /\ Len(line) # 0 /\ longer[1] = line[1] /\ line[1] \in Piece
    BY <1>1, <1>2, <1>4 DEF ReadUpTo
  <2>2. Unfinished(longer)
    <3> SUFFICES ASSUME NEW k \in 1..Len(longer)
                 PROVE  /\ longer[k].msg = longer[1].msg
                        /\ longer[k].part = longer[1].part + k - 1
                        /\ longer[k].part < Parts(longer[1].msg)
      BY <1>1, <1>2, <2>1 DEF Unfinished, Number
    <3>1. CASE k \in 1..Len(line)
      BY <1>2, <2>1, <3>1 DEF ReadUpTo, Unfinished
    <3>2. CASE k = Len(line) + 1
      BY <1>1, <1>2, <2>1, <3>2, PieceFields DEF Number
    <3> QED
      BY <1>2, <3>1, <3>2
  <2>3. i + 1 < Len(pieces) => pieces[i + 2] = [msg |-> piece.msg, part |-> piece.part + 1]
    BY <1>1 DEF InOrder
  <2>4. i + 1 < Len(pieces) =>
          pieces[i + 2] = [msg |-> Number(longer), part |-> longer[1].part + Len(longer)]
    <3>1. piece.part + 1 = line[1].part + (Len(line) + 1)
      <4>1. piece.part = line[1].part + Len(line)
        BY <2>1
      <4>2. line[1].part \in 1..3
        BY <2>1, PieceFields
      <4> QED
        BY <1>2, <4>1, <4>2
    <3>2. piece.msg = Number(longer)
      BY <2>1 DEF Number
    <3> HIDE DEF piece, longer
    <3> QED
      BY <1>2, <2>1, <2>3, <3>1, <3>2
  <2>5. \A k \in 1..Len(found) :
          /\ \A j \in (i + 1) + 1..Len(pieces) : Number(found[k]) < pieces[j].msg
          /\ Number(found[k]) < Number(longer)
    <3>1. Number(longer) = Number(line)
      BY <2>1 DEF Number
    <3>2. \A j \in (i + 1) + 1..Len(pieces) : j \in i + 1..Len(pieces)
      BY <1>1
    <3> QED
      BY <1>4, <3>1, <3>2 DEF ReadUpTo
  <2>6. Whole(found)
    BY DEF ReadUpTo
  <2>7. i + 1 < Len(pieces) =>
          pieces[(i + 1) + 1] = [msg |-> Number(longer), part |-> longer[1].part + Len(longer)]
    <3>1. (i + 1) + 1 = i + 2
      BY <1>1
    <3> HIDE DEF longer
    <3> QED
      BY <2>4, <3>1
  <2> HIDE DEF longer, piece
  <2>8. ReadUpTo(i + 1, pieces, longer, found)
    BY <2>2, <2>5, <2>6, <2>7 DEF ReadUpTo
  <2> QED
    BY <2>8 DEF longer, piece
<1> QED
  BY <1>3, <1>4

\* A later message begins after the last piece of one.
LEMMA LaterPieces ==
  ASSUME NEW pieces, InOrder(pieces), NEW i \in 1..Len(pieces), Ends(pieces[i]),
         NEW j \in i + 1..Len(pieces)
  PROVE  pieces[i].msg < pieces[j].msg
<1>1. pieces \in Seq(Piece) /\ i \in 1..Len(pieces) - 1 /\ i + 1 \in 1..Len(pieces)
  BY DEF InOrder
<1>2. pieces[i].msg < pieces[i + 1].msg
  BY <1>1 DEF InOrder
<1>3. j \in 1..Len(pieces) /\ pieces[i + 1] \in Piece /\ pieces[j] \in Piece
  BY <1>1
<1>4. pieces[i + 1].msg <= pieces[j].msg
  <2>1. CASE j = i + 1
    BY <1>3, <2>1, PieceFields
  <2>2. CASE i + 1 < j
    BY <1>1, <1>3, <2>2 DEF InOrder
  <2> QED
    BY <1>1, <2>1, <2>2
<1> QED
  BY <1>1, <1>2, <1>3, <1>4, PieceFields

\* With the last piece of a message its line is dropped or found.
LEMMA LineEnds ==
  ASSUME NEW pieces, InOrder(pieces), NEW i \in 0..Len(pieces) - 1, NEW line, NEW found,
         ReadUpTo(i, pieces, line, found), Ends(pieces[i + 1]), sent \in 0..MaxMessages
  PROVE  /\ ReadUpTo(i + 1, pieces, << >>, found)
         /\ Append(line, pieces[i + 1])[1].part = 1 =>
              ReadUpTo(i + 1, pieces, << >>, Append(found, Append(line, pieces[i + 1])))
<1> DEFINE piece == pieces[i + 1]
           longer == Append(line, piece)
           more == Append(found, longer)
<1>1. /\ pieces \in Seq(Piece) /\ i \in Nat /\ i + 1 \in 1..Len(pieces) /\ Len(pieces) \in Nat
      /\ piece \in Piece /\ piece.msg <= sent /\ piece.part = Parts(piece.msg)
  BY PieceFields DEF InOrder, Ends
<1>2. line \in Seq(Piece) /\ Len(line) \in Nat
  BY DEF ReadUpTo, Unfinished
<1>3. Unfinished(<< >>)
  BY DEF Unfinished
<1>4. ReadUpTo(i + 1, pieces, << >>, found)
  BY <1>1, <1>3 DEF ReadUpTo
<1>5. ASSUME longer[1].part = 1
      PROVE  ReadUpTo(i + 1, pieces, << >>, more)
  <2>1. line # << >>
    <3>1. line = << >> => longer[1] = piece
      BY <1>1
    <3>2. piece.part # 1
      BY <1>1, PieceFields
    <3> QED
      BY <1>5, <3>1, <3>2
  <2>2. /\ piece = [msg |-> Number(line), part |-> line[1].part + Len(line)]
        /\ longer[1] = line[1] /\ Unfinished(line)
    BY <1>1, <1>2, <2>1 DEF ReadUpTo
  <2>3. longer = Pieces(piece.msg) /\ longer \in Seq(Piece) /\ Number(longer) = piece.msg
    BY <1>1, <1>5, <2>1, <2>2, FinishedLine
  <2>4. /\ found \in Seq(Seq(Piece)) /\ Len(found) \in Nat
        /\ more \in Seq(Seq(Piece)) /\ Len(more) = Len(found) + 1
        /\ \A k \in 1..Len(found) : more[k] = found[k]
        /\ more[Len(found) + 1] = longer
    BY <2>3 DEF ReadUpTo, Whole
  <2>5. /\ \A k \in 1..Len(found) : Number(found[k]) < piece.msg /\ Number(found[k]) \in k..sent
        /\ piece.msg \in 1..sent
    BY <1>1, <2>1, <2>2, PieceFields DEF ReadUpTo, Whole
  <2>6. Len(found) + 1 <= piece.msg
    <3>1. CASE Len(found) = 0
      BY <2>5, <3>1
    <3>2. CASE Len(found) # 0
      <4>1. Len(found) \in 1..Len(found)
        BY <2>4, <3>2
      <4>2. /\ Number(found[Len(found)]) \in Len(found)..sent
            /\ Number(found[Len(found)]) < piece.msg
        BY <2>5, <4>1
      <4> QED
        BY <2>4, <2>5, <4>2
    <3> QED
      BY <3>1, <3>2
  <2>7. Whole(more)
    <3>1. ASSUME NEW k \in 1..Len(more)
          PROVE  more[k] = Pieces(Number(more[k])) /\ Number(more[k]) \in k..sent
      <4>1. CASE k \in 1..Len(found)
        BY <2>4, <4>1 DEF ReadUpTo, Whole
      <4>2. CASE k = Len(found) + 1
        BY <2>3, <2>4, <2>5, <2>6, <4>2
      <4> QED
        BY <2>4, <4>1, <4>2
    <3>2. ASSUME NEW j \in 1..Len(more), NEW k \in 1..Len(more), j < k
          PROVE  Number(more[j]) < Number(more[k])
      <4>1. CASE k \in 1..Len(found)
        BY <2>4, <3>2, <4>1 DEF ReadUpTo, Whole
      <4>2. CASE k = Len(found) + 1
        BY <2>3, <2>4, <2>5, <3>2, <4>2
      <4> QED
        BY <2>4, <4>1, <4>2
    <3> QED
      BY <2>4, <3>1, <3>2 DEF Whole
  <2>8. ASSUME NEW k \in 1..Len(more), NEW j \in (i + 1) + 1..Len(pieces)
        PROVE  Number(more[k]) < pieces[j].msg
    <3>1. CASE k \in 1..Len(found)
      BY <1>1, <2>4, <3>1 DEF ReadUpTo
    <3>2. CASE k = Len(found) + 1
      BY <1>1, <2>3, <2>4, <3>2, LaterPieces
    <3> QED
      BY <2>4, <3>1, <3>2
  <2> QED
    BY <1>3, <2>7, <2>8 DEF ReadUpTo
<1> QED
  BY <1>4, <1>5

LEMMA ConcatAppended ==
  ASSUME NEW T, NEW p \in Seq(T), NEW q \in Seq(T), NEW e \in T
  PROVE  p \o Append(q, e) = Append(p \o q, e)
<1>1. Append(q, e) = q \o <<e>> /\ <<e>> \in Seq(T)
  BY AppendIsConcat
<1>2. p \o q \in Seq(T) /\ Append(p \o q, e) = (p \o q) \o <<e>>
  BY ConcatProperties, AppendIsConcat
<1> QED
  BY <1>1, <1>2, ConcatAssociative

LEMMA ConcatNothing ==
  ASSUME NEW T, NEW p \in Seq(T)
  PROVE  p \o << >> = p
BY ConcatEmptySeq

\* The state of the loop of _onData when i pieces have been read.
Looped(state, i) ==
  /\ state = [buffer |-> state.buffer, lines |-> state.lines]
  /\ state.lines \in Seq(Seq(Piece))
  /\ ReadUpTo(i, wire, state.buffer, received \o state.lines)
  /\ i > 0 /\ Ends(wire[i]) => state.buffer = << >>

LEMMA FeedKeeps ==
  ASSUME StreamInv, NEW i \in 0..Len(wire) - 1, NEW state, Looped(state, i)
  PROVE  Looped(Feed(state, wire[i + 1]), i + 1)
<1> DEFINE piece == wire[i + 1]
           line == state.buffer
           longer == Append(line, piece)
           next == Feed(state, piece)
<1>1. /\ InOrder(wire) /\ sent \in 0..MaxMessages /\ received \in Seq(Seq(Piece))
      /\ state.lines \in Seq(Seq(Piece))
      /\ ReadUpTo(i, wire, line, received \o state.lines)
  BY DEF StreamInv, ReadUpTo, Whole, Looped
<1>2. /\ i \in Nat /\ i + 1 > 0 /\ piece \in Piece
      /\ line \in Seq(Piece) /\ longer \in Seq(Piece)
  BY <1>1 DEF InOrder, ReadUpTo, Unfinished
<1>3. CASE ~ Ends(piece)
  <2>1. next = [state EXCEPT !.buffer = longer]
    BY <1>3 DEF Feed, Ends
  <2>2. next = [buffer |-> longer, lines |-> state.lines]
    BY <2>1 DEF Looped
  <2>3. ReadUpTo(i + 1, wire, longer, received \o state.lines)
    BY <1>1, <1>3, LineGrows
  <2> QED
    BY <1>1, <1>3, <2>2, <2>3 DEF Looped
<1>4. CASE Ends(piece)
  <2>1. next = [buffer |-> << >>,
                lines |-> IF longer[1].part = 1 THEN Append(state.lines, longer) ELSE state.lines]
    BY <1>4 DEF Feed, Ends
  <2>2. CASE longer[1].part = 1
    <3>1. ReadUpTo(i + 1, wire, << >>, Append(received \o state.lines, longer))
      BY <1>1, <1>4, <2>2, LineEnds
    <3>2. /\ received \o Append(state.lines, longer) = Append(received \o state.lines, longer)
          /\ Append(state.lines, longer) \in Seq(Seq(Piece))
      <4> DEFINE T == Seq(Piece)
      <4>1. received \in Seq(T) /\ state.lines \in Seq(T) /\ longer \in T
        BY <1>1, <1>2
      <4> HIDE DEF longer, T
      <4>2. received \o Append(state.lines, longer) = Append(received \o state.lines, longer)
        BY <4>1, ConcatAppended
      <4>3. Append(state.lines, longer) \in Seq(T)
        BY <4>1
      <4> QED
        BY <4>2, <4>3 DEF T
    <3>3. next = [buffer |-> << >>, lines |-> Append(state.lines, longer)]
      BY <2>1, <2>2
    <3>4. Looped(next, i + 1)
      <4> HIDE DEF next, longer
      <4> QED
        BY <3>1, <3>2, <3>3 DEF Looped
    <3> QED
      BY <3>4
  <2>3. CASE longer[1].part # 1
    <3>1. ReadUpTo(i + 1, wire, << >>, received \o state.lines)
      BY <1>1, <1>4, LineEnds
    <3>2. next = [buffer |-> << >>, lines |-> state.lines]
      BY <2>1, <2>3
    <3>3. Looped(next, i + 1)
      <4> HIDE DEF next, longer
      <4> QED
        BY <1>1, <3>1, <3>2 DEF Looped
    <3> QED
      BY <3>3
  <2> QED
    BY <2>2, <2>3
<1> QED
  BY <1>3, <1>4

LEMMA FedKeeps ==
  ASSUME StreamInv
  PROVE  \A n \in 0..Len(wire) : Looped(Fed([buffer |-> buffer, lines |-> << >>], wire)[n], n)
<1> DEFINE start == [buffer |-> buffer, lines |-> << >>]
           fed == Fed(start, wire)
           S == {n \in 0..Len(wire) : Looped(fed[n], n)}
<1>1. Len(wire) \in Nat /\ received \in Seq(Seq(Piece)) /\ << >> \in Seq(Seq(Piece))
  BY DEF StreamInv, InOrder, ReadUpTo, Whole
<1>2. /\ fed[0] = start
      /\ \A i \in 0..Len(wire) - 1 : fed[i + 1] = Feed(fed[i], wire[i + 1])
  BY <1>1, FedSteps
<1> HIDE DEF fed
<1>3. 0 \in S
  <2>1. received \o << >> = received
    BY <1>1, ConcatNothing
  <2>2. ReadUpTo(0, wire, start.buffer, received \o start.lines)
    BY <2>1 DEF StreamInv
  <2>3. /\ start = [buffer |-> start.buffer, lines |-> start.lines]
        /\ start.lines = << >>
    OBVIOUS
  <2>4. Looped(start, 0)
    <3> HIDE DEF start
    <3> QED
      BY <1>1, <2>2, <2>3 DEF Looped
  <2> QED
    BY <1>1, <1>2, <2>4
<1>4. ASSUME NEW n \in S, n < Len(wire)
      PROVE  n + 1 \in S
  <2>1. n \in 0..Len(wire) - 1 /\ n + 1 \in 0..Len(wire)
    BY <1>1, <1>4
  <2> QED
    BY <1>2, <2>1, FeedKeeps
<1>5. S = 0..Len(wire)
  <2>1. S \in SUBSET (0..Len(wire))
    OBVIOUS
  <2> HIDE DEF S
  <2> QED
    BY <1>1, <1>3, <1>4, <2>1, InductionUpTo
<1> QED
  BY <1>5 DEF fed

-----------------------------------------------------------------------------
(* What each action does to the stream *)

streamVars == <<server, wire, sent, buffer, received>>

LEMMA StreamInit == BridgeInit => StreamInv
<1> SUFFICES ASSUME BridgeInit PROVE StreamInv
  OBVIOUS
<1>1. /\ server = "down" /\ wire = << >> /\ sent = 0 /\ buffer = << >> /\ received = << >>
      /\ MaxMessages \in Nat /\ MaxBuffer \in Nat
  BY BridgeAssumption DEF BridgeInit
<1>2. InOrder(wire) /\ Unfinished(buffer) /\ Whole(received)
  BY <1>1 DEF InOrder, Unfinished, Whole
<1> QED
  BY <1>1, <1>2 DEF StreamInv, ReadUpTo

LEMMA StreamStays ==
  ASSUME StreamInv, UNCHANGED streamVars
  PROVE  StreamInv'
BY DEF StreamInv, streamVars, InOrder, Ends, ReadUpTo, Unfinished, Whole

\* The pipe is empty, or what it held is lost, or some of its end; the buffer is kept or
\* emptied.
LEMMA StreamCut ==
  ASSUME StreamInv, UNCHANGED <<sent, received>>, buffer' \in {buffer, << >>},
         NEW kept \in 0..Len(wire), wire' = SubSeq(wire, 1, kept),
         server' = "serving" =>
           (wire' = << >> /\ buffer' = << >>) \/ UNCHANGED <<server, wire>>
  PROVE  StreamInv'
<1>1. /\ wire \in Seq(Piece) /\ wire' \in Seq(Piece) /\ Len(wire') = kept
      /\ \A i \in 1..kept : wire'[i] = wire[i] /\ i \in 1..Len(wire)
      /\ Len(wire) \in Nat /\ kept \in Nat
  BY DEF StreamInv, InOrder
<1>2. InOrder(wire)'
  <2>1. ASSUME NEW i \in 1..Len(wire') - 1
        PROVE  i \in 1..kept /\ i + 1 \in 1..kept /\ i \in 1..Len(wire) - 1
    BY <1>1
  <2>2. ASSUME NEW i \in 1..Len(wire') - 1
        PROVE  IF Ends(wire'[i]) THEN wire'[i + 1].part = 1 /\ wire'[i].msg < wire'[i + 1].msg
               ELSE wire'[i + 1] = [msg |-> wire'[i].msg, part |-> wire'[i].part + 1]
    BY <1>1, <2>1 DEF StreamInv, InOrder
  <2>3. \A i \in 1..Len(wire') : wire'[i].msg <= sent' /\ wire'[i].part <= Parts(wire'[i].msg)
    BY <1>1 DEF StreamInv, InOrder
  <2>4. \A i, j \in 1..Len(wire') : i < j => wire'[i].msg <= wire'[j].msg
    BY <1>1 DEF StreamInv, InOrder
  <2> QED
    BY <1>1, <2>2, <2>3, <2>4 DEF InOrder, Ends
<1>3. Unfinished(buffer)' /\ Whole(received)' /\ Len(buffer') <= MaxBuffer
  <2>1. Whole(received)'
    BY DEF StreamInv, ReadUpTo, Whole, Number
  <2>2. CASE buffer' = buffer
    BY <2>1, <2>2 DEF StreamInv, ReadUpTo, Unfinished, Number
  <2>3. CASE buffer' = << >>
    BY <2>1, <2>3, BridgeAssumption DEF Unfinished
  <2> QED
    BY <2>2, <2>3
<1>4. ReadUpTo(0, wire, buffer, received)'
  BY <1>1, <1>3 DEF StreamInv, ReadUpTo, Number
<1>5. server' = "serving" => IF wire' = << >> THEN buffer' = << >> ELSE Ends(wire'[Len(wire')])
  BY DEF StreamInv
<1> QED
  BY <1>2, <1>3, <1>4, <1>5 DEF StreamInv, Ends

LEMMA WriteKeeps ==
  ASSUME StreamInv, ServerWrite, UNCHANGED <<buffer, received>>
  PROVE  StreamInv'
<1> DEFINE new == Pieces(sent + 1)
<1>1. /\ sent \in 0..MaxMessages /\ sent < MaxMessages /\ sent' = sent + 1 /\ sent' \in 1..MaxMessages
      /\ wire' = wire \o new /\ server = "serving"
  BY BridgeAssumption DEF StreamInv, ServerWrite
<1>2. /\ Len(new) = Parts(sent') /\ Parts(sent') \in 2..3
      /\ new \in Seq(Piece)
      /\ \A i \in 1..Len(new) : new[i] = [msg |-> sent', part |-> i]
  <2>1. Parts(sent') \in 2..3
    BY <1>1, PieceFields
  <2>2. new = [i \in 1..Parts(sent') |-> [msg |-> sent', part |-> i]]
    BY <1>1 DEF Pieces
  <2>3. \A i \in 1..Parts(sent') : [msg |-> sent', part |-> i] \in Piece
    BY <1>1, <2>1 DEF Piece
  <2> HIDE DEF new
  <2> QED
    BY <2>1, <2>2, <2>3
<1>3. /\ wire \in Seq(Piece) /\ Len(wire) \in Nat
      /\ wire' \in Seq(Piece) /\ Len(wire') = Len(wire) + Len(new)
      /\ \A i \in 1..Len(wire) : wire'[i] = wire[i] /\ wire[i].msg <= sent /\ wire[i] \in Piece
      /\ \A i \in 1..Len(new) : wire'[Len(wire) + i] = new[i]
  BY <1>1, <1>2, ConcatProperties DEF StreamInv, InOrder
<1> HIDE DEF new
<1>4. ASSUME NEW i \in 1..Len(wire'), i > Len(wire)
      PROVE  wire'[i] = [msg |-> sent', part |-> i - Len(wire)]
  <2> DEFINE k == i - Len(wire)
  <2>1. k \in 1..Len(new) /\ Len(wire) + k = i
    BY <1>2, <1>3, <1>4
  <2> HIDE DEF k
  <2>2. wire'[i] = new[k]
    BY <1>3, <2>1
  <2>3. wire'[i] = [msg |-> sent', part |-> k]
    BY <1>2, <2>1, <2>2
  <2> QED
    BY <2>3 DEF k
<1>5. InOrder(wire)'
  <2>1. ASSUME NEW i \in 1..Len(wire')
        PROVE  wire'[i].msg <= sent' /\ wire'[i].part <= Parts(wire'[i].msg)
    <3>1. CASE i <= Len(wire)
      BY <1>1, <1>3, <3>1, PieceFields DEF StreamInv, InOrder
    <3>2. CASE i > Len(wire)
      BY <1>1, <1>2, <1>3, <1>4, <3>2
    <3> QED
      BY <1>3, <3>1, <3>2
  <2>2. ASSUME NEW i \in 1..Len(wire'), NEW j \in 1..Len(wire'), i < j
        PROVE  wire'[i].msg <= wire'[j].msg
    <3>1. CASE j <= Len(wire)
      <4>1. i \in 1..Len(wire) /\ j \in 1..Len(wire) /\ wire'[i] = wire[i] /\ wire'[j] = wire[j]
        BY <1>3, <2>2, <3>1
      <4> QED
        BY <2>2, <4>1 DEF StreamInv, InOrder
    <3>2. CASE j > Len(wire)
      <4>1. wire'[j].msg = sent'
        BY <1>3, <1>4, <3>2
      <4> QED
        BY <2>1, <4>1
    <3> QED
      BY <1>3, <3>1, <3>2
  <2>3. ASSUME NEW i \in 1..Len(wire') - 1
        PROVE  IF Ends(wire'[i]) THEN wire'[i + 1].part = 1 /\ wire'[i].msg < wire'[i + 1].msg
               ELSE wire'[i + 1] = [msg |-> wire'[i].msg, part |-> wire'[i].part + 1]
    <3>1. CASE i < Len(wire)
      BY <1>3, <3>1 DEF StreamInv, InOrder
    <3>2. CASE i = Len(wire)
      <4>1. Ends(wire'[i]) /\ wire'[i].msg <= sent /\ wire'[i].msg \in Nat
        BY <1>1, <1>3, <2>3, <3>2, PieceFields DEF StreamInv
      <4>2. wire'[i + 1] = [msg |-> sent', part |-> 1]
        BY <1>2, <1>3, <1>4, <3>2
      <4> QED
        BY <1>1, <4>1, <4>2
    <3>3. CASE i > Len(wire)
      <4>1. /\ wire'[i] = [msg |-> sent', part |-> i - Len(wire)]
            /\ wire'[i + 1] = [msg |-> sent', part |-> i + 1 - Len(wire)]
            /\ i - Len(wire) < Parts(sent')
        BY <1>2, <1>3, <1>4, <2>3, <3>3
      <4>2. ~ Ends(wire'[i]) /\ i + 1 - Len(wire) = (i - Len(wire)) + 1
        BY <1>2, <1>3, <4>1 DEF Ends
      <4> QED
        BY <4>1, <4>2
    <3> QED
      BY <1>3, <3>1, <3>2, <3>3
  <2> QED
    BY <1>3, <2>1, <2>2, <2>3 DEF InOrder, Ends
<1>6. Unfinished(buffer)' /\ Whole(received)'
  <2>1. buffer # << >> => Number(buffer) <= sent'
    <3>1. buffer # << >> => Number(buffer) \in 1..MaxMessages /\ Number(buffer) <= sent
      BY PieceFields DEF StreamInv, ReadUpTo, Unfinished, Number
    <3> QED
      BY <1>1, <3>1
  <2>2. \A k \in 1..Len(received) : Number(received[k]) \in k..sent'
    BY <1>1 DEF StreamInv, ReadUpTo, Whole
  <2> QED
    BY <2>1, <2>2 DEF StreamInv, ReadUpTo, Unfinished, Whole, Number
<1>7. ReadUpTo(0, wire, buffer, received)'
  <2>1. buffer # << >> => wire # << >>
    BY <1>1 DEF StreamInv
  <2>2. buffer # << >> =>
          wire'[0 + 1] = [msg |-> Number(buffer), part |-> buffer[1].part + Len(buffer)]
    BY <1>3, <2>1 DEF StreamInv, ReadUpTo
  <2>3. ASSUME NEW k \in 1..Len(received), NEW j \in 0 + 1..Len(wire')
        PROVE  Number(received[k]) < wire'[j].msg
    <3>1. CASE j <= Len(wire)
      BY <1>3, <3>1 DEF StreamInv, ReadUpTo
    <3>2. CASE j > Len(wire)
      <4>1. Number(received[k]) \in k..sent
        BY DEF StreamInv, ReadUpTo, Whole
      <4>2. wire'[j].msg = sent'
        BY <1>3, <1>4, <3>2
      <4> QED
        BY <1>1, <4>1, <4>2
    <3> QED
      BY <1>3, <3>1, <3>2
  <2>4. buffer # << >> => \A k \in 1..Len(received) : Number(received[k]) < Number(buffer)
    BY DEF StreamInv, ReadUpTo
  <2> QED
    BY <1>6, <2>2, <2>3, <2>4 DEF ReadUpTo, Number
<1>8. wire' # << >> /\ Ends(wire'[Len(wire')])
  BY <1>2, <1>3, <1>4 DEF Ends
<1> QED
  BY <1>1, <1>5, <1>7, <1>8 DEF StreamInv, Ends

\* A chunk of the first n pieces is read.
LEMMA DataKeeps ==
  ASSUME StreamInv, NEW s \in Sockets, OnData(s)
  PROVE  /\ StreamInv'
         /\ \E found \in Seq(Seq(Piece)) : received' = received \o found
<1> DEFINE fed(n) == Fed([buffer |-> buffer, lines |-> << >>], wire)[n]
<1>1. PICK n \in 1..Len(wire) :
        /\ buffer' = Kept(fed(n).buffer)
        /\ received' = received \o fed(n).lines
        /\ wire' = SubSeq(wire, n + 1, Len(wire))
  BY DEF OnData
<1>2. /\ wire \in Seq(Piece) /\ Len(wire) \in Nat /\ n \in Nat /\ n \in 0..Len(wire)
      /\ UNCHANGED <<sent, server>>
  BY DEF StreamInv, InOrder, OnData
<1>3. Looped(fed(n), n)
  BY <1>2, FedKeeps
<1> HIDE DEF fed
<1>4. /\ fed(n).lines \in Seq(Seq(Piece)) /\ ReadUpTo(n, wire, fed(n).buffer, received')
      /\ n > 0 /\ Ends(wire[n]) => fed(n).buffer = << >>
  BY <1>1, <1>3 DEF Looped
<1>5. ReadUpTo(n, wire, buffer', received') /\ Len(buffer') <= MaxBuffer
  <2>1. CASE buffer' = fed(n).buffer /\ Len(buffer') <= MaxBuffer
    BY <1>4, <2>1
  <2>2. CASE buffer' = << >>
    BY <1>4, <2>2, BridgeAssumption DEF ReadUpTo, Unfinished
  <2>3. Len(fed(n).buffer) \in Nat
    BY <1>4 DEF ReadUpTo, Unfinished
  <2> QED
    BY <1>1, <2>1, <2>2, <2>3, BridgeAssumption DEF Kept
<1>6. /\ wire' \in Seq(Piece) /\ Len(wire') = Len(wire) - n
      /\ \A i \in 1..Len(wire') : wire'[i] = wire[n + i] /\ n + i \in n + 1..Len(wire)
      /\ \A i \in 1..Len(wire') : n + i \in 1..Len(wire)
  BY <1>1, <1>2
<1>7. InOrder(wire)'
  <2>1. \A i \in 1..Len(wire') : wire'[i].msg <= sent' /\ wire'[i].part <= Parts(wire'[i].msg)
    <3> TAKE i \in 1..Len(wire')
    <3>1. wire'[i] = wire[n + i] /\ n + i \in 1..Len(wire)
      BY <1>6
    <3> QED
      BY <1>2, <3>1 DEF StreamInv, InOrder
  <2>2. \A i, j \in 1..Len(wire') : i < j => wire'[i].msg <= wire'[j].msg
    <3> TAKE i, j \in 1..Len(wire')
    <3>1. /\ wire'[i] = wire[n + i] /\ n + i \in 1..Len(wire)
          /\ wire'[j] = wire[n + j] /\ n + j \in 1..Len(wire)
          /\ i < j => n + i < n + j
      BY <1>2, <1>6
    <3> QED
      BY <3>1 DEF StreamInv, InOrder
  <2>3. ASSUME NEW i \in 1..Len(wire') - 1
        PROVE  IF Ends(wire'[i]) THEN wire'[i + 1].part = 1 /\ wire'[i].msg < wire'[i + 1].msg
               ELSE wire'[i + 1] = [msg |-> wire'[i].msg, part |-> wire'[i].part + 1]
    <3>1. /\ i \in 1..Len(wire') /\ i + 1 \in 1..Len(wire')
          /\ n + i \in 1..Len(wire) - 1 /\ n + (i + 1) = n + i + 1
      <4> DEFINE left == Len(wire')
      <4>1. left = Len(wire) - n /\ i \in 1..left - 1
        BY <1>6
      <4> HIDE DEF left
      <4>2. i \in 1..left /\ i + 1 \in 1..left /\ n + i \in 1..Len(wire) - 1
        BY <1>2, <4>1
      <4> QED
        BY <1>2, <4>2 DEF left
    <3>2. wire'[i] = wire[n + i] /\ wire'[i + 1] = wire[n + (i + 1)]
      BY <1>6, <3>1
    <3>3. wire'[i] = wire[n + i] /\ wire'[i + 1] = wire[n + i + 1]
      BY <3>1, <3>2
    <3> QED
      BY <3>1, <3>3 DEF StreamInv, InOrder
  <2> QED
    BY <1>6, <2>1, <2>2, <2>3 DEF InOrder, Ends
<1>8. ReadUpTo(0, wire, buffer, received)'
  <2>1. Unfinished(buffer)' /\ Whole(received)'
    BY <1>2, <1>5 DEF ReadUpTo, Unfinished, Whole, Number
  <2>2. ASSUME buffer' # << >>, 0 < Len(wire')
        PROVE  wire'[0 + 1] = [msg |-> Number(buffer'), part |-> buffer'[1].part + Len(buffer')]
    <3>1. 1 \in 1..Len(wire') /\ n < Len(wire)
      BY <1>2, <1>6, <2>2
    <3>2. wire'[1] = wire[n + 1]
      BY <1>6, <3>1
    <3>3. wire[n + 1] = [msg |-> Number(buffer'), part |-> buffer'[1].part + Len(buffer')]
      BY <1>5, <2>2, <3>1 DEF ReadUpTo
    <3> QED
      BY <3>2, <3>3
  <2>3. ASSUME NEW k \in 1..Len(received'), NEW j \in 0 + 1..Len(wire')
        PROVE  Number(received'[k]) < wire'[j].msg
    <3>1. wire'[j] = wire[n + j] /\ n + j \in n + 1..Len(wire)
      BY <1>6
    <3> QED
      BY <1>5, <3>1 DEF ReadUpTo
  <2>4. ASSUME NEW k \in 1..Len(received'), buffer' # << >>
        PROVE  Number(received'[k]) < Number(buffer')
    BY <1>5, <2>4 DEF ReadUpTo
  <2> QED
    BY <2>1, <2>2, <2>3, <2>4 DEF ReadUpTo, Number
<1>9. server = "serving" =>
        IF wire' = << >> THEN buffer' = << >> ELSE Ends(wire'[Len(wire')])
  <2>1. CASE n = Len(wire)
    <3>1. wire' = << >>
      BY <1>2, <1>6, <2>1
    <3>2. server = "serving" => fed(n).buffer = << >>
      BY <1>2, <1>4, <2>1 DEF StreamInv
    <3> QED
      BY <1>1, <3>1, <3>2, BridgeAssumption DEF Kept
  <2>2. CASE n < Len(wire)
    <3>1. wire' # << >> /\ wire'[Len(wire')] = wire[Len(wire)] /\ wire # << >>
      BY <1>2, <1>6, <2>2
    <3> QED
      BY <3>1 DEF StreamInv
  <2> QED
    BY <1>2, <2>1, <2>2
<1>10. StreamInv'
  BY <1>2, <1>5, <1>7, <1>8, <1>9 DEF StreamInv, Ends
<1> QED
  BY <1>1, <1>4, <1>10

\* Every step of the whole path of the data.
LEMMA StreamStep == StreamInv /\ [Next]_vars => StreamInv'
<1> SUFFICES ASSUME StreamInv, [Next]_vars PROVE StreamInv'
  OBVIOUS
<1>1. /\ wire \in Seq(Piece) /\ Len(wire) \in Nat
      /\ wire = SubSeq(wire, 1, Len(wire)) /\ << >> = SubSeq(wire, 1, 0)
      /\ 0 \in 0..Len(wire) /\ Len(wire) \in 0..Len(wire)
  BY DEF StreamInv, InOrder
<1>2. CASE OnMessages
  BY <1>2, DataKeeps DEF OnMessages
<1>3. CASE OnBridge
  <2>1. ASSUME NEW s \in Sockets, OnConnect(s) PROVE StreamInv'
    BY <1>1, <2>1, StreamCut DEF OnConnect
  <2>2. ASSUME NEW s \in Sockets, OnError(s) \/ OnEnd(s) \/ OnClose(s) PROVE StreamInv'
    BY <2>2, StreamStays DEF OnError, OnEnd, OnClose, outside, streamVars
  <2>3. CASE OnTimer \/ BridgeStop
    BY <1>1, <2>3, StreamCut DEF OnTimer, BridgeStop, outside
  <2>4. CASE ServerListen /\ UNCHANGED bridgeAlone
    BY <1>1, <2>4, StreamCut DEF ServerListen, bridgeAlone
  <2>5. CASE ServerWrite /\ UNCHANGED bridgeAlone
    BY <2>5, WriteKeeps DEF bridgeAlone
  <2>6. CASE ServerBreak /\ UNCHANGED bridgeAlone
    BY <1>1, <2>6, StreamCut DEF ServerBreak, bridgeAlone
  <2>7. CASE ServerNotices /\ UNCHANGED bridgeAlone
    BY <1>1, <2>7, StreamCut DEF ServerNotices, bridgeAlone
  <2> QED
    BY <1>3, <2>1, <2>2, <2>3, <2>4, <2>5, <2>6, <2>7 DEF OnBridge, Server
<1>4. CASE AddLog \/ ClearLogs \/ UNCHANGED vars
  BY <1>4, StreamStays DEF AddLog, ClearLogs, vars, bridgeVars, streamVars
<1> QED
  BY <1>2, <1>3, <1>4 DEF Next

LEMMA StreamIsInvariant == Spec => []StreamInv
<1>1. Init => StreamInv
  BY StreamInit DEF Init
<1> QED
  BY <1>1, StreamStep, PTL DEF Spec

-----------------------------------------------------------------------------
(* The bridge with the pipe is a channel *)

\* What the channel delivers are the numbers of the lines.
AreNumbers ==
  /\ WholeMessages \in Seq(1..sent) /\ Len(WholeMessages) = Len(received)
  /\ \A k \in 1..Len(received) : WholeMessages[k] = Number(received[k])
  /\ \A j, k \in 1..Len(received) : j < k => WholeMessages[j] < WholeMessages[k]

LEMMA NumbersReceived == StreamInv => AreNumbers
<1> SUFFICES ASSUME StreamInv PROVE AreNumbers
  OBVIOUS
<1>1. /\ received \in Seq(Seq(Piece)) /\ Len(received) \in Nat
      /\ DOMAIN received = 1..Len(received)
      /\ \A k \in 1..Len(received) :
           received[k] = Pieces(received[k][1].msg) /\ received[k][1].msg \in k..sent
      /\ \A j, k \in 1..Len(received) : j < k => received[j][1].msg < received[k][1].msg
      /\ sent \in Nat
  BY DEF StreamInv, ReadUpTo, Whole, Number
<1>2. WholeMessages = [k \in 1..Len(received) |-> received[k][1].msg]
  BY <1>1 DEF WholeMessages
<1>3. \A k \in 1..Len(received) : received[k][1].msg \in 1..sent
  BY <1>1
<1> QED
  BY <1>1, <1>2, <1>3 DEF AreNumbers, Number

LEMMA FirstOf ==
  ASSUME NEW T, NEW p \in Seq(T), NEW n \in 0..Len(p)
  PROVE  /\ SubSeq(p, 1, n) \in Seq(T) /\ Len(SubSeq(p, 1, n)) = n
         /\ \A k \in 1..n : SubSeq(p, 1, n)[k] = p[k]
OBVIOUS

LEMMA ReceivedGrows ==
  ASSUME StreamInv, StreamInv', UNCHANGED sent,
         NEW found \in Seq(Seq(Piece)), received' = received \o found
  PROVE  Channel!Receive
<1>1. /\ received \in Seq(Seq(Piece)) /\ received' \in Seq(Seq(Piece))
      /\ Len(received) \in 0..Len(received') /\ Len(received') \in Nat
      /\ \A k \in 1..Len(received) : received'[k] = received[k] /\ k \in 1..Len(received')
  BY ConcatProperties DEF StreamInv, ReadUpTo, Whole
<1>2. /\ WholeMessages \in Seq(1..sent) /\ Len(WholeMessages) = Len(received)
      /\ \A k \in 1..Len(received) : WholeMessages[k] = Number(received[k])
  BY NumbersReceived DEF AreNumbers
<1>3. /\ WholeMessages' \in Seq(1..sent') /\ Len(WholeMessages') = Len(received')
      /\ \A k \in 1..Len(received') : WholeMessages'[k] = Number(received'[k])
      /\ \A j, k \in 1..Len(received') : j < k => WholeMessages'[j] < WholeMessages'[k]
  <2>1. (StreamInv => AreNumbers)'
    BY NumbersReceived, PTL
  <2> QED
    BY <2>1 DEF AreNumbers, Number
<1> HIDE DEF WholeMessages
<1>4. WholeMessages = SubSeq(WholeMessages', 1, Len(received))
  <2>1. /\ Len(SubSeq(WholeMessages', 1, Len(received))) = Len(received)
        /\ SubSeq(WholeMessages', 1, Len(received)) \in Seq(1..sent)
        /\ \A k \in 1..Len(received) :
             SubSeq(WholeMessages', 1, Len(received))[k] = WholeMessages'[k]
    <3>1. WholeMessages' \in Seq(1..sent) /\ Len(received) \in 0..Len(WholeMessages')
      BY <1>1, <1>3
    <3> QED
      BY <3>1, FirstOf
  <2>2. \A k \in 1..Len(received) : WholeMessages[k] = WholeMessages'[k]
    BY <1>1, <1>2, <1>3
  <2> QED
    BY <1>2, <2>1, <2>2, SeqEqual
<1> QED
  BY <1>1, <1>3, <1>4 DEF Channel!Receive

\* However the stream is cut into chunks, whatever is lost with a connection or dropped with
\* an overlong line, and whenever the bridge connects again, for messages of any number and
\* buffers of any size: what the page can hear of are whole messages, in the order they
\* were sent and none twice (_onData and the reset of the buffer).
THEOREM BridgeIsChannel == Spec => IsChannel
<1>1. Init => Channel!ChannelInit
  BY DEF Init, BridgeInit, Channel!ChannelInit, WholeMessages
<1>2. ASSUME StreamInv, StreamInv', [Next]_vars
      PROVE  [Channel!Send \/ Channel!Receive]_(Channel!channelVars)
  <2>1. CASE UNCHANGED <<sent, received>>
    BY <2>1 DEF Channel!channelVars, WholeMessages
  <2>2. CASE OnMessages
    <3>1. PICK s \in Sockets : OnData(s)
      BY <2>2 DEF OnMessages
    <3>2. UNCHANGED sent
      BY <3>1 DEF OnData
    <3> QED
      BY <1>2, <3>1, <3>2, DataKeeps, ReceivedGrows
  <2>3. CASE ServerWrite /\ UNCHANGED bridgeAlone
    BY <2>3 DEF ServerWrite, bridgeAlone, Channel!Send, WholeMessages
  <2>4. OnMessages \/ (ServerWrite /\ UNCHANGED bridgeAlone) \/ UNCHANGED <<sent, received>>
    BY <1>2 DEF Next, OnBridge, OnConnect, OnError, OnEnd, OnClose, OnTimer, BridgeStop, Server,
                ServerListen, ServerBreak, ServerNotices, AddLog, ClearLogs, vars, bridgeVars,
                bridgeAlone, outside
  <2> QED
    BY <2>1, <2>2, <2>3, <2>4
<1> QED
  BY <1>1, <1>2, StreamIsInvariant, PTL DEF Spec, IsChannel, Channel!ChannelSpec

(***************************************************************************)
(* What the page shows                                                     *)
(***************************************************************************)

\* The newest part of a sequence.
LEMMA LastElements ==
  ASSUME NEW T, NEW p \in Seq(T), NEW n \in 0..Len(p)
  PROVE  /\ LastOf(p, n) \in Seq(T) /\ Len(LastOf(p, n)) = n
         /\ \A k \in 1..n : LastOf(p, n)[k] = p[Len(p) - n + k]
BY DEF LastOf

LEMMA LastAppended ==
  ASSUME NEW T, NEW p \in Seq(T), NEW e \in T, NEW n \in 0..Len(p)
  PROVE  LastOf(Append(p, e), n + 1) = Append(LastOf(p, n), e)
<1> DEFINE longer == Append(p, e)
           new == LastOf(longer, n + 1)
           old == LastOf(p, n)
<1>1. /\ longer \in Seq(T) /\ Len(longer) = Len(p) + 1 /\ Len(p) \in Nat /\ n \in Nat
      /\ n + 1 \in 0..Len(longer)
      /\ \A k \in 1..Len(p) : longer[k] = p[k]
      /\ longer[Len(p) + 1] = e
  <2>1. /\ longer \in Seq(T) /\ Len(longer) = Len(p) + 1 /\ Len(p) \in Nat
        /\ \A k \in 1..Len(p) : longer[k] = p[k]
        /\ longer[Len(p) + 1] = e
    OBVIOUS
  <2> HIDE DEF longer
  <2> QED
    BY <2>1
<1> HIDE DEF longer
<1>2. /\ new \in Seq(T) /\ Len(new) = n + 1
      /\ \A k \in 1..n + 1 : new[k] = longer[Len(p) - n + k]
  <2> DEFINE m == n + 1
  <2>1. m \in 0..Len(longer) /\ longer \in Seq(T)
    BY <1>1
  <2> HIDE DEF m
  <2>2. /\ LastOf(longer, m) \in Seq(T) /\ Len(LastOf(longer, m)) = m
        /\ \A k \in 1..m : LastOf(longer, m)[k] = longer[Len(longer) - m + k]
    BY <2>1, LastElements
  <2>3. Len(longer) - m = Len(p) - n
    BY <1>1 DEF m
  <2> QED
    BY <2>2, <2>3 DEF m
<1>3. old \in Seq(T) /\ Len(old) = n /\ \A k \in 1..n : old[k] = p[Len(p) - n + k]
  BY LastElements
<1> HIDE DEF new, old
<1>4. Append(old, e) \in Seq(T) /\ Len(Append(old, e)) = n + 1
  BY <1>1, <1>3
<1>5. ASSUME NEW k \in 1..n + 1
      PROVE  new[k] = Append(old, e)[k]
  <2>1. new[k] = longer[Len(p) - n + k]
    BY <1>1, <1>2
  <2>2. CASE k = n + 1
    BY <1>1, <1>3, <2>1, <2>2
  <2>3. CASE k \in 1..n
    <3>1. Append(old, e)[k] = old[k] /\ old[k] = p[Len(p) - n + k]
      BY <1>1, <1>3, <2>3
    <3>2. Len(p) - n + k \in 1..Len(p)
      BY <1>1, <2>3
    <3> QED
      BY <1>1, <2>1, <3>1, <3>2
  <2>4. k = n + 1 \/ k \in 1..n
    BY <1>1
  <2> QED
    BY <2>2, <2>3, <2>4
<1>6. new = Append(old, e)
  BY <1>2, <1>4, <1>5, SeqEqual
<1> QED
  BY <1>6 DEF new, old, longer

LEMMA LastOfLast ==
  ASSUME NEW T, NEW p \in Seq(T), NEW n \in 0..Len(p), NEW m \in 0..n
  PROVE  LastOf(LastOf(p, n), m) = LastOf(p, m)
<1> DEFINE old == LastOf(p, n)
<1>1. old \in Seq(T) /\ Len(old) = n /\ \A k \in 1..n : old[k] = p[Len(p) - n + k]
  BY LastElements
<1>2. /\ LastOf(p, m) \in Seq(T) /\ Len(LastOf(p, m)) = m
      /\ \A k \in 1..m : LastOf(p, m)[k] = p[Len(p) - m + k]
  BY LastElements
<1> HIDE DEF old
<1>3. /\ LastOf(old, m) \in Seq(T) /\ Len(LastOf(old, m)) = m
      /\ \A k \in 1..m : LastOf(old, m)[k] = old[n - m + k]
  <2>1. m \in 0..Len(old) /\ Len(old) - m = n - m
    BY <1>1
  <2> QED
    BY <1>1, <2>1, LastElements
<1>4. ASSUME NEW k \in 1..m
      PROVE  LastOf(old, m)[k] = LastOf(p, m)[k]
  <2>1. n - m + k \in 1..n /\ Len(p) - n + (n - m + k) = Len(p) - m + k
    OBVIOUS
  <2> QED
    BY <1>1, <1>2, <1>3, <2>1
<1>5. LastOf(old, m) = LastOf(p, m)
  BY <1>2, <1>3, <1>4, SeqEqual
<1> QED
  BY <1>5 DEF old

LEMMA LastOfAll ==
  ASSUME NEW T, NEW p \in Seq(T)
  PROVE  LastOf(p, Len(p)) = p
BY LastElements DEF LastOf

\* A pushed value joins the newest ones, of which there are at most maxPoints.
LEMMA PushNewest ==
  ASSUME NEW T, NEW p \in Seq(T), NEW e \in T
  PROVE  Push(LastOf(p, Lesser(Len(p), maxPoints)), e)
           = LastOf(Append(p, e), Lesser(Len(Append(p, e)), maxPoints))
<1> DEFINE n == Lesser(Len(p), maxPoints)
           longer == Append(p, e)
           pushed == Append(LastOf(p, n), e)
<1>1. /\ maxPoints \in Nat /\ maxPoints > 1 /\ Len(p) \in Nat /\ n \in 0..Len(p)
      /\ n = IF Len(p) < maxPoints THEN Len(p) ELSE maxPoints
      /\ longer \in Seq(T) /\ Len(longer) = Len(p) + 1
  BY ChartAssumption DEF Lesser
<1>2. LastOf(p, n) \in Seq(T) /\ Len(LastOf(p, n)) = n
  BY <1>1, LastElements
<1>3. pushed \in Seq(T) /\ Len(pushed) = n + 1 /\ pushed = LastOf(longer, n + 1)
  BY <1>1, <1>2, LastAppended
<1> HIDE DEF n, longer, pushed
<1>4. Push(LastOf(p, n), e) = IF n + 1 > maxPoints THEN Tail(pushed) ELSE pushed
  BY <1>3 DEF Push, pushed
<1>5. CASE Len(p) < maxPoints
  <2>1. Lesser(Len(longer), maxPoints) = n + 1 /\ ~ (n + 1 > maxPoints)
    BY <1>1, <1>5 DEF Lesser
  <2> QED
    BY <1>3, <1>4, <2>1 DEF n, longer
<1>6. CASE Len(p) >= maxPoints
  <2>1. Lesser(Len(longer), maxPoints) = n /\ n + 1 > maxPoints /\ n + 1 \in 0..Len(longer)
        /\ n \in 0..n + 1
    BY <1>1, <1>6 DEF Lesser
  <2>2. Tail(pushed) = LastOf(pushed, n)
    <3>1. Tail(pushed) = SubSeq(pushed, 2, Len(pushed)) /\ Len(pushed) - n + 1 = 2
      BY <1>1, <1>3, <2>1
    <3> QED
      BY <3>1 DEF LastOf
  <2>3. LastOf(pushed, n) = LastOf(longer, n)
    BY <1>1, <1>3, <2>1, LastOfLast
  <2> QED
    BY <1>4, <2>1, <2>2, <2>3 DEF n, longer
<1> QED
  BY <1>1, <1>5, <1>6

-----------------------------------------------------------------------------
(* One more message *)

Streams == {"telemetry", "prediction", "log"}

\* What is true of the page and the messages it has handled.
PageGood(page, handled) ==
  /\ page \in DisplayType
  /\ handled \in Seq(1..MaxMessages)
  /\ \A i, j \in 1..Len(handled) : i < j => handled[i] < handled[j]
  /\ Recent(page, handled)

LEMMA AppendedMessages ==
  ASSUME NEW handled \in Seq(1..MaxMessages), NEW msg \in 1..MaxMessages,
         \A i, j \in 1..Len(handled) : i < j => handled[i] < handled[j],
         \A k \in 1..Len(handled) : handled[k] < msg
  PROVE  /\ Append(handled, msg) \in Seq(1..MaxMessages)
         /\ Len(Append(handled, msg)) = Len(handled) + 1 /\ Len(handled) \in Nat
         /\ \A k \in 1..Len(handled) : Append(handled, msg)[k] = handled[k]
         /\ Append(handled, msg)[Len(handled) + 1] = msg
         /\ \A i, j \in 1..Len(Append(handled, msg)) :
              i < j => Append(handled, msg)[i] < Append(handled, msg)[j]
<1> DEFINE more == Append(handled, msg)
<1>1. /\ more \in Seq(1..MaxMessages) /\ Len(more) = Len(handled) + 1 /\ Len(handled) \in Nat
      /\ \A k \in 1..Len(handled) : more[k] = handled[k]
      /\ more[Len(handled) + 1] = msg
  OBVIOUS
<1> HIDE DEF more
<1>2. ASSUME NEW i \in 1..Len(more), NEW j \in 1..Len(more), i < j
      PROVE  more[i] < more[j]
  <2>1. CASE j = Len(handled) + 1
    BY <1>1, <1>2, <2>1
  <2>2. CASE j \in 1..Len(handled)
    <3>1. i \in 1..Len(handled)
      BY <1>1, <1>2, <2>2
    <3> QED
      BY <1>1, <1>2, <2>2, <3>1
  <2> QED
    BY <1>1, <2>1, <2>2
<1> QED
  BY <1>1, <1>2 DEF more

LEMMA Elements ==
  ASSUME NEW T, NEW p \in Seq(T)
  PROVE  /\ DOMAIN p = 1..Len(p) /\ Len(p) \in Nat
         /\ \A i \in 1..Len(p) : p[i] \in T
OBVIOUS

LEMMA PageFields ==
  ASSUME NEW page \in DisplayType
  PROVE  /\ page.gpu \in 0..MaxMessages /\ page.fps \in Nat /\ page.frameTime \in 0..MaxValue
         /\ page.charts \in [overview : Seq(0..MaxValue)]
         /\ page.action \in {"NO_ACTION"} \cup Values(Actions)
         /\ page.actionLog \in Seq(1..MaxMessages) /\ page.allLogs \in Seq(1..MaxMessages)
         /\ page = [gpu |-> page.gpu, fps |-> page.fps, frameTime |-> page.frameTime,
                    charts |-> page.charts, action |-> page.action,
                    actionLog |-> page.actionLog, allLogs |-> page.allLogs]
BY DEF DisplayType

LEMMA PageWith ==
  ASSUME NEW page \in DisplayType, NEW gpu, NEW frameTime, NEW fps, NEW charts
  PROVE  [page EXCEPT !.gpu = gpu, !.frameTime = frameTime, !.fps = fps, !.charts = charts]
           = [gpu |-> gpu, fps |-> fps, frameTime |-> frameTime, charts |-> charts,
              action |-> page.action, actionLog |-> page.actionLog, allLogs |-> page.allLogs]
<1> DEFINE one == [page EXCEPT !.gpu = gpu]
           two == [one EXCEPT !.frameTime = frameTime]
           three == [two EXCEPT !.fps = fps]
           four == [three EXCEPT !.charts = charts]
<1>1. one = [gpu |-> gpu, fps |-> page.fps, frameTime |-> page.frameTime, charts |-> page.charts,
             action |-> page.action, actionLog |-> page.actionLog, allLogs |-> page.allLogs]
  <2>1. page = [gpu |-> page.gpu, fps |-> page.fps, frameTime |-> page.frameTime,
                charts |-> page.charts, action |-> page.action,
                actionLog |-> page.actionLog, allLogs |-> page.allLogs]
    BY PageFields
  <2> QED
    BY <2>1, SMT
<1>2. [page EXCEPT !.gpu = gpu, !.frameTime = frameTime, !.fps = fps, !.charts = charts] = four
  OBVIOUS
<1> HIDE DEF one
<1>3. two = [gpu |-> gpu, fps |-> page.fps, frameTime |-> frameTime, charts |-> page.charts,
             action |-> page.action, actionLog |-> page.actionLog, allLogs |-> page.allLogs]
  BY <1>1, SMT
<1> HIDE DEF two
<1>4. three = [gpu |-> gpu, fps |-> fps, frameTime |-> frameTime, charts |-> page.charts,
               action |-> page.action, actionLog |-> page.actionLog, allLogs |-> page.allLogs]
  BY <1>3, SMT
<1> HIDE DEF three
<1>5. four = [gpu |-> gpu, fps |-> fps, frameTime |-> frameTime, charts |-> charts,
              action |-> page.action, actionLog |-> page.actionLog, allLogs |-> page.allLogs]
  BY <1>4, SMT
<1> HIDE DEF four
<1> QED
  BY <1>2, <1>5

LEMMA FrameFields ==
  ASSUME NEW msg \in 1..MaxMessages
  PROVE  /\ Frames[msg].gpu \in BOOLEAN /\ Frames[msg].fps \in Nat
         /\ Frames[msg].frame_time_ms \in 0..MaxValue
BY PathAssumption

LEMMA MaxValueNat == MaxValue \in Nat
BY DEF MaxValue

LEMMA FramesOf ==
  ASSUME NEW handled \in Seq(1..MaxMessages)
  PROVE  LET times == [i \in DOMAIN handled |-> Frames[handled[i]].frame_time_ms]
         IN  times \in Seq(0..MaxValue) /\ Len(times) = Len(handled)
<1>1. DOMAIN handled = 1..Len(handled) /\ Len(handled) \in Nat
      /\ \A i \in 1..Len(handled) : handled[i] \in 1..MaxMessages
  BY Elements
<1>2. \A i \in 1..Len(handled) : Frames[handled[i]].frame_time_ms \in 0..MaxValue
  BY <1>1, FrameFields
<1> QED
  BY <1>1, <1>2

LEMMA PushedType ==
  ASSUME NEW T, NEW data \in Seq(T), Len(data) <= maxPoints, NEW value \in T
  PROVE  Push(data, value) \in Seq(T) /\ Len(Push(data, value)) <= maxPoints
<1>1. /\ Append(data, value) \in Seq(T) /\ Len(Append(data, value)) = Len(data) + 1
      /\ Len(data) \in Nat /\ maxPoints \in Nat /\ Append(data, value) # << >>
  BY ChartAssumption
<1>2. Tail(Append(data, value)) \in Seq(T) /\ Len(Tail(Append(data, value))) = Len(data)
  BY <1>1
<1> QED
  BY <1>1, <1>2 DEF Push

LEMMA WholeFps ==
  ASSUME NEW fps \in Nat, NEW time \in 0..MaxValue
  PROVE  (IF time > 0 /\ fps = 0 THEN 1000 \div time ELSE fps) \in Nat
<1>1. time \in Nat
  BY MaxValueNat
<1>2. CASE time > 0
  <2>1. 1000 \div time \in Nat
    BY <1>1, <1>2, SMT
  <2> QED
    BY <2>1, SMT
<1>3. CASE ~ (time > 0)
  BY <1>3, SMT
<1> QED
  BY <1>2, <1>3, SMT

LEMMA TelemetryKeeps ==
  ASSUME NEW page, NEW handled, PageGood(page, handled), stream = "telemetry",
         NEW msg \in 1..MaxMessages, \A k \in 1..Len(handled) : handled[k] < msg
  PROVE  PageGood(ShowTelemetry(page, msg), Append(handled, msg))
<1> DEFINE next == ShowTelemetry(page, msg)
           more == Append(handled, msg)
           frame == Frames[msg]
           time == Frames[msg].frame_time_ms
           times == [i \in DOMAIN handled |-> Frames[handled[i]].frame_time_ms]
           moreTimes == [i \in DOMAIN more |-> Frames[more[i]].frame_time_ms]
           quotient == 1000 \div time
           fps == IF frame.gpu /\ frame.fps > 0 THEN frame.fps ELSE page.fps
<1>1. /\ page \in DisplayType /\ handled \in Seq(1..MaxMessages)
      /\ more \in Seq(1..MaxMessages) /\ Len(more) = Len(handled) + 1 /\ Len(handled) \in Nat
      /\ \A k \in 1..Len(handled) : more[k] = handled[k]
      /\ more[Len(handled) + 1] = msg
      /\ \A i, j \in 1..Len(more) : i < j => more[i] < more[j]
  BY AppendedMessages DEF PageGood
<1> HIDE DEF quotient
<1>2. next = [gpu |-> IF frame.gpu THEN msg ELSE page.gpu,
              fps |-> IF time > 0 /\ fps = 0 THEN quotient ELSE fps,
              frameTime |-> IF time > 0 THEN time ELSE page.frameTime,
              charts |-> [overview |-> Push(page.charts.overview, time)],
              action |-> page.action, actionLog |-> page.actionLog, allLogs |-> page.allLogs]
  <2> DEFINE gpu == IF frame.gpu THEN msg ELSE page.gpu
             frameTime == IF time > 0 THEN time ELSE page.frameTime
             newFps == IF time > 0 /\ fps = 0 THEN quotient ELSE fps
             charts == [overview |-> Push(page.charts.overview, time)]
  <2>1. next = [page EXCEPT !.gpu = gpu, !.frameTime = frameTime, !.fps = newFps, !.charts = charts]
    BY DEF ShowTelemetry, quotient
  <2> HIDE DEF gpu, frameTime, newFps, charts, next
  <2>0. page \in DisplayType
    BY <1>1
  <2>2. next = [gpu |-> gpu, fps |-> newFps, frameTime |-> frameTime, charts |-> charts,
                action |-> page.action, actionLog |-> page.actionLog, allLogs |-> page.allLogs]
    BY <2>0, <2>1, PageWith
  <2> QED
    BY <2>2 DEF gpu, frameTime, newFps, charts
<1>3. next \in DisplayType
  <2>1. /\ Len(page.charts.overview) <= maxPoints /\ Len(page.actionLog) <= maxActions
        /\ Len(page.allLogs) <= MAX_LOGS /\ page.charts.overview \in Seq(0..MaxValue)
    BY <1>1 DEF DisplayType
  <2>2. /\ Push(page.charts.overview, time) \in Seq(0..MaxValue)
        /\ Len(Push(page.charts.overview, time)) <= maxPoints
    BY <2>1, FrameFields, PushedType
  <2>3. (IF time > 0 /\ fps = 0 THEN quotient ELSE fps) \in Nat
    <3>1. fps \in Nat /\ time \in 0..MaxValue
      BY <1>1, PageFields, FrameFields
    <3> HIDE DEF fps, time
    <3> QED
      BY <3>1, WholeFps, SMT DEF quotient
  <2> HIDE DEF fps
  <2>4. next \in [gpu : 0..MaxMessages, fps : Nat, frameTime : 0..MaxValue,
                  charts : [overview : Seq(0..MaxValue)], action : {"NO_ACTION"} \cup Values(Actions),
                  actionLog : Seq(1..MaxMessages), allLogs : Seq(1..MaxMessages)]
    BY <1>1, <1>2, <2>2, <2>3, PageFields, FrameFields
  <2>5. /\ next.charts.overview = Push(page.charts.overview, time)
        /\ next.actionLog = page.actionLog /\ next.allLogs = page.allLogs
    BY <1>2
  <2> HIDE DEF next
  <2> QED
    BY <2>1, <2>2, <2>4, <2>5 DEF DisplayType
<1>4. Recent(next, more)
  <2>1. times \in Seq(0..MaxValue) /\ Len(times) = Len(handled)
    BY <1>1, FramesOf
  <2>2. moreTimes = Append(times, time)
    <3>1. Append(times, time) \in Seq(0..MaxValue) /\ Len(Append(times, time)) = Len(handled) + 1
          /\ \A k \in 1..Len(handled) : Append(times, time)[k] = times[k]
          /\ Append(times, time)[Len(handled) + 1] = time
      BY <2>1, FrameFields
    <3>2. moreTimes \in Seq(0..MaxValue) /\ Len(moreTimes) = Len(handled) + 1
      <4> HIDE DEF more
      <4> QED
        BY <1>1, FramesOf
    <3>3. ASSUME NEW k \in 1..Len(handled) + 1
          PROVE  moreTimes[k] = Append(times, time)[k]
      <4>1. CASE k = Len(handled) + 1
        BY <1>1, <3>1, <4>1
      <4>2. CASE k \in 1..Len(handled)
        BY <1>1, <3>1, <4>2
      <4> QED
        BY <1>1, <4>1, <4>2
    <3> HIDE DEF times, moreTimes
    <3> QED
      BY <3>1, <3>2, <3>3, SeqEqual
  <2>3. page.charts.overview = LastOf(times, Lesser(Len(times), maxPoints))
    BY DEF PageGood, Recent
  <2>4. next.charts.overview = LastOf(moreTimes, Lesser(Len(moreTimes), maxPoints))
    <3>1. next.charts.overview = Push(page.charts.overview, time)
      BY <1>2
    <3> HIDE DEF times, moreTimes, next, time
    <3> QED
      BY <2>1, <2>2, <2>3, <3>1, FrameFields, PushNewest DEF time
  <2> HIDE DEF next, more
  <2> QED
    BY <2>4 DEF Recent
<1> HIDE DEF next, more
<1> QED
  BY <1>1, <1>3, <1>4 DEF PageGood, next, more

LEMMA PageWithAction ==
  ASSUME NEW page \in DisplayType, NEW action, NEW actionLog
  PROVE  [page EXCEPT !.action = action, !.actionLog = actionLog]
           = [gpu |-> page.gpu, fps |-> page.fps, frameTime |-> page.frameTime,
              charts |-> page.charts, action |-> action, actionLog |-> actionLog,
              allLogs |-> page.allLogs]
<1> DEFINE one == [page EXCEPT !.action = action]
           two == [one EXCEPT !.actionLog = actionLog]
<1>1. one = [gpu |-> page.gpu, fps |-> page.fps, frameTime |-> page.frameTime,
             charts |-> page.charts, action |-> action, actionLog |-> page.actionLog,
             allLogs |-> page.allLogs]
  <2>1. page = [gpu |-> page.gpu, fps |-> page.fps, frameTime |-> page.frameTime,
                charts |-> page.charts, action |-> page.action,
                actionLog |-> page.actionLog, allLogs |-> page.allLogs]
    BY PageFields
  <2> QED
    BY <2>1, SMT
<1>2. [page EXCEPT !.action = action, !.actionLog = actionLog] = two
  OBVIOUS
<1> HIDE DEF one
<1>3. two = [gpu |-> page.gpu, fps |-> page.fps, frameTime |-> page.frameTime,
             charts |-> page.charts, action |-> action, actionLog |-> actionLog,
             allLogs |-> page.allLogs]
  BY <1>1, SMT
<1> HIDE DEF two
<1> QED
  BY <1>2, <1>3

\* A page with another list of actions, or another log.
LEMMA ActionsType ==
  ASSUME NEW page \in DisplayType, NEW action \in {"NO_ACTION"} \cup Values(Actions),
         NEW actionLog \in Seq(1..MaxMessages), Len(actionLog) <= maxActions,
         NEW next,
         next = [gpu |-> page.gpu, fps |-> page.fps, frameTime |-> page.frameTime,
                 charts |-> page.charts, action |-> action, actionLog |-> actionLog,
                 allLogs |-> page.allLogs]
  PROVE  next \in DisplayType /\ next.actionLog = actionLog
<1>1. next \in [gpu : 0..MaxMessages, fps : Nat, frameTime : 0..MaxValue,
                charts : [overview : Seq(0..MaxValue)],
                action : {"NO_ACTION"} \cup Values(Actions),
                actionLog : Seq(1..MaxMessages), allLogs : Seq(1..MaxMessages)]
  BY PageFields
<1>2. next.charts = page.charts /\ next.actionLog = actionLog /\ next.allLogs = page.allLogs
  OBVIOUS
<1>3. Len(page.charts.overview) <= maxPoints /\ Len(page.allLogs) <= MAX_LOGS
  BY DEF DisplayType
<1> QED
  BY <1>1, <1>2, <1>3 DEF DisplayType

LEMMA PageWithLog ==
  ASSUME NEW page \in DisplayType, NEW allLogs
  PROVE  [page EXCEPT !.allLogs = allLogs]
           = [gpu |-> page.gpu, fps |-> page.fps, frameTime |-> page.frameTime,
              charts |-> page.charts, action |-> page.action, actionLog |-> page.actionLog,
              allLogs |-> allLogs]
BY SMT DEF DisplayType

LEMMA LogType ==
  ASSUME NEW page \in DisplayType, NEW allLogs \in Seq(1..MaxMessages), Len(allLogs) <= MAX_LOGS,
         NEW next, next = [page EXCEPT !.allLogs = allLogs]
  PROVE  next \in DisplayType /\ next.allLogs = allLogs
<1>1. next = [gpu |-> page.gpu, fps |-> page.fps, frameTime |-> page.frameTime,
              charts |-> page.charts, action |-> page.action, actionLog |-> page.actionLog,
              allLogs |-> allLogs]
  BY PageWithLog
<1>2. /\ next \in [gpu : 0..MaxMessages, fps : Nat, frameTime : 0..MaxValue,
                   charts : [overview : Seq(0..MaxValue)],
                   action : {"NO_ACTION"} \cup Values(Actions),
                   actionLog : Seq(1..MaxMessages), allLogs : Seq(1..MaxMessages)]
  BY <1>1, PageFields
<1>3. next.charts = page.charts /\ next.actionLog = page.actionLog /\ next.allLogs = allLogs
  BY <1>1
<1>4. Len(page.charts.overview) <= maxPoints /\ Len(page.actionLog) <= maxActions
  BY DEF DisplayType
<1>5. next \in DisplayType
  BY <1>2, <1>3, <1>4 DEF DisplayType
<1> QED
  BY <1>3, <1>5

\* The list of the newest actions with one more.
LEMMA NewestFirst ==
  ASSUME NEW log \in Seq(1..MaxMessages), NEW msg \in 1..MaxMessages, Len(log) <= maxActions
  PROVE  LET longer == SubSeq(<<msg>> \o log, 1, Lesser(Len(log) + 1, maxActions))
         IN  /\ longer \in Seq(1..MaxMessages) /\ Len(log) \in Nat
             /\ Len(longer) = Lesser(Len(log) + 1, maxActions)
             /\ \A k \in 1..Len(longer) : longer[k] = IF k = 1 THEN msg ELSE log[k - 1]
<1> DEFINE whole == <<msg>> \o log
           n == Lesser(Len(log) + 1, maxActions)
           longer == SubSeq(whole, 1, n)
<1>1. /\ whole \in Seq(1..MaxMessages) /\ Len(log) \in Nat /\ Len(whole) = Len(log) + 1
      /\ \A k \in 1..Len(whole) : whole[k] = IF k = 1 THEN msg ELSE log[k - 1]
  <2>1. /\ <<msg>> \in Seq(1..MaxMessages) /\ Len(<<msg>>) = 1 /\ <<msg>>[1] = msg
        /\ Len(log) \in Nat
    OBVIOUS
  <2> QED
    BY <2>1, ConcatProperties
<1>2. n \in 0..Len(whole)
  BY <1>1, PathAssumption DEF Lesser
<1> HIDE DEF whole, n
<1>3. longer \in Seq(1..MaxMessages) /\ Len(longer) = n /\ \A k \in 1..n : longer[k] = whole[k]
  BY <1>1, <1>2, FirstOf
<1> HIDE DEF longer
<1>4. \A k \in 1..n : k \in 1..Len(whole)
  BY <1>1, <1>2
<1>5. \A k \in 1..n : longer[k] = IF k = 1 THEN msg ELSE log[k - 1]
  BY <1>1, <1>3, <1>4
<1> QED
  BY <1>1, <1>3, <1>5 DEF n, longer, whole

LEMMA PredictionKeeps ==
  ASSUME NEW page, NEW handled, PageGood(page, handled), stream = "prediction",
         NEW msg \in 1..MaxMessages, \A k \in 1..Len(handled) : handled[k] < msg
  PROVE  PageGood(ShowPrediction(page, msg), Append(handled, msg))
<1> DEFINE next == ShowPrediction(page, msg)
           more == Append(handled, msg)
           log == page.actionLog
           action == Actions[msg]
           longer == SubSeq(<<msg>> \o log, 1, Lesser(Len(log) + 1, maxActions))
           actions == {m \in Values(handled) : Actions[m] # "NO_ACTION"}
           newActions == {m \in Values(more) : Actions[m] # "NO_ACTION"}
<1>1. /\ page \in DisplayType /\ handled \in Seq(1..MaxMessages)
      /\ more \in Seq(1..MaxMessages) /\ Len(more) = Len(handled) + 1 /\ Len(handled) \in Nat
      /\ \A k \in 1..Len(handled) : more[k] = handled[k]
      /\ more[Len(handled) + 1] = msg
      /\ \A i, j \in 1..Len(more) : i < j => more[i] < more[j]
  BY AppendedMessages DEF PageGood
<1>2. log \in Seq(1..MaxMessages) /\ Len(log) <= maxActions
  BY <1>1, PageFields DEF DisplayType
<1>3. action \in Values(Actions)
  BY PathAssumption DEF Values
<1>4. /\ Values(log) \subseteq actions
      /\ \A i, j \in DOMAIN log : i < j => log[i] > log[j]
      /\ \A m \in actions \ Values(log) :
           Len(log) = maxActions /\ \A i \in DOMAIN log : m < log[i]
  BY DEF PageGood, Recent
<1>5. Values(more) = Values(handled) \cup {msg}
  <2> HIDE DEF more
  <2>1. DOMAIN handled = 1..Len(handled) /\ DOMAIN more = 1..Len(handled) + 1
    BY <1>1, Elements
  <2>2. 1..Len(handled) + 1 = 1..Len(handled) \cup {Len(handled) + 1}
    BY <1>1
  <2> QED
    BY <1>1, <2>1, <2>2 DEF Values
<1>6. ASSUME NEW m \in Values(handled)
      PROVE  m \in 1..MaxMessages /\ m < msg
  <2>1. \E k \in 1..Len(handled) : m = handled[k]
    BY <1>1, Elements DEF Values
  <2>2. \A k \in 1..Len(handled) : handled[k] \in 1..MaxMessages
    BY <1>1, Elements
  <2> QED
    BY <2>1, <2>2
<1> HIDE DEF more
<1>7. CASE Actions[msg] = "NO_ACTION"
  <2>1. next = [page EXCEPT !.action = action, !.actionLog = log]
    BY <1>7 DEF ShowPrediction
  <2> HIDE DEF next, log, action
  <2>2. next \in DisplayType /\ next.actionLog = log
    <3>1. next = [gpu |-> page.gpu, fps |-> page.fps, frameTime |-> page.frameTime,
                  charts |-> page.charts, action |-> action, actionLog |-> log,
                  allLogs |-> page.allLogs]
      BY <1>1, <2>1, PageWithAction
    <3> QED
      BY <1>1, <1>2, <1>3, <3>1, ActionsType
  <2> HIDE DEF next
  <2>3. newActions = actions
    BY <1>5, <1>7
  <2>4. Recent(next, more)
    BY <1>4, <2>2, <2>3 DEF Recent
  <2> QED
    BY <1>1, <2>2, <2>4 DEF PageGood, next, more
<1>8. CASE Actions[msg] # "NO_ACTION"
  <2>1. next = [page EXCEPT !.action = action, !.actionLog = longer]
    BY <1>8 DEF ShowPrediction
  <2> HIDE DEF next, action
  <2>2. /\ longer \in Seq(1..MaxMessages) /\ Len(log) \in Nat
        /\ Len(longer) = Lesser(Len(log) + 1, maxActions)
        /\ \A k \in 1..Len(longer) : longer[k] = IF k = 1 THEN msg ELSE log[k - 1]
        /\ maxActions \in Nat
    BY <1>2, NewestFirst, PathAssumption
  <2> HIDE DEF longer
  <2>3. Len(longer) <= maxActions /\ Len(longer) <= Len(log) + 1
        /\ Len(longer) \in {Len(log) + 1, maxActions}
    BY <2>2 DEF Lesser
  <2>4. next \in DisplayType /\ next.actionLog = longer
    <3>1. next = [gpu |-> page.gpu, fps |-> page.fps, frameTime |-> page.frameTime,
                  charts |-> page.charts, action |-> action, actionLog |-> longer,
                  allLogs |-> page.allLogs]
      BY <1>1, <2>1, PageWithAction
    <3> QED
      BY <1>1, <1>3, <2>2, <2>3, <3>1, ActionsType
  <2> HIDE DEF next
  <2>5. newActions = actions \cup {msg}
    BY <1>5, <1>8
  <2>6. DOMAIN log = 1..Len(log) /\ DOMAIN longer = 1..Len(longer) /\ Len(longer) \in Nat
        /\ \A k \in 1..Len(log) : log[k] \in 1..MaxMessages
    BY <1>2, <2>2, Elements
  <2>7. \A k \in 1..Len(log) : log[k] \in actions /\ log[k] < msg
    BY <1>4, <1>6, <2>6 DEF Values
  <2>8. Values(longer) \subseteq newActions
    <3>1. ASSUME NEW k \in 1..Len(longer)
          PROVE  longer[k] \in newActions
      <4>1. k # 1 => k - 1 \in 1..Len(log)
        BY <2>2, <2>3, <2>6
      <4> HIDE DEF actions, newActions
      <4> QED
        BY <2>2, <2>5, <2>7, <4>1
    <3> QED
      BY <2>6, <3>1 DEF Values
  <2>9. ASSUME NEW i \in 1..Len(longer), NEW j \in 1..Len(longer), i < j
        PROVE  longer[i] > longer[j]
    <3>1. j - 1 \in 1..Len(log) /\ longer[j] = log[j - 1] /\ j # 1
      BY <2>2, <2>3, <2>6, <2>9
    <3>2. CASE i = 1
      BY <2>2, <2>6, <2>7, <3>1, <3>2
    <3>3. CASE i # 1
      <4>1. i - 1 \in 1..Len(log) /\ longer[i] = log[i - 1] /\ i - 1 < j - 1
        BY <2>2, <2>3, <2>6, <2>9, <3>3
      <4> QED
        BY <1>4, <2>6, <3>1, <4>1
    <3> QED
      BY <3>2, <3>3
  <2>10. ASSUME NEW m \in newActions \ Values(longer)
         PROVE  Len(longer) = maxActions /\ \A i \in 1..Len(longer) : m < longer[i]
    <3>1. CASE maxActions = 0
      BY <2>2, <2>3, <2>6, <3>1
    <3>2. CASE maxActions > 0
      <4>1. 1 \in 1..Len(longer) /\ longer[1] = msg
        BY <2>2, <2>3, <2>6, <3>2
      <4>2. m \in actions /\ m < msg /\ m \in Nat
        BY <1>6, <2>5, <2>6, <4>1 DEF Values
      <4>3. Len(log) = maxActions /\ Len(longer) = maxActions
            /\ \A i \in 1..maxActions - 1 : m < log[i]
        <5>1. CASE m \in Values(log)
          <6>1. PICK k \in 1..Len(log) : m = log[k]
            BY <2>6, <5>1 DEF Values
          <6>2. k + 1 \notin 1..Len(longer)
            <7>1. ASSUME k + 1 \in 1..Len(longer) PROVE FALSE
              <8>1. longer[k + 1] = log[k]
                BY <2>2, <7>1, <2>6
              <8> QED
                BY <2>6, <6>1, <7>1, <8>1 DEF Values
            <7> QED
              BY <7>1
          <6>3. k = Len(log) /\ Len(log) = maxActions /\ Len(longer) = maxActions
            BY <1>2, <2>2, <2>3, <2>6, <6>2
          <6>4. ASSUME NEW i \in 1..maxActions - 1
                PROVE  log[i] > log[k]
            <7>1. i \in 1..Len(log) /\ i < k
              BY <2>2, <2>6, <6>3
            <7> QED
              BY <1>4, <2>6, <7>1
          <6> QED
            BY <2>2, <2>6, <6>1, <6>3, <6>4
        <5>2. CASE m \notin Values(log)
          <6>1. Len(log) = maxActions /\ \A i \in 1..Len(log) : m < log[i]
            BY <1>4, <2>6, <4>2, <5>2
          <6> QED
            BY <2>2, <2>3, <6>1
        <5> QED
          BY <5>1, <5>2
      <4>4. ASSUME NEW i \in 1..Len(longer)
            PROVE  m < longer[i]
        <5>1. CASE i = 1
          BY <4>1, <4>2, <5>1
        <5>2. CASE i # 1
          <6>1. i - 1 \in 1..maxActions - 1 /\ longer[i] = log[i - 1]
            BY <2>2, <2>6, <4>3, <5>2
          <6> QED
            BY <4>3, <6>1
        <5> QED
          BY <5>1, <5>2
      <4> QED
        BY <4>3, <4>4
    <3> QED
      BY <2>2, <3>1, <3>2
  <2>11. Recent(next, more)
    BY <2>4, <2>6, <2>8, <2>9, <2>10 DEF Recent
  <2> QED
    BY <1>1, <2>4, <2>11 DEF PageGood, next, more
<1> QED
  BY <1>7, <1>8

LEMMA LogKeeps ==
  ASSUME NEW page, NEW handled, PageGood(page, handled), stream = "log",
         NEW msg \in 1..MaxMessages, \A k \in 1..Len(handled) : handled[k] < msg
  PROVE  PageGood(ShowLog(page, msg), Append(handled, msg))
<1> DEFINE next == ShowLog(page, msg)
           more == Append(handled, msg)
           log == page.allLogs
           longer == Append(log, msg)
           new == IF Len(longer) > MAX_LOGS
                  THEN SubSeq(longer, LogsDropped + 1, Len(longer)) ELSE longer
<1>1. /\ page \in DisplayType /\ handled \in Seq(1..MaxMessages)
      /\ more \in Seq(1..MaxMessages) /\ Len(more) = Len(handled) + 1 /\ Len(handled) \in Nat
      /\ \A i, j \in 1..Len(more) : i < j => more[i] < more[j]
  BY AppendedMessages DEF PageGood
<1>2. log \in Seq(1..MaxMessages) /\ Len(log) <= MAX_LOGS /\ Len(log) \in Nat
  <2>1. log \in Seq(1..MaxMessages) /\ Len(log) <= MAX_LOGS
    BY <1>1, PageFields DEF DisplayType
  <2> QED
    BY <2>1, Elements
<1>3. /\ Len(log) \in Lesser(Len(handled), MAX_LOGS - LogsDropped + 1)..Len(handled)
      /\ log = LastOf(handled, Len(log))
  BY DEF PageGood, Recent
<1>4. /\ longer \in Seq(1..MaxMessages) /\ Len(longer) = Len(log) + 1
  BY <1>2, AppendProperties
<1>5. longer = LastOf(more, Len(longer))
  <2>1. Len(log) \in 0..Len(handled)
    BY <1>1, <1>2, <1>3
  <2> DEFINE n == Len(log)
  <2>2. LastOf(Append(handled, msg), n + 1) = Append(LastOf(handled, n), msg)
    BY <1>1, <2>1, LastAppended
  <2> QED
    BY <1>3, <1>4, <2>2
<1>6. next = [page EXCEPT !.allLogs = new]
  BY DEF ShowLog
<1>7. MAX_LOGS \in Nat /\ LogsDropped \in 1..MAX_LOGS
  BY PathAssumption
<1>8. /\ new \in Seq(1..MaxMessages) /\ Len(new) <= MAX_LOGS
      /\ Len(new) \in Lesser(Len(more), MAX_LOGS - LogsDropped + 1)..Len(more)
      /\ new = LastOf(more, Len(new))
  <2> HIDE DEF more, longer, log
  <2>1. CASE Len(longer) > MAX_LOGS
    <3> DEFINE n == Len(longer) - LogsDropped
    <3>1. n \in 0..Len(longer) /\ n = MAX_LOGS - LogsDropped + 1 /\ Len(longer) = MAX_LOGS + 1
          /\ Len(longer) \in 0..Len(more) /\ n \in 0..Len(more) /\ n <= MAX_LOGS
      BY <1>1, <1>2, <1>3, <1>4, <1>7, <2>1
    <3>2. new = LastOf(longer, n)
      <4>1. Len(longer) - n + 1 = LogsDropped + 1
        BY <1>2, <1>4, <1>7
      <4> QED
        BY <2>1, <4>1 DEF LastOf
    <3> HIDE DEF n, new
    <3>3. new \in Seq(1..MaxMessages) /\ Len(new) = n
      BY <1>4, <3>1, <3>2, LastElements
    <3>4. LastOf(LastOf(more, Len(longer)), n) = LastOf(more, n)
      BY <1>1, <3>1, LastOfLast
    <3>5. new = LastOf(more, n)
      BY <1>5, <3>2, <3>4
    <3>6. n >= Lesser(Len(more), MAX_LOGS - LogsDropped + 1)
          /\ Lesser(Len(more), MAX_LOGS - LogsDropped + 1) \in Int
      BY <1>1, <1>7, <3>1 DEF Lesser
    <3> QED
      BY <3>1, <3>3, <3>5, <3>6
  <2>2. CASE ~ (Len(longer) > MAX_LOGS)
    <3>1. new = longer
      BY <2>2
    <3> HIDE DEF new
    <3>2. Len(longer) >= Lesser(Len(more), MAX_LOGS - LogsDropped + 1)
          /\ Lesser(Len(more), MAX_LOGS - LogsDropped + 1) \in Int /\ Len(longer) <= Len(more)
      BY <1>1, <1>2, <1>3, <1>4, <1>7 DEF Lesser
    <3> QED
      BY <1>1, <1>2, <1>4, <1>5, <1>7, <2>2, <3>1, <3>2
  <2> QED
    BY <2>1, <2>2
<1> HIDE DEF new, next, more
<1>9. next \in DisplayType /\ next.allLogs = new
  BY <1>1, <1>6, <1>8, LogType
<1>10. Recent(next, more)
  BY <1>8, <1>9 DEF Recent
<1> QED
  BY <1>1, <1>9, <1>10 DEF PageGood, next, more

\* Whichever stream: a page that shows the newest messages still does after one more.
LEMMA ShowKeeps ==
  ASSUME NEW page, NEW handled, PageGood(page, handled), stream \in Streams,
         NEW msg \in 1..MaxMessages, \A k \in 1..Len(handled) : handled[k] < msg
  PROVE  PageGood(Show(page, msg), Append(handled, msg))
<1>1. CASE stream = "telemetry"
  BY <1>1, TelemetryKeeps DEF Show
<1>2. CASE stream = "prediction"
  BY <1>2, PredictionKeeps DEF Show
<1>3. CASE stream = "log"
  BY <1>3, LogKeeps DEF Show
<1> QED
  BY <1>1, <1>2, <1>3 DEF Streams

-----------------------------------------------------------------------------
(* The server's handlers, one after the other *)

\* So do the states of the server's handlers.
LEMMA HandledEquation ==
  ASSUME NEW start, NEW lined, Len(lined) \in Nat
  PROVE  Handled(start, lined) =
           [i \in 0..Len(lined) |->
              IF i = 0 THEN start ELSE Handle(Handled(start, lined)[i - 1], lined[i][1].msg)]
<1> DEFINE n == Len(lined)
           Step(f, i) == IF i = 0 THEN start ELSE Handle(f[i - 1], lined[i][1].msg)
           UpTo(f, k) == f = [i \in 0..k |-> Step(f, i)]
           S == {k \in 0..n : \E f : UpTo(f, k)}
<1>1. 0 \in S
  <2> DEFINE g == [i \in 0..0 |-> start]
  <2>1. UpTo(g, 0)
    OBVIOUS
  <2> HIDE DEF g, UpTo
  <2>2. \E f : UpTo(f, 0)
    BY <2>1
  <2> QED
    BY <2>2
<1>2. ASSUME NEW k \in S, k < n
      PROVE  k + 1 \in S
  <2>0. k \in 0..n /\ \E f : UpTo(f, k)
    <3> HIDE DEF UpTo
    <3> QED
      OBVIOUS
  <2>1. PICK f : UpTo(f, k)
    BY <2>0
  <2> DEFINE g == [i \in 0..k + 1 |-> IF i = k + 1 THEN Handle(f[k], lined[k + 1][1].msg) ELSE f[i]]
  <2>2. k \in 0..k /\ k + 1 \in 0..n /\ \A i \in 0..k : i # k + 1
    BY <1>2, <2>0
  <2>3. ASSUME NEW i \in 0..k + 1 PROVE g[i] = Step(g, i)
    <3>1. CASE i = k + 1
      BY <2>2, <3>1
    <3>2. CASE i = 0
      BY <2>1, <2>2, <3>2
    <3>3. CASE i \in 1..k
      <4>1. i - 1 \in 0..k /\ i \in 0..k /\ i # 0
        BY <2>0, <3>3
      <4>2. g[i - 1] = f[i - 1] /\ g[i] = f[i]
        BY <2>2, <4>1
      <4>3. f[i] = Step(f, i)
        BY <2>1, <4>1
      <4> QED
        BY <4>1, <4>2, <4>3
    <3> QED
      BY <2>0, <3>1, <3>2, <3>3
  <2>4. UpTo(g, k + 1)
    BY <2>3
  <2> HIDE DEF g, UpTo
  <2>5. \E h : UpTo(h, k + 1)
    BY <2>4
  <2> QED
    BY <2>2, <2>5
<1>3. n \in S
  <2>1. S \in SUBSET (0..n) /\ n \in 0..n
    OBVIOUS
  <2> HIDE DEF S
  <2> QED
    BY <1>1, <1>2, <2>1, InductionUpTo
<1> QED
  BY <1>3 DEF Handled

LEMMA HandledSteps ==
  ASSUME NEW start, NEW lined, Len(lined) \in Nat
  PROVE  /\ Handled(start, lined)[0] = start
         /\ \A i \in 0..Len(lined) - 1 :
              Handled(start, lined)[i + 1] = Handle(Handled(start, lined)[i], lined[i + 1][1].msg)
<1>1. 0 \in 0..Len(lined)
  OBVIOUS
<1>2. ASSUME NEW i \in 0..Len(lined) - 1
      PROVE  i + 1 \in 0..Len(lined) /\ i + 1 # 0 /\ (i + 1) - 1 = i
  OBVIOUS
<1> HIDE DEF Handled
<1> QED
  BY <1>1, <1>2, HandledEquation

\* The state of the handlers when the last message handled had the number last.
Stage(state, count, last) ==
  /\ state = [count |-> count, page |-> state.page, shown |-> state.shown]
  /\ PageGood(state.page, state.shown)
  /\ \A k \in 1..Len(state.shown) : state.shown[k] <= last

\* The number of messages counted, of those read.
Counted(n) == IF stream = "telemetry" THEN n ELSE 0

\* The number of the last of the first n lines.
LastNumber(found, n) == IF n = 0 THEN 0 ELSE Number(found[n])

LEMMA HandleKeeps ==
  ASSUME stream \in Streams, NEW n \in Nat, NEW last \in 0..MaxMessages,
         NEW state, Stage(state, Counted(n), last),
         NEW msg \in 1..MaxMessages, last < msg
  PROVE  Stage(Handle(state, msg), Counted(n + 1), msg)
<1> DEFINE count == state.count + (IF stream = "telemetry" THEN 1 ELSE 0)
           passed == stream = "prediction" \/ count % DOWNSAMPLE = 0
           page == Show(state.page, msg)
           more == Append(state.shown, msg)
           next == Handle(state, msg)
<1>1. /\ state = [count |-> Counted(n), page |-> state.page, shown |-> state.shown]
      /\ state.count = Counted(n)
  BY DEF Stage
<1>2. count = Counted(n + 1)
  BY <1>1 DEF Counted
<1>3. /\ PageGood(state.page, state.shown) /\ state.shown \in Seq(1..MaxMessages)
      /\ \A k \in 1..Len(state.shown) : state.shown[k] <= last
  BY DEF Stage, PageGood
<1>4. \A k \in 1..Len(state.shown) : state.shown[k] \in 1..MaxMessages
  BY <1>3, Elements
<1>5. \A k \in 1..Len(state.shown) : state.shown[k] < msg
  BY <1>3, <1>4
<1>6. next = IF passed THEN [count |-> count, page |-> page, shown |-> more]
             ELSE [state EXCEPT !.count = count]
  BY DEF Handle
<1> HIDE DEF passed, count, next
<1>7. CASE passed
  <2>1. next = [count |-> Counted(n + 1), page |-> page, shown |-> more]
    BY <1>2, <1>6, <1>7
  <2>2. PageGood(page, more)
    BY <1>3, <1>5, ShowKeeps
  <2> HIDE DEF page
  <2>3. \A k \in 1..Len(more) : more[k] <= msg
    <3>1. /\ Len(more) = Len(state.shown) + 1 /\ Len(state.shown) \in Nat
          /\ \A k \in 1..Len(state.shown) : more[k] = state.shown[k]
          /\ more[Len(state.shown) + 1] = msg
      BY <1>3, <1>5, AppendedMessages DEF PageGood
    <3> HIDE DEF more
    <3>2. ASSUME NEW k \in 1..Len(more)
          PROVE  more[k] <= msg
      <4>1. CASE k = Len(state.shown) + 1
        BY <3>1, <4>1
      <4>2. CASE k \in 1..Len(state.shown)
        <5>1. more[k] = state.shown[k]
          BY <3>1, <4>2
        <5>2. state.shown[k] \in 1..MaxMessages /\ state.shown[k] < msg
          BY <1>4, <1>5, <4>2
        <5> QED
          BY <5>1, <5>2
      <4> QED
        BY <3>1, <4>1, <4>2
    <3> QED
      BY <3>2
  <2> HIDE DEF more
  <2> QED
    BY <2>1, <2>2, <2>3 DEF Stage, next
<1>8. CASE ~ passed
  <2>1. next = [state EXCEPT !.count = count]
    BY <1>6, <1>8
  <2>2. next = [count |-> Counted(n + 1), page |-> state.page, shown |-> state.shown]
    BY <1>1, <1>2, <2>1
  <2>3. \A k \in 1..Len(state.shown) : state.shown[k] <= msg
    BY <1>4, <1>5
  <2> QED
    BY <1>3, <2>2, <2>3 DEF Stage, next
<1> QED
  BY <1>7, <1>8

LEMMA RestOf ==
  ASSUME NEW T, NEW p \in Seq(T), NEW r \in 0..Len(p)
  PROVE  /\ Len(SubSeq(p, r + 1, Len(p))) = Len(p) - r
         /\ \A i \in 1..Len(p) - r : SubSeq(p, r + 1, Len(p))[i] = p[r + i]
OBVIOUS

\* After each of the lines emitted, the handlers have seen the messages up to its own.
LEMMA HandledKeeps ==
  ASSUME stream \in Streams, NEW T, NEW found \in Seq(T), NEW r \in 0..Len(found),
         \A k \in 1..Len(found) : Number(found[k]) \in 1..MaxMessages,
         \A j, k \in 1..Len(found) : j < k => Number(found[j]) < Number(found[k]),
         NEW start, Stage(start, Counted(r), LastNumber(found, r)),
         NEW lined, Len(lined) = Len(found) - r,
         \A i \in 1..Len(found) - r : lined[i] = found[r + i]
  PROVE  Stage(Handled(start, lined)[Len(lined)], Counted(Len(found)),
               LastNumber(found, Len(found)))
<1> DEFINE n == Len(found) - r
           Good(i) == Stage(Handled(start, lined)[i], Counted(r + i), LastNumber(found, r + i))
           S == {i \in 0..n : Good(i)}
<1>1. /\ Len(found) \in Nat /\ r \in Nat /\ n \in Nat /\ r + n = Len(found)
      /\ Len(lined) = n /\ \A i \in 1..n : lined[i] = found[r + i]
  OBVIOUS
<1> HIDE DEF n
<1>2. /\ Handled(start, lined)[0] = start
      /\ \A i \in 0..n - 1 :
           Handled(start, lined)[i + 1] = Handle(Handled(start, lined)[i], lined[i + 1][1].msg)
  BY <1>1, HandledSteps
<1>3. 0 \in S
  <2>1. r + 0 = r /\ 0 \in 0..n
    BY <1>1
  <2>2. Good(0)
    BY <1>2, <2>1
  <2> HIDE DEF Good
  <2> QED
    BY <2>1, <2>2
<1>4. ASSUME NEW i \in S, i < n
      PROVE  i + 1 \in S
  <2>1. Good(i) /\ i \in 0..n - 1
    <3> HIDE DEF Good
    <3> QED
      BY <1>1, <1>4
  <2> DEFINE m == r + i
             last == LastNumber(found, m)
             state == Handled(start, lined)[i]
             msg == Number(found[m + 1])
  <2>2. /\ m \in Nat /\ m + 1 \in 1..Len(found) /\ m + 1 # 0
        /\ r + (i + 1) = m + 1 /\ i + 1 \in 0..n
        /\ m # 0 => m \in 1..Len(found) /\ m < m + 1
    BY <1>1, <2>1
  <2>3. Stage(state, Counted(m), last)
    BY <2>1
  <2> HIDE DEF m
  <2>4. msg \in 1..MaxMessages
    BY <2>2
  <2>5. last \in 0..MaxMessages /\ last < msg
    <3>1. CASE m = 0
      BY <2>2, <2>4, <3>1, BridgeAssumption DEF LastNumber
    <3>2. CASE m # 0
      <4>1. Number(found[m]) \in 1..MaxMessages /\ Number(found[m]) < msg
        BY <2>2, <3>2
      <4> QED
        BY <3>2, <4>1 DEF LastNumber
    <3> QED
      BY <3>1, <3>2
  <2>6. Handled(start, lined)[i + 1] = Handle(state, msg)
    <3>1. lined[i + 1] = found[m + 1]
      BY <1>1, <2>1, <2>2
    <3> QED
      BY <1>2, <2>1, <3>1 DEF Number
  <2>7. msg = LastNumber(found, r + (i + 1))
    BY <2>2 DEF LastNumber
  <2> HIDE DEF last, state, msg
  <2>8. Stage(Handle(state, msg), Counted(m + 1), msg)
    BY <2>2, <2>3, <2>4, <2>5, HandleKeeps
  <2>9. Good(i + 1)
    BY <2>2, <2>6, <2>7, <2>8
  <2> HIDE DEF Good
  <2> QED
    BY <2>2, <2>9
<1>5. S = 0..n
  <2>1. S \in SUBSET (0..n)
    OBVIOUS
  <2> HIDE DEF S
  <2> QED
    BY <1>1, <1>3, <1>4, <2>1, InductionUpTo
<1>6. Good(n)
  <2>1. n \in 0..n
    BY <1>1
  <2> HIDE DEF Good
  <2>2. n \in S => Good(n)
    OBVIOUS
  <2> HIDE DEF S
  <2> QED
    BY <1>5, <2>1, <2>2
<1> QED
  BY <1>1, <1>6

-----------------------------------------------------------------------------
(* What each action does to the page *)

\* The page has been sent only messages that the bridge has emitted, or lines that the module
\* has written; each frame received has been counted.
PageInv ==
  /\ stream \in Streams
  /\ lines \in 0..MaxMessages
  /\ logs \in Seq(1..lines) /\ Len(logs) <= maxLogs
  /\ telemetryFrameCounter = Counted(Len(received))
  /\ PageGood(display, shown)
  /\ \A k \in 1..Len(shown) :
       shown[k] <= IF stream = "log" THEN lines ELSE LastNumber(received, Len(received))

LEMMA PageInit == Init => PageInv
<1> SUFFICES ASSUME Init PROVE PageInv
  OBVIOUS
<1>1. /\ stream \in Streams /\ telemetryFrameCounter = 0 /\ logs = << >> /\ lines = 0
      /\ display = DisplayInit /\ shown = << >> /\ received = << >>
      /\ maxPoints \in Nat /\ maxActions \in Nat /\ maxLogs \in Nat /\ MAX_LOGS \in Nat
      /\ MaxMessages \in Nat /\ MaxValue \in Nat /\ LogsDropped \in 1..MAX_LOGS
  BY PathAssumption, BridgeAssumption, ChartAssumption, MaxValueNat
     DEF Init, BridgeInit, Streams
<1>2. DisplayInit \in DisplayType
  <2>1. DisplayInit \in [gpu : 0..MaxMessages, fps : Nat, frameTime : 0..MaxValue,
             charts : [overview : Seq(0..MaxValue)], action : {"NO_ACTION"} \cup Values(Actions),
             actionLog : Seq(1..MaxMessages), allLogs : Seq(1..MaxMessages)]
    BY <1>1 DEF DisplayInit, Charts
  <2> QED
    BY <1>1, <2>1 DEF DisplayType, DisplayInit, Charts
<1>3. Recent(display, shown)
  <2>1. CASE stream = "telemetry"
    <3> DEFINE frames == [i \in DOMAIN shown |-> Frames[shown[i]].frame_time_ms]
    <3>1. frames = << >>
      BY <1>1
    <3>2. LastOf(<< >>, Lesser(Len(<< >>), maxPoints)) = << >>
      BY <1>1 DEF LastOf, Lesser
    <3> QED
      BY <1>1, <2>1, <3>1, <3>2 DEF Recent, DisplayInit, Charts
  <2>2. CASE stream = "prediction"
    BY <1>1, <2>2 DEF Recent, DisplayInit, Charts, Values
  <2>3. CASE stream = "log"
    BY <1>1, <2>3 DEF Recent, DisplayInit, Charts, LastOf, Lesser
  <2> QED
    BY <1>1, <2>1, <2>2, <2>3 DEF Streams
<1> QED
  BY <1>1, <1>2, <1>3 DEF PageInv, PageGood, Counted

\* What a page shows depends on the stream, the page and what it was sent.
LEMMA GoodAfter ==
  ASSUME stream \in Streams, UNCHANGED stream, PageGood(display', shown')
  PROVE  PageGood(display, shown)'
<1>1. CASE stream = "telemetry"
  BY <1>1 DEF PageGood, Recent
<1>2. CASE stream = "prediction"
  BY <1>2 DEF PageGood, Recent
<1>3. CASE stream = "log"
  BY <1>3 DEF PageGood, Recent
<1> QED
  BY <1>1, <1>2, <1>3 DEF Streams

\* Nothing of this changes with the page, the logs and the messages received.
LEMMA PageStays ==
  ASSUME PageInv, UNCHANGED <<stream, telemetryFrameCounter, logs, lines, display, shown, received>>
  PROVE  PageInv'
<1>1. PageGood(display, shown)'
  BY GoodAfter DEF PageInv
<1> QED
  BY <1>1 DEF PageInv, Counted, LastNumber, Number

LEMMA MessagesKeep ==
  ASSUME StreamInv, PageInv, OnMessages
  PROVE  PageInv'
<1> DEFINE r == Len(received)
           emitted == SubSeq(received', r + 1, Len(received'))
           start == [count |-> telemetryFrameCounter, page |-> display, shown |-> shown]
           handled == Handled(start, emitted)[Len(emitted)]
           T == Seq(Piece)
<1>1. /\ stream \in Streams /\ stream # "log" /\ UNCHANGED <<stream, logs, lines>>
      /\ telemetryFrameCounter' = handled.count
      /\ \/ display' = handled.page /\ shown' = handled.shown
         \/ UNCHANGED <<display, shown>>
  BY DEF OnMessages, PageInv, Broadcast
<1>2. /\ StreamInv'
      /\ \E found \in Seq(T) : received' = received \o found
  <2>1. PICK s \in Sockets : OnData(s)
    BY DEF OnMessages
  <2> QED
    BY <2>1, DataKeeps
<1>3. /\ received \in Seq(T)
      /\ \A k \in 1..Len(received) : Number(received[k]) \in k..sent
  <2>1. Whole(received)
    BY DEF StreamInv, ReadUpTo
  <2> QED
    BY <2>1 DEF Whole
<1>4. /\ received' \in Seq(T) /\ Len(received') \in Nat /\ sent' \in 0..MaxMessages
      /\ \A k \in 1..Len(received') : Number(received'[k]) \in k..sent'
      /\ \A j, k \in 1..Len(received') : j < k => Number(received'[j]) < Number(received'[k])
  <2>1. sent' \in 0..MaxMessages /\ Whole(received)'
    BY <1>2 DEF StreamInv, ReadUpTo
  <2>2. /\ received' \in Seq(T)
        /\ \A k \in 1..Len(received') : Number(received'[k]) \in k..sent'
        /\ \A j, k \in 1..Len(received') : j < k => Number(received'[j]) < Number(received'[k])
    BY <2>1 DEF Whole, Number
  <2>3. Len(received') \in Nat
    BY <2>2
  <2> QED
    BY <2>1, <2>2, <2>3
<1>5. /\ r \in Nat /\ r \in 0..Len(received')
      /\ \A k \in 1..r : received'[k] = received[k]
  <2>1. PICK found \in Seq(T) : received' = received \o found
    BY <1>2
  <2> HIDE DEF T
  <2>2. Len(received') = Len(received) + Len(found) /\ Len(received) \in Nat /\ Len(found) \in Nat
        /\ \A k \in 1..Len(received) : received'[k] = received[k]
    BY <1>3, <2>1
  <2> QED
    BY <2>2
<1>6. LastNumber(received', r) = LastNumber(received, r)
  BY <1>5 DEF LastNumber
<1>7. Stage(start, Counted(r), LastNumber(received', r))
  <2>1. start = [count |-> Counted(r), page |-> start.page, shown |-> start.shown]
        /\ start.page = display /\ start.shown = shown
    BY DEF PageInv
  <2>2. \A k \in 1..Len(shown) : shown[k] <= LastNumber(received, r)
    BY <1>1 DEF PageInv
  <2> HIDE DEF start
  <2> QED
    BY <1>6, <2>1, <2>2 DEF Stage, PageInv
<1>8. Len(emitted) = Len(received') - r
      /\ \A i \in 1..Len(received') - r : emitted[i] = received'[r + i]
  <2> HIDE DEF r, T
  <2> QED
    BY <1>4, <1>5, RestOf
<1>9. ASSUME NEW k \in 1..Len(received')
      PROVE  Number(received'[k]) \in 1..MaxMessages
  <2>1. Number(received'[k]) \in k..sent' /\ MaxMessages \in Nat
    BY <1>4, BridgeAssumption
  <2> QED
    BY <1>4, <2>1
<1> HIDE DEF r, T, start, emitted
<1>10. Stage(handled, Counted(Len(received')), LastNumber(received', Len(received')))
  BY <1>1, <1>4, <1>5, <1>7, <1>8, <1>9, HandledKeeps
<1> HIDE DEF handled
<1>11. telemetryFrameCounter' = Counted(Len(received'))
  BY <1>1, <1>10 DEF Stage
<1>12. CASE display' = handled.page /\ shown' = handled.shown
  <2>1. PageGood(display', shown')
        /\ \A k \in 1..Len(shown') : shown'[k] <= LastNumber(received', Len(received'))
    BY <1>10, <1>12 DEF Stage
  <2>2. PageGood(display, shown)'
    BY <1>1, <2>1, GoodAfter
  <2> QED
    BY <1>1, <1>11, <2>1, <2>2 DEF PageInv, Counted, LastNumber, Number
<1>13. CASE UNCHANGED <<display, shown>>
  <2>1. PageGood(display', shown')
    BY <1>13 DEF PageInv
  <2>2. PageGood(display, shown)'
    BY <1>1, <2>1, GoodAfter
  <2>3. LastNumber(received, r) <= LastNumber(received', Len(received'))
        /\ LastNumber(received, r) \in Int /\ LastNumber(received', Len(received')) \in Int
    <3>1. CASE r = 0
      BY <1>4, <1>6, <3>1 DEF LastNumber
    <3>2. CASE r # 0
      <4>1. r \in 1..Len(received') /\ Len(received') \in 1..Len(received')
            /\ Len(received') # 0
        BY <1>4, <1>5, <3>2
      <4>2. Number(received'[r]) <= Number(received'[Len(received')])
            /\ Number(received'[r]) \in Int /\ Number(received'[Len(received')]) \in Int
        BY <1>4, <4>1
      <4> QED
        BY <1>6, <3>2, <4>1, <4>2 DEF LastNumber
    <3> QED
      BY <3>1, <3>2
  <2>4. ASSUME NEW k \in 1..Len(shown)
        PROVE  shown[k] <= LastNumber(received', Len(received'))
    <3>1. shown[k] <= LastNumber(received, r) /\ shown[k] \in Nat
      <4>1. shown \in Seq(1..MaxMessages)
        BY DEF PageInv, PageGood
      <4>2. shown[k] \in 1..MaxMessages
        BY <4>1, Elements
      <4> QED
        BY <1>1, <4>2 DEF PageInv, r
    <3> QED
      BY <2>3, <3>1
  <2> QED
    BY <1>1, <1>11, <1>13, <2>2, <2>4 DEF PageInv, Counted, LastNumber, Number
<1> QED
  BY <1>1, <1>12, <1>13

LEMMA LargerRange ==
  ASSUME NEW S, NEW T, S \subseteq T, NEW p \in Seq(S)
  PROVE  p \in Seq(T)
BY SeqDef

LEMMA LineKeeps ==
  ASSUME PageInv, AddLog
  PROVE  PageInv'
<1> DEFINE line == lines + 1
           more == Append(shown, line)
           page == Show(display, line)
           longer == Append(logs, line)
<1>1. /\ stream = "log" /\ stream \in Streams /\ UNCHANGED <<stream, telemetryFrameCounter, received>>
      /\ lines' = line /\ line \in 1..MaxMessages /\ lines \in Nat
      /\ logs' = IF Len(longer) > maxLogs THEN Tail(longer) ELSE longer
      /\ \/ display' = page /\ shown' = more
         \/ UNCHANGED <<display, shown>>
  BY BridgeAssumption DEF AddLog, PageInv, Broadcast, bridgeVars, Streams
<1>2. /\ PageGood(display, shown) /\ shown \in Seq(1..MaxMessages)
      /\ \A k \in 1..Len(shown) : shown[k] <= lines
  BY <1>1 DEF PageInv, PageGood
<1>3. \A k \in 1..Len(shown) : shown[k] \in 1..MaxMessages
  BY <1>2, Elements
<1>4. \A k \in 1..Len(shown) : shown[k] < line
  BY <1>1, <1>2, <1>3
<1>5. PageGood(page, more)
  <2> HIDE DEF line
  <2> QED
    BY <1>1, <1>2, <1>4, ShowKeeps
<1>6. \A k \in 1..Len(more) : more[k] <= line
  <2> HIDE DEF line
  <2>1. /\ Len(more) = Len(shown) + 1 /\ Len(shown) \in Nat
        /\ \A k \in 1..Len(shown) : more[k] = shown[k]
        /\ more[Len(shown) + 1] = line
    BY <1>1, <1>2, <1>4, AppendedMessages DEF PageGood
  <2> HIDE DEF more
  <2>2. ASSUME NEW k \in 1..Len(more)
        PROVE  more[k] <= line
    <3>1. CASE k = Len(shown) + 1
      BY <1>1, <2>1, <3>1
    <3>2. CASE k \in 1..Len(shown)
      BY <1>1, <1>3, <1>4, <2>1, <3>2
    <3> QED
      BY <2>1, <3>1, <3>2
  <2> QED
    BY <2>2
<1>7. logs' \in Seq(1..lines') /\ Len(logs') <= maxLogs
  <2> DEFINE T == 1..line
  <2>1. logs \in Seq(1..lines) /\ Len(logs) <= maxLogs /\ maxLogs \in Nat
    BY PathAssumption DEF PageInv
  <2>2. logs \in Seq(T) /\ line \in T
    <3>1. 1..lines \subseteq T /\ line \in T
      BY <1>1
    <3> HIDE DEF T, line
    <3> QED
      BY <2>1, <3>1, LargerRange
  <2> HIDE DEF T, line
  <2>3. /\ longer \in Seq(T) /\ Len(longer) = Len(logs) + 1 /\ Len(logs) \in Nat
        /\ longer # << >>
    BY <2>2
  <2> HIDE DEF longer
  <2>4. Tail(longer) \in Seq(T) /\ Len(Tail(longer)) = Len(logs)
    BY <2>3
  <2>5. logs' \in Seq(T) /\ Len(logs') <= maxLogs
    BY <1>1, <2>1, <2>3, <2>4
  <2>6. 1..lines' = T
    BY <1>1 DEF T
  <2> QED
    BY <2>5, <2>6
<1>8. CASE display' = page /\ shown' = more
  <2> HIDE DEF page, more, line
  <2>1. PageGood(display, shown)'
    BY <1>1, <1>5, <1>8, GoodAfter
  <2>2. lines' \in 0..MaxMessages
    BY <1>1
  <2> QED
    BY <1>1, <1>6, <1>7, <1>8, <2>1, <2>2 DEF PageInv, Counted
<1>9. CASE UNCHANGED <<display, shown>>
  <2>1. PageGood(display, shown)'
    BY <1>1, <1>2, <1>9, GoodAfter
  <2>2. \A k \in 1..Len(shown) : shown[k] <= line
    BY <1>1, <1>3, <1>4
  <2>3. lines' \in 0..MaxMessages
    BY <1>1
  <2> HIDE DEF line
  <2> QED
    BY <1>1, <1>7, <1>9, <2>1, <2>2, <2>3 DEF PageInv, Counted
<1> QED
  BY <1>1, <1>8, <1>9

LEMMA ClearKeeps ==
  ASSUME PageInv, ClearLogs
  PROVE  PageInv'
<1>1. /\ stream = "log" /\ stream \in Streams
      /\ UNCHANGED <<stream, telemetryFrameCounter, received, lines>>
      /\ lines \in 0..MaxMessages /\ display \in DisplayType
  BY DEF ClearLogs, PageInv, PageGood, bridgeVars, Streams
<1>2. CASE logs' = << >> /\ UNCHANGED <<display, shown>>
  <2>1. PageGood(display, shown)'
    BY <1>1, <1>2, GoodAfter DEF PageInv
  <2>2. logs' \in Seq(1..lines') /\ Len(logs') <= maxLogs
    BY <1>2, PathAssumption
  <2> QED
    BY <1>1, <1>2, <2>1, <2>2 DEF PageInv, Counted
<1>3. CASE /\ display' = [display EXCEPT !.allLogs = << >>] /\ shown' = << >>
           /\ UNCHANGED logs
  <2>1. display' \in DisplayType /\ display'.allLogs = << >>
    <3>1. << >> \in Seq(1..MaxMessages) /\ Len(<< >>) <= MAX_LOGS
      BY PathAssumption
    <3> DEFINE none == << >>
    <3> HIDE DEF none
    <3>2. [display EXCEPT !.allLogs = none] \in DisplayType
          /\ [display EXCEPT !.allLogs = none].allLogs = none
      BY <1>1, <3>1, LogType DEF none
    <3> QED
      BY <1>3, <3>2 DEF none
  <2>2. PageGood(display', shown')
    <3>1. Recent(display', shown')
      BY <1>1, <1>3, <2>1, PathAssumption DEF Recent, LastOf, Lesser
    <3> QED
      BY <1>3, <2>1, <3>1 DEF PageGood
  <2>3. PageGood(display, shown)'
    BY <1>1, <2>2, GoodAfter
  <2> QED
    BY <1>1, <1>3, <2>3 DEF PageInv, Counted
<1> QED
  BY <1>2, <1>3 DEF ClearLogs

\* Every step of the whole path of the data.
LEMMA PageStep == StreamInv /\ PageInv /\ [Next]_vars => PageInv'
<1> SUFFICES ASSUME StreamInv, PageInv, [Next]_vars PROVE PageInv'
  OBVIOUS
<1>1. CASE OnMessages
  BY <1>1, MessagesKeep
<1>2. CASE OnBridge
  <2>1. UNCHANGED <<stream, telemetryFrameCounter, logs, lines, display, shown>>
    BY <1>2 DEF OnBridge, NoMessage
  <2>2. UNCHANGED received
    BY <1>2 DEF OnBridge, OnConnect, OnError, OnEnd, OnClose, OnTimer, BridgeStop, Server,
                bridgeAlone
  <2> QED
    BY <2>1, <2>2, PageStays
<1>3. CASE AddLog
  BY <1>3, LineKeeps
<1>4. CASE ClearLogs
  BY <1>4, ClearKeeps
<1>5. CASE UNCHANGED vars
  BY <1>5, PageStays DEF vars, bridgeVars
<1> QED
  BY <1>1, <1>2, <1>3, <1>4, <1>5 DEF Next

LEMMA PageIsInvariant == Spec => []PageInv
<1>1. Init => PageInv
  BY PageInit
<1>2. PageInv /\ StreamInv /\ [Next]_vars => PageInv'
  BY PageStep
<1> QED
  BY <1>1, <1>2, StreamIsInvariant, PTL DEF Spec

\* Whichever stream is followed, and whatever is lost on the way, the page shows the newest of
\* what it has been sent, in the order that each of its parts wants (handleMessage,
\* LineChart.push).
THEOREM PageIsRecent == Spec => []PageShowsRecent
<1>1. PageInv => PageShowsRecent
  BY DEF PageInv, PageGood, PageShowsRecent
<1> QED
  BY <1>1, PageIsInvariant, PTL

ServerType == server \in {"down", "listening", "serving"}

LEMMA ServerIsTyped == Spec => []ServerType
<1>1. Init => ServerType
  BY DEF Init, BridgeInit, ServerType
<1>2. ServerType /\ [Next]_vars => ServerType'
  <2> SUFFICES ASSUME ServerType, [Next]_vars PROVE ServerType'
    OBVIOUS
  <2>1. CASE OnMessages
    BY <2>1 DEF OnMessages, OnData, ServerType
  <2>2. CASE OnBridge
    BY <2>2 DEF OnBridge, OnConnect, OnError, OnEnd, OnClose, OnTimer, BridgeStop, Server,
                ServerListen, ServerWrite, ServerBreak, ServerNotices, outside, ServerType
  <2>3. CASE AddLog \/ ClearLogs \/ UNCHANGED vars
    BY <2>3 DEF AddLog, ClearLogs, vars, bridgeVars, ServerType
  <2> QED
    BY <2>1, <2>2, <2>3 DEF Next
<1> QED
  BY <1>1, <1>2, PTL DEF Spec

\* No more is counted than was written, and what the page keeps is bounded: its list, its log
\* and its chart never outgrow their limits, nor do the bridge's buffer and the module's log
\* (the limits of handleMessage, LineChart.push, _onData and _addLog).
THEOREM DataPathTypeCorrect == Spec => []TypeOK
<1>1. BridgeInv /\ ServerType /\ StreamInv => BridgeTypeOK
  BY DEF BridgeInv, LifeType, ServerType, StreamInv, InOrder, ReadUpTo, Unfinished, Whole,
         BridgeTypeOK
<1>2. StreamInv /\ PageInv => telemetryFrameCounter \in 0..MaxMessages
  <2> SUFFICES ASSUME StreamInv, PageInv PROVE telemetryFrameCounter \in 0..MaxMessages
    OBVIOUS
  <2>1. /\ received \in Seq(Seq(Piece)) /\ sent \in 0..MaxMessages
        /\ \A k \in 1..Len(received) : Number(received[k]) \in k..sent
    BY DEF StreamInv, ReadUpTo, Whole
  <2>2. Len(received) \in 0..MaxMessages
    <3>1. Len(received) \in Nat
      BY <2>1
    <3>2. CASE Len(received) = 0
      BY <3>2, BridgeAssumption
    <3>3. CASE Len(received) # 0
      <4>1. Number(received[Len(received)]) \in Len(received)..sent
        BY <2>1, <3>1, <3>3
      <4> QED
        BY <2>1, <3>1, <4>1, BridgeAssumption
    <3> QED
      BY <3>2, <3>3
  <2> QED
    BY <2>2, BridgeAssumption DEF PageInv, Counted
<1>3. BridgeInv /\ ServerType /\ StreamInv /\ PageInv => TypeOK
  BY <1>1, <1>2 DEF PageInv, PageGood, Streams, TypeOK
<1> QED
  BY <1>3, BridgeIsInvariant, ServerIsTyped, StreamIsInvariant, PageIsInvariant, PTL

(***************************************************************************)
(* The chart                                                               *)
(***************************************************************************)

\* A set of numbers up to a bound has a least and a greatest element.
LEMMA Extremes ==
  ASSUME NEW n \in Nat, NEW T \in SUBSET (0..n), T # {}
  PROVE  /\ Min(T) \in T /\ \A k \in T : Min(T) <= k
         /\ Max(T) \in T /\ \A k \in T : Max(T) >= k
<1>1. Min(T) \in T /\ \A k \in T : Min(T) <= k
  <2>1. T \in SUBSET Nat
    OBVIOUS
  <2>2. \E m \in T : \A k \in T : m <= k
    BY <2>1, LeastNumber
  <2> QED
    BY <2>2 DEF Min
<1>2. \E m \in T : \A k \in T : m >= k
  <2> DEFINE above == {b \in 0..n : \A k \in T : k <= b}
  <2>1. above \in SUBSET Nat /\ n \in above
    OBVIOUS
  <2>2. PICK b \in above : \A c \in above : b <= c
    <3> HIDE DEF above
    <3> QED
      BY <2>1, LeastNumber
  <2>3. b \in T
    <3> SUFFICES ASSUME b \notin T PROVE FALSE
      OBVIOUS
    <3>1. \A k \in T : k <= b - 1 /\ k \in Nat
      BY <2>2
    <3>2. b - 1 \in 0..n
      <4>1. PICK k \in T : TRUE
        OBVIOUS
      <4> QED
        BY <2>2, <3>1, <4>1
    <3>3. b - 1 \in above
      BY <3>1, <3>2
    <3> HIDE DEF above
    <3> QED
      BY <2>1, <2>2, <3>3
  <2> QED
    BY <2>2, <2>3
<1> QED
  BY <1>1, <1>2 DEF Max

LEMMA LeastOf ==
  ASSUME NEW T, NEW m \in T, \A k \in T : m <= k, \A k \in T : k \in Int
  PROVE  Min(T) = m
BY DEF Min

LEMMA GreatestOf ==
  ASSUME NEW T, NEW m \in T, \A k \in T : m >= k, \A k \in T : k \in Int
  PROVE  Max(T) = m
BY DEF Max

\* The vertical axis holds every value, and is at least a thousand long.
LEMMA AxisHolds ==
  ASSUME NEW data \in Seq(0..MaxValue), data # << >>
  PROVE  LET y == YRange(data) IN
         /\ y.yMin \in Nat /\ y.yMax \in Nat
         /\ y.yMax - y.yMin >= 1000 /\ y.yMax <= 1150 * MaxValue + 1000
         /\ \A i \in 1..Len(data) : y.yMin <= 1000 * data[i] /\ 1000 * data[i] <= y.yMax
<1> DEFINE T == Values(data)
           lo == Min(T)
           hi == Max(T)
           y == YRange(data)
<1>1. DOMAIN data = 1..Len(data) /\ \A i \in 1..Len(data) : data[i] \in 0..MaxValue
  BY Elements
<1>2. 1 \in 1..Len(data)
  BY Elements
<1>3. T \in SUBSET (0..MaxValue) /\ T # {} /\ \A i \in 1..Len(data) : data[i] \in T
  BY <1>1, <1>2 DEF Values
<1> HIDE DEF T
<1>4. lo \in T /\ hi \in T /\ \A k \in T : lo <= k /\ k <= hi /\ k \in 0..MaxValue
  BY <1>3, Extremes, MaxValueNat
<1>5. y = [yMin |-> Greater(0, 800 * lo),
           yMax |-> Greater(1150 * hi, Greater(0, 800 * lo) + 1000)]
  BY DEF YRange, T
<1> HIDE DEF lo, hi, y
<1>6. lo \in Nat /\ hi \in Nat /\ lo <= hi /\ hi <= MaxValue /\ MaxValue \in Nat
  BY <1>4, MaxValueNat
<1>7. Greater(0, 800 * lo) = 800 * lo
  BY <1>6 DEF Greater
<1>8. y.yMin = 800 * lo /\ y.yMax = IF 1150 * hi > 800 * lo + 1000 THEN 1150 * hi ELSE 800 * lo + 1000
  BY <1>5, <1>7 DEF Greater
<1>9. \A i \in 1..Len(data) : lo <= data[i] /\ data[i] <= hi /\ data[i] \in Nat
  BY <1>3, <1>4, <1>6
<1>10. y.yMin \in Nat /\ y.yMax \in Nat /\ y.yMax >= 1150 * hi
       /\ y.yMax - y.yMin >= 1000 /\ y.yMax <= 1150 * MaxValue + 1000
  BY <1>6, <1>8
<1>11. ASSUME NEW i \in 1..Len(data)
       PROVE  y.yMin <= 1000 * data[i] /\ 1000 * data[i] <= y.yMax
  BY <1>6, <1>8, <1>9, <1>10
<1> QED
  BY <1>10, <1>11 DEF y

LEMMA DrawnInPlot ==
  ASSUME NEW data \in Seq(0..MaxValue), Len(data) > 1, Len(data) <= maxPoints
  PROVE  InPlot(data)
<1> DEFINE drawing == Render(data)
<1>1. /\ DOMAIN data = 1..Len(data) /\ Len(data) \in Nat /\ data # << >> /\ maxPoints \in Nat
      /\ Len(data) \in 1..Len(data)
  BY Elements, ChartAssumption
<1>2. /\ drawing.yMin = YRange(data).yMin /\ drawing.yMax = YRange(data).yMax
      /\ \A i \in 1..Len(data) : /\ drawing.points[i].x = i - 1 + (maxPoints - Len(data))
                                 /\ drawing.points[i].y = 1000 * data[i]
  BY <1>1 DEF Render
<1> HIDE DEF drawing
<1>3. \A i \in 1..Len(data) : /\ drawing.points[i].y >= drawing.yMin
                              /\ drawing.points[i].y <= drawing.yMax
  <2> DEFINE y == YRange(data)
  <2>1. /\ y.yMin \in Nat /\ y.yMax \in Nat
        /\ \A i \in 1..Len(data) : y.yMin <= 1000 * data[i] /\ 1000 * data[i] <= y.yMax
    BY <1>1, AxisHolds
  <2>2. \A i \in 1..Len(data) : data[i] \in Nat
    BY Elements, MaxValueNat
  <2> HIDE DEF y
  <2> QED
    BY <1>2, <2>1, <2>2 DEF y
<1>4. \A i \in 1..Len(data) : drawing.points[i].x \in 0..maxPoints - 1
  BY <1>1, <1>2
<1>5. drawing.points[Len(data)].x = maxPoints - 1
  BY <1>1, <1>2
<1> QED
  BY <1>1, <1>3, <1>4, <1>5 DEF InPlot, drawing

-----------------------------------------------------------------------------
(* The lines of the grid *)

LEMMA Quotient ==
  ASSUME NEW a \in Nat, NEW b \in Nat, b > 0
  PROVE  a \div b \in Nat /\ b * (a \div b) <= a /\ a < b * (a \div b) + b
BY SMT

LEMMA Products ==
  ASSUME NEW s \in Nat, NEW a \in Int, NEW b \in Int
  PROVE  /\ s * a \in Int /\ s * (b - a) = s * b - s * a
         /\ a <= b => s * a <= s * b
         /\ s > 0 /\ a < b => s * a < s * b
BY SMT

\* The largest power of ten there is for a step.
Top == 100000000

LEMMA Ladder ==
  /\ 1 \in Magnitudes /\ Top \in Nat
  /\ \A p \in Magnitudes : p \in Nat /\ p >= 1 /\ (p = Top \/ 10 * p \in Magnitudes)
BY SMT DEF Magnitudes, Top

\* A step is not below the raw one, nor above two and a half times it.
LEMMA StepFits ==
  ASSUME NEW raw \in Nat, raw >= 1, raw < 10 * Top
  PROVE  NiceStep(raw) \in Nat /\ NiceStep(raw) >= raw /\ 2 * NiceStep(raw) <= 5 * raw
<1> DEFINE T == {p \in Magnitudes : p <= raw}
           mag == Max(T)
           F == {s \in {mag, 2 * mag, 5 * mag, 10 * mag} : raw <= s}
           step == Min(F)
<1>1. \A p \in Magnitudes : p \in Nat /\ p >= 1
  BY Ladder
<1>2. 1 \in T /\ T \in SUBSET (0..raw)
  BY <1>1, Ladder
<1>3. mag \in T /\ \A p \in T : mag >= p
  <2> HIDE DEF T
  <2> QED
    BY <1>2, Extremes
<1> HIDE DEF mag
<1>4. mag \in Magnitudes /\ mag \in Nat /\ mag >= 1 /\ mag <= raw
      /\ \A p \in Magnitudes : p <= raw => p <= mag
  BY <1>1, <1>3
<1>5. raw < 10 * mag
  <2>1. CASE mag = Top
    BY <2>1
  <2>2. CASE 10 * mag \in Magnitudes
    BY <1>4, <2>2
  <2> QED
    BY <1>4, <2>1, <2>2, Ladder
<1>6. /\ 10 * mag \in F /\ F \in SUBSET (0..10 * mag) /\ 10 * mag \in Nat
      /\ \A s \in F : s >= raw
  BY <1>4, <1>5, SMT
<1>7. step \in F /\ \A s \in F : step <= s
  <2> HIDE DEF F
  <2> QED
    BY <1>6, Extremes
<1>8. NiceStep(raw) = step
  BY DEF NiceStep, mag
<1> HIDE DEF step
<1>9. step \in Nat /\ step >= raw
  BY <1>4, <1>6, <1>7
<1>10. /\ raw <= mag => step <= mag
       /\ raw <= 2 * mag => step <= 2 * mag
       /\ raw <= 5 * mag => step <= 5 * mag
       /\ step <= 10 * mag
  BY <1>6, <1>7
<1> HIDE DEF F, T
<1>11. 2 * step <= 5 * raw
  BY <1>4, <1>9, <1>10, SMT
<1> QED
  BY <1>8, <1>9, <1>11

Multiples(step, first, last) == {step * k : k \in first..last}

\* Multiples of a step are as many as their factors.
LEMMA MultiplesCounted ==
  ASSUME NEW step \in Nat, step > 0, NEW first \in Int, NEW last \in Int, first <= last
  PROVE  Cardinality(Multiples(step, first, last)) = last - first + 1
<1> DEFINE n == last - first + 1
           T == {step * k : k \in first..last}
           f == [i \in 1..n |-> step * (first + i - 1)]
<1>1. n \in Nat
  OBVIOUS
<1>2. ASSUME NEW i \in 1..n
      PROVE  first + i - 1 \in first..last
  OBVIOUS
<1>3. ASSUME NEW k \in first..last
      PROVE  /\ k - first + 1 \in 1..n /\ first + (k - first + 1) - 1 = k
  OBVIOUS
<1>4. f \in [1..n -> T]
  BY <1>2
<1>5. ASSUME NEW i \in 1..n, NEW j \in 1..n, f[i] = f[j]
      PROVE  i = j
  <2> DEFINE a == first + i - 1
             b == first + j - 1
  <2>1. a \in Int /\ b \in Int /\ step * a = step * b
    BY <1>5
  <2> HIDE DEF a, b
  <2>2. a = b
    <3>1. ~ (a < b) /\ ~ (b < a)
      BY <2>1, Products, SMT
    <3> QED
      BY <2>1, <3>1
  <2> QED
    BY <2>2 DEF a, b
<1>6. ASSUME NEW t \in T
      PROVE  \E i \in 1..n : f[i] = t
  <2>1. PICK k \in first..last : t = step * k
    OBVIOUS
  <2>2. f[k - first + 1] = t
    BY <1>3, <2>1
  <2> QED
    BY <1>3, <2>2
<1> HIDE DEF n, T, f
<1>7. ExistsBijection(1..n, T)
  BY <1>4, <1>5, <1>6 DEF ExistsBijection, Bijection, Injection, Surjection, IsInjective
<1>8. Cardinality(T) = n
  BY <1>1, <1>7, FS_CountingElements
<1> QED
  BY <1>8 DEF n, T, Multiples

\* An interval of at least two steps, and hardly more than five, holds two to six of their
\* multiples.
LEMMA GridFits ==
  ASSUME NEW low \in Nat, NEW high \in Nat, NEW step \in Nat,
         step >= 200, high - low >= 2 * step, high - low < 5 * step + 5,
         NEW first \in Nat, step * first <= low + step - 1, low + step - 1 < step * first + step,
         NEW last \in Nat, step * last <= high, high < step * last + step
  PROVE  /\ Cardinality(Multiples(step, first, last)) \in 2..6
         /\ \A line \in Multiples(step, first, last) : line >= low /\ line <= high
<1> DEFINE d == last - first
<1>1. d \in Int /\ step * first \in Int /\ step * last \in Int
      /\ step * d = step * last - step * first /\ step * 0 = 0 /\ step * 6 = 6 * step
  BY Products, SMT
<1> HIDE DEF d
<1>2. d > 0
  <2>1. ~ (d <= 0)
    <3>1. d <= 0 => step * d <= step * 0
      BY <1>1, Products, SMT
    <3> QED
      BY <1>1, <3>1, SMT
  <2> QED
    BY <1>1, <2>1, SMT
<1>3. d < 6
  <2>1. ~ (6 <= d)
    <3>1. 6 <= d => step * 6 <= step * d
      BY <1>1, Products, SMT
    <3> QED
      BY <1>1, <3>1, SMT
  <2> QED
    BY <1>1, <2>1, SMT
<1>4. Cardinality(Multiples(step, first, last)) = last - first + 1
  <2>1. first \in Int /\ last \in Int /\ first <= last /\ step > 0
    BY <1>1, <1>2, SMT DEF d
  <2> QED
    BY <2>1, MultiplesCounted
<1>5. ASSUME NEW line \in Multiples(step, first, last)
      PROVE  line >= low /\ line <= high
  <2>1. PICK k \in first..last : line = step * k
    BY SMT DEF Multiples
  <2>2. k \in Int /\ first <= k /\ k <= last /\ first \in Int /\ last \in Int
    BY <2>1, SMT
  <2>3. step * first <= step * k /\ step * k <= step * last /\ step * k \in Int
    BY <2>2, Products, SMT
  <2> QED
    BY <1>1, <2>1, <2>3, SMT
<1>6. Cardinality(Multiples(step, first, last)) \in 2..6
  BY <1>1, <1>2, <1>3, <1>4, SMT DEF d
<1> QED
  BY <1>5, <1>6, SMT

\* The values for which there is a step.
LEMMA ValuesReached == 1150 * MaxValue + 1000 < 50 * Top
BY DEF MaxValue, Top

LEMMA DrawnGrid ==
  ASSUME NEW data \in Seq(0..MaxValue), Len(data) > 1
  PROVE  ReadableGrid(data)
<1> DEFINE y == YRange(data)
           low == y.yMin
           high == y.yMax
           raw == (high - low) \div 5
           step == NiceStep(raw)
           first == (low + step - 1) \div step
           last == high \div step
           grid == Multiples(step, first, last)
           drawing == Render(data)
<1>1. data # << >> /\ Len(data) \in Nat
  BY Elements, SMT
<1>2. /\ low \in Nat /\ high \in Nat /\ high - low >= 1000 /\ high <= 1150 * MaxValue + 1000
  BY <1>1, AxisHolds, SMT
<1>3. /\ drawing.yMin = low /\ drawing.yMax = high
      /\ drawing.grid = grid
  BY SMT DEF Render, NiceGridLines, Multiples
<1> HIDE DEF y, low, high, drawing
<1>4. raw \in Nat /\ 5 * raw <= high - low /\ high - low < 5 * raw + 5
  <2>1. high - low \in Nat
    BY <1>2, SMT
  <2> QED
    BY <2>1, Quotient, SMT
<1> HIDE DEF raw
<1>5. raw >= 200 /\ raw < 10 * Top
  BY <1>2, <1>4, MaxValueNat, Ladder, ValuesReached, SMT
<1>6. step \in Nat /\ step >= raw /\ 2 * step <= 5 * raw
  BY <1>4, <1>5, StepFits, SMT
<1> HIDE DEF step
<1>7. step >= 200 /\ high - low >= 2 * step /\ high - low < 5 * step + 5
  BY <1>2, <1>4, <1>5, <1>6, SMT
<1>8. /\ first \in Nat /\ step * first <= low + step - 1 /\ low + step - 1 < step * first + step
      /\ last \in Nat /\ step * last <= high /\ high < step * last + step
  <2> DEFINE a == low + step - 1
  <2>1. a \in Nat /\ step > 0
    BY <1>2, <1>6, <1>7, SMT
  <2> HIDE DEF a
  <2>2. a \div step \in Nat /\ step * (a \div step) <= a /\ a < step * (a \div step) + step
    BY <1>6, <2>1, Quotient, SMT
  <2>3. high \div step \in Nat /\ step * (high \div step) <= high
        /\ high < step * (high \div step) + step
    BY <1>2, <1>6, <2>1, Quotient, SMT
  <2> QED
    BY <2>2, <2>3, SMT DEF a
<1> HIDE DEF first, last
<1>9. Cardinality(grid) \in 2..6 /\ \A line \in grid : line >= low /\ line <= high
  <2>1. /\ low \in Nat /\ high \in Nat /\ step \in Nat
        /\ step >= 200 /\ high - low >= 2 * step /\ high - low < 5 * step + 5
        /\ first \in Nat /\ step * first <= low + step - 1 /\ low + step - 1 < step * first + step
        /\ last \in Nat /\ step * last <= high /\ high < step * last + step
    BY <1>2, <1>6, <1>7, <1>8
  <2> QED
    BY <2>1, GridFits, Zenon
<1> HIDE DEF grid
<1> QED
  BY <1>3, <1>9, SMT DEF ReadableGrid, drawing

\* Whatever frames arrive, as soon as the chart is drawn each of its points lies in its plot,
\* the newest on the right edge, and its grid has two to six lines, all in the plot
\* (LineChart.render, _niceGridLines).
THEOREM ChartAlwaysReadable == Spec => []ChartIsReadable
<1>1. PageInv => ChartIsReadable
  <2> SUFFICES ASSUME PageInv, Len(display.charts.overview) > 1
               PROVE  InPlot(display.charts.overview) /\ ReadableGrid(display.charts.overview)
    BY DEF ChartIsReadable
  <2>1. display.charts.overview \in Seq(0..MaxValue) /\ Len(display.charts.overview) <= maxPoints
    BY DEF PageInv, PageGood, DisplayType
  <2> QED
    BY <2>1, DrawnInPlot, DrawnGrid
<1> QED
  BY <1>1, PageIsInvariant, PTL

=============================================================================
