------------------------ MODULE ActionSubscriberProofs -----------------------
(***************************************************************************)
(* Proofs about ActionSubscriber: its type, which of its handles are open, *)
(* that every lost connection is counted once, and that the commands are   *)
(* whole messages in the order sent.                                       *)
(***************************************************************************)
EXTENDS ActionSubscriber, SequenceTheorems, TLAPS

\* The threads are two, with places of their own: what a step does to pc.
LEMMA GotoPlaces ==
  ASSUME SubscriberTypeOK, NEW self \in Threads, NEW place, Goto(self, place)
  PROVE  /\ pc'[self] = place
         /\ \A other \in Threads \ {self} : pc'[other] = pc[other]
  BY DEF SubscriberTypeOK, Goto

\* Initially every part of the state has its type.
LEMMA TypeInit == Init => SubscriberTypeOK
<1> SUFFICES ASSUME Init PROVE SubscriberTypeOK
  OBVIOUS
<1>1. /\ << >> \in Seq(Piece) /\ << >> \in Seq(Seq(Piece)) /\ Len(<< >>) = 0
      /\ max_queue_size \in Nat /\ MaxMessages \in Nat
  BY SubscriberAssumption
<1>2. pc \in [Threads -> {"top", "run"}]
  BY DEF Init
<1>3. wasConnected \in [Threads -> BOOLEAN] /\ tested \in [Threads -> 0..accepted]
  BY DEF Init
<1>4. m_running \in BOOLEAN /\ m_connected \in BOOLEAN /\ closeCancels \in BOOLEAN
  BY DEF Init
<1> QED
  BY <1>1, <1>2, <1>3, <1>4 DEF Init, SubscriberTypeOK

\* Disconnect, by either thread, keeps the types.
LEMMA TypeDisconnect ==
  ASSUME SubscriberTypeOK, NEW self \in Threads, Disconnect(self)
  PROVE  SubscriberTypeOK'
<1> USE DEF SubscriberTypeOK, Disconnecting, queueVars, restVars, pipe, Goto
<1>1. CASE ExchangeConnected(self)
  BY <1>1 DEF ExchangeConnected
<1>2. CASE CheckHandle(self)
  BY <1>2 DEF CheckHandle
<1>3. CASE CloseHandle(self)
  BY <1>3 DEF CloseHandle
<1>4. CASE InvalidateHandle(self)
  BY <1>4 DEF InvalidateHandle
<1>5. CASE CountLoss(self)
  <2>1. << >> \in Seq(Piece)
    OBVIOUS
  <2>2. reconnect_count' \in Nat /\ wasConnected' \in [Threads -> BOOLEAN]
    BY <1>5 DEF CountLoss
  <2>3. /\ m_ndjson' = << >> /\ Goto(self, IF self = "reader" THEN "top" ELSE "join")
        /\ UNCHANGED <<m_connected, m_pipeHandle, tested, opened, line, m_commandQueue, popped,
                       restVars>>
    BY <1>5 DEF CountLoss
  <2>4. m_running' \in BOOLEAN /\ m_connected' \in BOOLEAN /\ closeCancels' \in BOOLEAN
    BY <2>3
  <2> QED
    BY <2>1, <2>2, <2>3, <2>4
<1> QED
  BY <1>1, <1>2, <1>3, <1>4, <1>5 DEF Disconnect

\* So do the reader's own steps.
LEMMA TypeReader ==
  ASSUME SubscriberTypeOK, Reader
  PROVE  SubscriberTypeOK'
<1> USE DEF SubscriberTypeOK, Disconnecting, queueVars, restVars, pipe, Goto, Threads
<1>0. << >> \in Seq(Piece)
  OBVIOUS
<1>1. CASE ReadLoop \/ TestConnected \/ ConnectionGone
  <2>1. \E place \in {"enter", "exit", "read", "connect", "top"} : Goto("reader", place)
    BY <1>1 DEF ReadLoop, TestConnected, ConnectionGone
  <2>2. UNCHANGED <<m_connected, m_pipeHandle, wasConnected, tested, reconnect_count, opened,
                    queueVars, restVars>>
    BY <1>1 DEF ReadLoop, TestConnected, ConnectionGone
  <2>3. m_running' \in BOOLEAN /\ m_connected' \in BOOLEAN /\ closeCancels' \in BOOLEAN
    BY <2>2
  <2> QED
    BY <2>1, <2>2, <2>3
<1>2. CASE Connect
  <2>1. m_running' \in BOOLEAN /\ m_connected' \in BOOLEAN /\ closeCancels' \in BOOLEAN
    BY <1>2 DEF Connect
  <2>2. m_pipeHandle' \in 0..accepted' /\ opened' \subseteq 1..accepted' /\ accepted' \in Nat
    <3>1. CASE server = "listening"
      <4>1. /\ accepted' = accepted + 1 /\ m_pipeHandle' = accepted + 1
            /\ opened' = opened \cup {accepted + 1}
        BY <1>2, <3>1 DEF Connect
      <4> QED
        BY <4>1
    <3>2. CASE server # "listening"
      <4>1. accepted' = accepted /\ m_pipeHandle' = 0 /\ opened' = opened
        BY <1>2, <3>2 DEF Connect
      <4> QED
        BY <4>1
    <3> QED
      BY <3>1, <3>2
  <2>3. wire' \in Seq(Piece) /\ server' \in {"down", "listening", "serving"}
    BY <1>0, <1>2 DEF Connect
  <2>4. pc' = [pc EXCEPT !["reader"] = "connected"] \/ pc' = [pc EXCEPT !["reader"] = "top"]
    BY <1>2 DEF Connect
  <2>5. UNCHANGED <<wasConnected, tested, reconnect_count, queueVars, stops, sent>>
    BY <1>2 DEF Connect
  <2>6. tested' \in [Threads -> 0..accepted']
    <3>1. accepted' \in {accepted, accepted + 1}
      BY <1>2 DEF Connect
    <3> QED
      BY <2>5, <3>1
  <2> QED
    BY <2>1, <2>2, <2>3, <2>4, <2>5, <2>6
<1>3. CASE Connected
  BY <1>0, <1>3 DEF Connected
<1>4. CASE BeginRead
  BY <1>4 DEF BeginRead
<1>5. CASE ReadFails
  BY <1>5 DEF ReadFails
<1>6. CASE ReadPiece
  <2>1. Head(wire) \in Piece /\ Tail(wire) \in Seq(Piece)
    BY <1>6 DEF ReadPiece
  <2>2. Append(m_ndjson, Head(wire)) \in Seq(Piece)
    BY <2>1
  <2>3. m_ndjson' \in Seq(Piece) /\ line' \in Seq(Piece)
    BY <1>0, <1>6, <2>2 DEF ReadPiece, Feed
  <2>4. pc' = [pc EXCEPT !["reader"] = "top"] \/ pc' = [pc EXCEPT !["reader"] = "push"]
    BY <1>6 DEF ReadPiece, Feed
  <2> QED
    BY <1>6, <2>1, <2>3, <2>4 DEF ReadPiece
<1>7. CASE PushCommand
  <2>1. m_commandQueue' \in Seq(Seq(Piece)) /\ Len(m_commandQueue') <= max_queue_size
    BY <1>7, SubscriberAssumption DEF PushCommand
  <2>2. /\ Goto("reader", "top")
        /\ line' = << >>
        /\ UNCHANGED <<m_connected, m_pipeHandle, wasConnected, tested, reconnect_count, opened,
                       m_ndjson, popped, restVars>>
    BY <1>7 DEF PushCommand
  <2>3. m_running' \in BOOLEAN /\ m_connected' \in BOOLEAN /\ closeCancels' \in BOOLEAN
    BY <2>2
  <2> QED
    BY <1>0, <2>1, <2>2, <2>3
<1>8. CASE Disconnect("reader")
  BY <1>8, TypeDisconnect
<1> QED
  BY <1>1, <1>2, <1>3, <1>4, <1>5, <1>6, <1>7, <1>8 DEF Reader

\* And every other step.
LEMMA TypeStep ==
  ASSUME SubscriberTypeOK, [Next]_vars
  PROVE  SubscriberTypeOK'
<1> USE DEF SubscriberTypeOK, Disconnecting, queueVars, restVars, pipe, Goto, Threads
<1>1. CASE Reader
  BY <1>1, TypeReader
<1>2. CASE TryPopCommand
  <2>1. Head(m_commandQueue) \in Seq(Piece) /\ Tail(m_commandQueue) \in Seq(Seq(Piece))
    BY <1>2 DEF TryPopCommand
  <2>2. Len(Tail(m_commandQueue)) <= max_queue_size
    BY <1>2, SubscriberAssumption DEF TryPopCommand
  <2>3. popped' \in Seq(Seq(Piece))
    BY <1>2, <2>1 DEF TryPopCommand
  <2>4. m_running' \in BOOLEAN /\ m_connected' \in BOOLEAN /\ closeCancels' \in BOOLEAN
    BY <1>2 DEF TryPopCommand
  <2>5. /\ m_commandQueue' = Tail(m_commandQueue)
        /\ UNCHANGED <<pc, m_pipeHandle, wasConnected, tested, reconnect_count, opened, m_ndjson,
                       line, stops, pipe>>
    BY <1>2 DEF TryPopCommand
  <2> QED
    BY <2>1, <2>2, <2>3, <2>4, <2>5
<1>3. CASE Stop
  <2>1. m_running' \in BOOLEAN /\ m_connected' \in BOOLEAN /\ closeCancels' \in BOOLEAN
    BY <1>3 DEF Stop
  <2>2. /\ stops' \in 0..2 /\ Goto("main", "disconnect")
        /\ UNCHANGED <<m_pipeHandle, wasConnected, tested, reconnect_count, opened, queueVars,
                       pipe>>
    BY <1>3 DEF Stop
  <2> QED
    BY <2>1, <2>2
<1>4. CASE Disconnect("main")
  BY <1>4, TypeDisconnect
<1>5. CASE Join
  BY <1>5 DEF Join
<1>6. CASE AiEngine
  <2>1. wire' \in Seq(Piece)
    <3>1. CASE Listen
      BY <3>1 DEF Listen
    <3>2. CASE Write
      <4>1. sent + 1 \in 1..MaxMessages
        BY <3>2, SubscriberAssumption DEF Write
      <4>2. <<[msg |-> sent + 1, part |-> "head"], [msg |-> sent + 1, part |-> "tail"]>>
              \in Seq(Piece)
        BY <4>1 DEF Piece
      <4> QED
        BY <3>2, <4>2 DEF Write
    <3>3. CASE Break
      <4>1. PICK kept \in 0..Len(wire) : wire' = SubSeq(wire, 1, kept)
        BY <3>3 DEF Break
      <4> QED
        BY <4>1
    <3> QED
      BY <1>6, <3>1, <3>2, <3>3 DEF AiEngine
  <2>2. sent' \in 0..MaxMessages
    <3>1. UNCHANGED sent \/ (sent' = sent + 1 /\ sent < MaxMessages)
      BY <1>6 DEF AiEngine, Listen, Write, Break
    <3>2. MaxMessages \in Nat /\ sent \in 0..MaxMessages
      BY SubscriberAssumption
    <3> QED
      BY <3>1, <3>2
  <2>3. server' \in {"down", "listening", "serving"} /\ accepted' = accepted
    BY <1>6 DEF AiEngine, Listen, Write, Break
  <2> QED
    BY <1>6, <2>1, <2>2, <2>3 DEF AiEngine
<1>7. CASE UNCHANGED vars
  BY <1>7 DEF vars
<1> QED
  BY <1>1, <1>2, <1>3, <1>4, <1>5, <1>6, <1>7 DEF Next, Main

\* The types hold throughout, for any bounds and any queue size.
THEOREM SubscriberTypeCorrect == Spec => []SubscriberTypeOK
  BY TypeInit, TypeStep, PTL DEF Spec

-----------------------------------------------------------------------------

\* Initially no handle is open and the reader may connect.
LEMMA HandleInit == Init => HandleInv
  BY DEF Init, HandleInv, RunningInv, StoppingInv, StoppedInv, OneHandle, Threads,
         Disconnecting

\* Every step of either thread keeps to the rules of the handle.
LEMMA HandleStep ==
  ASSUME SubscriberTypeOK, HandleInv, [Next]_vars
  PROVE  HandleInv'
<1> USE DEF SubscriberTypeOK, HandleInv, RunningInv, StoppingInv, StoppedInv, OneHandle, Threads,
            Disconnecting, queueVars, restVars, pipe, Goto
<1>1. CASE ReadLoop
  BY <1>1 DEF ReadLoop
<1>2. CASE TestConnected
  BY <1>2 DEF TestConnected
<1>3. CASE Connect
  <2>1. CASE server = "listening"
    <3>1. /\ accepted' = accepted + 1 /\ m_pipeHandle' = accepted + 1
          /\ opened' = opened \cup {accepted + 1}
          /\ pc' = [pc EXCEPT !["reader"] = "connected"] /\ pc["reader"] = "connect"
          /\ UNCHANGED <<m_running, m_connected, wasConnected, tested, reconnect_count, stops>>
      BY <1>3, <2>1 DEF Connect
    <3> QED
      BY <3>1
  <2>2. CASE server # "listening"
    <3>1. /\ m_pipeHandle' = 0 /\ pc["reader"] = "connect"
          /\ pc' = [pc EXCEPT !["reader"] = "top"]
          /\ UNCHANGED <<accepted, opened, m_running, m_connected, tested, stops>>
      BY <1>3, <2>2 DEF Connect
    <3> QED
      BY <3>1
  <2> QED
    BY <2>1, <2>2
<1>4. CASE Connected
  BY <1>4 DEF Connected
<1>5. CASE ConnectionGone
  BY <1>5 DEF ConnectionGone
<1>6. CASE BeginRead
  BY <1>6 DEF BeginRead
<1>7. CASE ReadFails
  BY <1>7 DEF ReadFails
<1>8. CASE ReadPiece
  <2>1. pc' = [pc EXCEPT !["reader"] = "top"] \/ pc' = [pc EXCEPT !["reader"] = "push"]
    BY <1>8 DEF ReadPiece, Feed
  <2>2. pc["reader"] = "reading"
    BY <1>8 DEF ReadPiece
  <2>3. UNCHANGED <<accepted, m_running, m_connected, m_pipeHandle, opened, tested, stops>>
    BY <1>8 DEF ReadPiece
  <2> QED
    BY <2>1, <2>2, <2>3, SMTT(30)
<1>9. CASE PushCommand
  BY <1>9 DEF PushCommand
<1>10. CASE ExchangeConnected("reader")
  BY <1>10, SMTT(30) DEF ExchangeConnected
<1>11. CASE CheckHandle("reader")
  BY <1>11, SMTT(30) DEF CheckHandle
<1>12. CASE CloseHandle("reader")
  BY <1>12, SMTT(30) DEF CloseHandle
<1>13. CASE InvalidateHandle("reader")
  BY <1>13 DEF InvalidateHandle
<1>14. CASE CountLoss("reader")
  BY <1>14 DEF CountLoss
<1>15. CASE ExchangeConnected("main")
  BY <1>15, SMTT(30) DEF ExchangeConnected
<1>16. CASE CheckHandle("main")
  BY <1>16, SMTT(30) DEF CheckHandle
<1>17. CASE CloseHandle("main")
  BY <1>17, SMTT(30) DEF CloseHandle
<1>18. CASE InvalidateHandle("main")
  BY <1>18 DEF InvalidateHandle
<1>19. CASE CountLoss("main")
  BY <1>19 DEF CountLoss
<1>20. CASE TryPopCommand
  BY <1>20 DEF TryPopCommand
<1>21. CASE Stop
  BY <1>21 DEF Stop
<1>22. CASE Join
  BY <1>22 DEF Join
<1>23. CASE AiEngine
  BY <1>23 DEF AiEngine, Listen, Write, Break
<1>24. CASE UNCHANGED vars
  BY <1>24 DEF vars
<1> QED
  BY <1>1, <1>2, <1>3, <1>4, <1>5, <1>6, <1>7, <1>8, <1>9, <1>10, <1>11, <1>12, <1>13, <1>14,
     <1>15, <1>16, <1>17, <1>18, <1>19, <1>20, <1>21, <1>22, <1>23, <1>24
  DEF Next, Reader, Main, Disconnect

\* While the service runs no open handle is lost and none is closed twice, for any number
\* of connections; Stop loses at most one, and has left none in m_pipeHandle when it has
\* returned the second time (Connect, Disconnect, ReadLoop).
THEOREM HandleIsKept == Spec => []OneHandle
<1>1. Init => SubscriberTypeOK /\ HandleInv
  BY TypeInit, HandleInit
<1>2. (SubscriberTypeOK /\ HandleInv) /\ [Next]_vars => (SubscriberTypeOK /\ HandleInv)'
  BY TypeStep, HandleStep
<1>3. HandleInv => OneHandle
  BY DEF HandleInv
<1> QED
  BY <1>1, <1>2, <1>3, PTL DEF Spec

-----------------------------------------------------------------------------

\* A step accounts for the connection it opens or ends.
LEMMA CountStep ==
  ASSUME SubscriberTypeOK, HandleInv, LossesCountedOnce, [Next]_vars
  PROVE  LossesCountedOnce'
<1> USE DEF SubscriberTypeOK, LossesCountedOnce, Counted, One, Disconnecting, Threads, queueVars,
            restVars, pipe, Goto
<1>1. CASE ReadLoop
  BY <1>1 DEF ReadLoop
<1>2. CASE TestConnected
  BY <1>2 DEF TestConnected
<1>3. CASE ConnectionGone
  <2>1. /\ pc["reader"] = "connected" /\ pc'["reader"] = "top" /\ pc'["main"] = pc["main"]
        /\ m_pipeHandle = 0 /\ ~m_running
    BY <1>3 DEF ConnectionGone, HandleInv, RunningInv
  <2>2. UNCHANGED <<accepted, reconnect_count, m_connected, m_pipeHandle, m_running, wasConnected>>
    BY <1>3 DEF ConnectionGone
  <2>3. accepted = Counted
    BY <2>1
  <2>4. Counted = Counted' + 1
    BY <2>1, <2>2
  <2> QED
    BY <2>1, <2>2, <2>3, <2>4
<1>4. CASE Connect
  <2>1. CASE server = "listening"
    <3>1. /\ accepted' = accepted + 1 /\ m_pipeHandle' = accepted + 1
          /\ opened' = opened \cup {accepted + 1}
          /\ pc' = [pc EXCEPT !["reader"] = "connected"] /\ pc["reader"] = "connect"
          /\ UNCHANGED <<m_running, m_connected, wasConnected, reconnect_count>>
      BY <1>4, <2>1 DEF Connect
    <3>2. pc'["reader"] = "connected" /\ pc'["main"] = pc["main"]
      BY <3>1
    <3>3. accepted' = accepted + 1 /\ accepted \in Nat /\ reconnect_count' = reconnect_count
      BY <3>1
    <3>4. /\ One(pc'["reader"] = "connected") = 1 + One(pc["reader"] = "connected")
          /\ One(m_connected') = One(m_connected)
          /\ One(pc'["reader"] \in Disconnecting /\ wasConnected'["reader"])
               = One(pc["reader"] \in Disconnecting /\ wasConnected["reader"])
          /\ One(pc'["main"] \in Disconnecting /\ wasConnected'["main"])
               = One(pc["main"] \in Disconnecting /\ wasConnected["main"])
      BY <3>1, <3>2
    <3>5. accepted = Counted /\ reconnect_count \in Nat
      BY <3>1
    <3>6. Counted' = Counted + 1
      BY <3>3, <3>4, <3>5
    <3> QED
      BY <3>3, <3>5, <3>6
  <2>2. CASE server # "listening"
    <3>1. /\ m_pipeHandle' = 0 /\ pc["reader"] = "connect"
          /\ pc' = [pc EXCEPT !["reader"] = "top"]
          /\ UNCHANGED <<accepted, opened, m_running, m_connected, wasConnected, reconnect_count>>
      BY <1>4, <2>2 DEF Connect
    <3> QED
      BY <3>1
  <2> QED
    BY <2>1, <2>2
<1>5. CASE Connected
  <2>1. /\ pc["reader"] = "connected" /\ ~m_connected /\ m_connected'
        /\ pc'["reader"] = "read" /\ pc'["main"] = pc["main"]
    <3>1. pc["reader"] = "connected" /\ m_connected' = TRUE /\ Goto("reader", "read")
      BY <1>5 DEF Connected
    <3>2. ~m_connected
      BY <3>1 DEF HandleInv
    <3>3. pc'["reader"] = "read" /\ pc'["main"] = pc["main"]
      BY <3>1
    <3> QED
      BY <3>1, <3>2, <3>3
  <2>2. UNCHANGED <<accepted, reconnect_count, wasConnected>>
    BY <1>5 DEF Connected
  <2>3. /\ One(pc["reader"] = "connected") = 1 /\ One(pc'["reader"] = "connected") = 0
        /\ One(m_connected) = 0 /\ One(m_connected') = 1
        /\ One(pc'["reader"] \in Disconnecting /\ wasConnected'["reader"])
             = One(pc["reader"] \in Disconnecting /\ wasConnected["reader"])
        /\ One(pc'["main"] \in Disconnecting /\ wasConnected'["main"])
             = One(pc["main"] \in Disconnecting /\ wasConnected["main"])
    BY <2>1, <2>2
  <2> QED
    BY <2>2, <2>3
<1>6. CASE BeginRead
  BY <1>6 DEF BeginRead
<1>7. CASE ReadFails
  BY <1>7 DEF ReadFails
<1>8. CASE ReadPiece
  BY <1>8 DEF ReadPiece, Feed
<1>9. CASE PushCommand
  BY <1>9 DEF PushCommand
<1>10. CASE ExchangeConnected("reader")
  BY <1>10 DEF ExchangeConnected
<1>11. CASE CheckHandle("reader")
  BY <1>11 DEF CheckHandle
<1>12. CASE CloseHandle("reader")
  BY <1>12 DEF CloseHandle
<1>13. CASE InvalidateHandle("reader")
  BY <1>13 DEF InvalidateHandle
<1>14. CASE CountLoss("reader")
  BY <1>14 DEF CountLoss
<1>15. CASE ExchangeConnected("main")
  BY <1>15 DEF ExchangeConnected
<1>16. CASE CheckHandle("main")
  BY <1>16 DEF CheckHandle
<1>17. CASE CloseHandle("main")
  BY <1>17 DEF CloseHandle
<1>18. CASE InvalidateHandle("main")
  BY <1>18 DEF InvalidateHandle
<1>19. CASE CountLoss("main")
  BY <1>19 DEF CountLoss
<1>20. CASE TryPopCommand
  BY <1>20 DEF TryPopCommand
<1>21. CASE Stop
  BY <1>21 DEF Stop
<1>22. CASE Join
  BY <1>22 DEF Join
<1>23. CASE AiEngine
  BY <1>23 DEF AiEngine, Listen, Write, Break
<1>24. CASE UNCHANGED vars
  BY <1>24 DEF vars
<1> QED
  BY <1>1, <1>2, <1>3, <1>4, <1>5, <1>6, <1>7, <1>8, <1>9, <1>10, <1>11, <1>12, <1>13, <1>14,
     <1>15, <1>16, <1>17, <1>18, <1>19, <1>20, <1>21, <1>22, <1>23, <1>24
  DEF Next, Reader, Main, Disconnect

\* Every connection that has ended is counted once, except one that Stop closes while
\* Connect opens it (Disconnect).
THEOREM LossesAreCounted == Spec => []LossesCountedOnce
<1>1. Init => SubscriberTypeOK /\ HandleInv /\ LossesCountedOnce
  <2>1. Init => LossesCountedOnce
    BY DEF Init, LossesCountedOnce, Counted, One, Disconnecting, Threads
  <2> QED
    BY <2>1, TypeInit, HandleInit
<1>2. (SubscriberTypeOK /\ HandleInv /\ LossesCountedOnce) /\ [Next]_vars
        => (SubscriberTypeOK /\ HandleInv /\ LossesCountedOnce)'
  BY TypeStep, HandleStep, CountStep
<1> QED
  BY <1>1, <1>2, PTL DEF Spec

-----------------------------------------------------------------------------
(* Commands are messages *)

HeadOf(n) == [msg |-> n, part |-> "head"]
TailOf(n) == [msg |-> n, part |-> "tail"]

\* The pieces under way: messages not sent later than they could be, in order, each head
\* followed by its tail, and complete as long as the connection is served.
StreamInv ==
  /\ \A i \in 1..Len(wire) : wire[i].msg <= sent
  /\ \A i, j \in 1..Len(wire) : i < j /\ wire[j].part = "head" => wire[i].msg < wire[j].msg
  /\ \A i \in 1..Len(wire) :
       wire[i].part = "head" /\ i < Len(wire) => wire[i + 1] = TailOf(wire[i].msg)
  /\ server = "serving" /\ wire # << >> => wire[Len(wire)].part = "tail"

\* What comes after message n is later than it.
LaterThan(n) == \A i \in 1..Len(wire) : wire[i].part = "head" => n < wire[i].msg

\* A reader that was past its loop's test when Stop came may connect again with the buffer
\* of the connection before; nothing is fed to it until Connect has emptied it.
Stale == ~m_running /\ pc["reader"] \in {"connected", "top", "exit"}

\* Where nothing may be left in the buffer: a line has just ended, or, while the service
\* runs, a connection is to be made, for the reader's own Disconnect has emptied it.
MustBeEmpty ==
  \/ pc["reader"] = "push"
  \/ m_running /\ pc["reader"] \in {"connect", "connected"}
  \/ m_running /\ pc["reader"] \in {"top", "enter"} /\ ~m_connected

\* The buffer holds nothing or one head, whose tail comes next if anything does.
BufferInv ==
  /\ m_ndjson # << >> =>
       \E n \in 1..sent :
         /\ m_ndjson = <<HeadOf(n)>>
         /\ ~Stale =>
              /\ wire = << >> => server # "serving"
              /\ wire # << >> => wire[1] = TailOf(n)
  /\ MustBeEmpty => m_ndjson = << >>

\* The line to be queued is a message, before all that is under way.
LineInv ==
  pc["reader"] = "push" =>
    \E n \in 1..sent : line = <<HeadOf(n), TailOf(n)>> /\ LaterThan(n)

\* All that was delivered is before the line, the buffer and what is under way.
OrderInv ==
  \A i \in 1..Len(Delivered) :
    LET n == Delivered[i][1].msg
    IN  /\ LaterThan(n)
        /\ m_ndjson # << >> => n < m_ndjson[1].msg
        /\ pc["reader"] = "push" => n < line[1].msg

\* CommandsAreMessages looks at what is delivered only; the rest follows the pieces from
\* the pipe to there.
CommandInv == StreamInv /\ BufferInv /\ LineInv /\ OrderInv /\ CommandsAreMessages

\* Popping moves the first of those waiting; queueing adds one at the end.
LEMMA MovedFromHead ==
  ASSUME NEW T, NEW p \in Seq(T), NEW q \in Seq(T), q # << >>
  PROVE  Append(p, Head(q)) \o Tail(q) = p \o q
BY HeadTailProperties, ConcatProperties, AppendProperties

LEMMA AppendedAtEnd ==
  ASSUME NEW T, NEW p \in Seq(T), NEW q \in Seq(T), NEW x \in T
  PROVE  p \o Append(q, x) = Append(p \o q, x)
BY ConcatProperties, AppendProperties

LEMMA DeliveredType ==
  ASSUME SubscriberTypeOK
  PROVE  Delivered \in Seq(Seq(Piece)) /\ DOMAIN Delivered = 1..Len(Delivered)
BY DEF SubscriberTypeOK, Delivered

\* Nothing but the places of the threads changes, or the buffer is emptied.
LEMMA PlaceKeeps ==
  ASSUME CommandInv, UNCHANGED <<wire, sent, server, line, m_commandQueue, popped>>,
         m_ndjson' = m_ndjson \/ m_ndjson' = << >>,
         pc'["reader"] = "push" => pc["reader"] = "push",
         MustBeEmpty' => m_ndjson' = << >>,
         m_ndjson' = << >> \/ Stale' \/ ~Stale
  PROVE  CommandInv'
<1>1. StreamInv' /\ LineInv' /\ CommandsAreMessages'
  BY DEF CommandInv, StreamInv, LineInv, LaterThan, CommandsAreMessages, Delivered
<1>2. BufferInv'
  BY DEF CommandInv, BufferInv, MustBeEmpty, Stale
<1>3. OrderInv'
  BY DEF CommandInv, OrderInv, LaterThan, Delivered
<1> QED
  BY <1>1, <1>2, <1>3 DEF CommandInv

\* The pipe is made anew: nothing is under way, and if the buffer is not empty the reader
\* is past the loop's test and Stop has come.
LEMMA NewPipeKeeps ==
  ASSUME CommandInv, pc["reader"] = "connect", pc'["reader"] = "connected", wire' = << >>,
         UNCHANGED <<sent, m_running, m_ndjson, m_commandQueue, popped>>
  PROVE  CommandInv'
<1>1. m_running => m_ndjson = << >>
  BY DEF CommandInv, BufferInv, MustBeEmpty
<1>2. Len(wire') = 0
  OBVIOUS
<1>3. StreamInv' /\ LineInv'
  BY <1>2 DEF StreamInv, LineInv
<1>4. BufferInv'
  BY <1>1 DEF CommandInv, BufferInv, MustBeEmpty, Stale
<1>5. CommandsAreMessages'
  BY DEF CommandInv, CommandsAreMessages, Delivered
<1>6. OrderInv'
  BY <1>2 DEF CommandInv, OrderInv, LaterThan, Delivered
<1> QED
  BY <1>3, <1>4, <1>5, <1>6 DEF CommandInv

\* A piece is taken from the pipe: a head begins a line, its own tail ends it, and a tail
\* without a head is dropped.
LEMMA ReadKeeps ==
  ASSUME SubscriberTypeOK, HandleInv, CommandInv, ReadPiece
  PROVE  CommandInv'
<1>1. /\ wire \in Seq(Piece) /\ wire # << >> /\ Len(wire) \in Nat \ {0}
      /\ Head(wire) = wire[1] /\ wire[1] \in Piece
      /\ wire' \in Seq(Piece) /\ Len(wire') = Len(wire) - 1
      /\ \A i \in 1..Len(wire') : wire'[i] = wire[i + 1]
  BY HeadTailProperties, EmptySeq DEF SubscriberTypeOK, ReadPiece
<1>2. /\ UNCHANGED <<m_running, m_connected, m_commandQueue, popped, server, sent>>
      /\ pc["reader"] = "reading" /\ Feed(wire[1])
  BY <1>1 DEF ReadPiece
<1>3. /\ sent \in Nat
      /\ \A place : Goto("reader", place) => pc'["reader"] = place
  BY DEF SubscriberTypeOK, Goto, Threads
<1>4. \A n : LaterThan(n) => LaterThan(n)'
  BY <1>1 DEF LaterThan
<1>5. StreamInv'
  <2>1. wire' # << >> => Len(wire') \in Nat \ {0}
    BY <1>1, EmptySeq
  <2>2. wire' # << >> => wire'[Len(wire')] = wire[Len(wire)]
    BY <1>1, <2>1
  <2> QED
    BY <1>1, <1>2, <2>2, SMTT(30) DEF CommandInv, StreamInv
<1>6. CommandsAreMessages'
  BY <1>2 DEF CommandInv, CommandsAreMessages, Delivered
<1>7. CASE wire[1].part = "head"
  <2>1. m_ndjson = << >>
    <3> SUFFICES ASSUME m_ndjson # << >> PROVE FALSE
      OBVIOUS
    <3>1. PICK n \in 1..sent : wire[1] = TailOf(n)
      BY <1>1, <1>2 DEF CommandInv, BufferInv, MustBeEmpty, Stale
    <3> QED
      BY <1>7, <3>1 DEF TailOf
  <2>2. m_ndjson' = <<wire[1]>> /\ pc'["reader"] = "top"
    BY <1>2, <1>3, <1>7, <2>1 DEF Feed
  <2>3. PICK n \in 1..sent : n = wire[1].msg /\ wire[1] = HeadOf(n)
    BY <1>1, <1>3, <1>7 DEF CommandInv, StreamInv, Piece, HeadOf
  <2>4. wire' # << >> => wire'[1] = TailOf(n)
    <3> SUFFICES ASSUME wire' # << >> PROVE wire'[1] = TailOf(n)
      OBVIOUS
    <3>1. Len(wire') \in Nat \ {0}
      BY <1>1, EmptySeq
    <3>2. 1 < Len(wire) /\ wire'[1] = wire[1 + 1]
      BY <1>1, <3>1
    <3>3. wire[1 + 1] = TailOf(wire[1].msg)
      BY <1>1, <1>7, <3>2 DEF CommandInv, StreamInv
    <3> QED
      BY <2>3, <3>2, <3>3
  <2>5. wire' = << >> => server' # "serving"
    <3>1. wire' = << >> => Len(wire') = 0
      OBVIOUS
    <3>2. wire' = << >> => Len(wire) = 1
      BY <1>1, <3>1
    <3> QED
      BY <1>1, <1>2, <1>7, <3>2 DEF CommandInv, StreamInv
  <2>6. m_running' => m_connected'
    BY <1>2 DEF HandleInv, RunningInv
  <2>7. BufferInv'
    BY <1>2, <2>2, <2>3, <2>4, <2>5, <2>6 DEF BufferInv, MustBeEmpty, Stale
  <2>8. LineInv'
    BY <2>2 DEF LineInv
  <2>9. OrderInv'
    <3> SUFFICES ASSUME NEW i \in 1..Len(Delivered')
                 PROVE  /\ LaterThan(Delivered[i][1].msg)'
                        /\ Delivered[i][1].msg < m_ndjson'[1].msg
      BY <1>2, <2>2 DEF OrderInv, Delivered
    <3>1. i \in 1..Len(Delivered) /\ LaterThan(Delivered[i][1].msg)
      BY <1>2 DEF CommandInv, OrderInv, Delivered
    <3>2. Delivered[i][1].msg < wire[1].msg
      BY <1>1, <1>7, <3>1 DEF LaterThan
    <3>3. \A j \in 1..Len(wire') :
            wire'[j].part = "head" => Delivered[i][1].msg < wire'[j].msg
      BY <1>1, <3>1, SMTT(30) DEF LaterThan
    <3>4. Delivered' = Delivered
      BY <1>2 DEF Delivered
    <3>5. LaterThan(Delivered[i][1].msg)'
      BY <3>3, <3>4 DEF LaterThan
    <3> QED
      BY <2>2, <3>2, <3>5
  <2> QED
    BY <1>5, <1>6, <2>7, <2>8, <2>9 DEF CommandInv
<1>8. CASE wire[1].part # "head" /\ m_ndjson = << >>
  <2>1. m_ndjson' = << >> /\ pc'["reader"] = "top"
    BY <1>2, <1>3, <1>8 DEF Feed
  <2>2. BufferInv' /\ LineInv'
    BY <2>1 DEF BufferInv, MustBeEmpty, Stale, LineInv
  <2>3. OrderInv'
    BY <1>1, <1>2, <2>1 DEF CommandInv, OrderInv, LaterThan, Delivered
  <2> QED
    BY <1>5, <1>6, <2>2, <2>3 DEF CommandInv
<1>9. CASE wire[1].part # "head" /\ m_ndjson # << >>
  <2>1. PICK n \in 1..sent : m_ndjson = <<HeadOf(n)>> /\ wire[1] = TailOf(n)
    BY <1>1, <1>2, <1>9 DEF CommandInv, BufferInv, MustBeEmpty, Stale
  <2>2. m_ndjson' = << >> /\ pc'["reader"] = "push" /\ line' = <<HeadOf(n), TailOf(n)>>
    BY <1>2, <1>3, <1>9, <2>1 DEF Feed
  <2>3. LaterThan(n)'
    <3>1. \A j \in 2..Len(wire) : wire[j].part = "head" => n < wire[j].msg
      BY <1>1, <2>1 DEF CommandInv, StreamInv, TailOf
    <3> QED
      BY <1>1, <3>1 DEF LaterThan
  <2>4. BufferInv'
    BY <2>2 DEF BufferInv, MustBeEmpty, Stale
  <2>5. LineInv'
    BY <1>2, <2>2, <2>3 DEF LineInv, HeadOf, TailOf, LaterThan
  <2>6. OrderInv'
    <3> SUFFICES ASSUME NEW i \in 1..Len(Delivered')
                 PROVE  LaterThan(Delivered[i][1].msg)' /\ Delivered[i][1].msg < n
      BY <1>2, <2>2 DEF OrderInv, Delivered, HeadOf
    <3>1. /\ i \in 1..Len(Delivered) /\ LaterThan(Delivered[i][1].msg)
          /\ Delivered[i][1].msg < m_ndjson[1].msg
      BY <1>2, <1>9 DEF CommandInv, OrderInv, Delivered
    <3>2. \A j \in 1..Len(wire') :
            wire'[j].part = "head" => Delivered[i][1].msg < wire'[j].msg
      BY <1>1, <3>1, SMTT(30) DEF LaterThan
    <3>3. Delivered' = Delivered
      BY <1>2 DEF Delivered
    <3>4. LaterThan(Delivered[i][1].msg)'
      BY <3>2, <3>3 DEF LaterThan
    <3> QED
      BY <2>1, <3>1, <3>4 DEF HeadOf
  <2> QED
    BY <1>5, <1>6, <2>4, <2>5, <2>6 DEF CommandInv
<1> QED
  BY <1>7, <1>8, <1>9

\* The line joins those that wait, if it is a command and there is room.
LEMMA PushKeeps ==
  ASSUME SubscriberTypeOK, HandleInv, CommandInv, PushCommand
  PROVE  CommandInv'
<1>1. /\ pc["reader"] = "push" /\ pc'["reader"] = "top"
      /\ UNCHANGED <<m_running, m_connected, m_ndjson, wire, sent, server, popped>>
  BY DEF PushCommand, SubscriberTypeOK, Goto, Threads, restVars, pipe
<1>2. m_ndjson = << >> /\ m_ndjson' = << >>
  BY <1>1 DEF CommandInv, BufferInv, MustBeEmpty, Stale
<1>3. PICK n \in 1..sent : line = <<HeadOf(n), TailOf(n)>> /\ LaterThan(n)
  BY <1>1 DEF CommandInv, LineInv
<1>4. StreamInv' /\ BufferInv' /\ LineInv'
  BY <1>1, <1>2 DEF CommandInv, StreamInv, BufferInv, MustBeEmpty, LineInv
<1>5. CASE m_commandQueue' = m_commandQueue
  <2>1. CommandsAreMessages'
    BY <1>1, <1>5 DEF CommandInv, CommandsAreMessages, Delivered
  <2>2. OrderInv'
    BY <1>1, <1>2, <1>5 DEF CommandInv, OrderInv, LaterThan, Delivered
  <2> QED
    BY <1>4, <2>1, <2>2 DEF CommandInv
<1>6. CASE m_commandQueue' = Append(m_commandQueue, line)
  <2>1. Delivered' = Append(Delivered, line)
    BY <1>1, <1>6, AppendedAtEnd, SMTT(30) DEF SubscriberTypeOK, Delivered
  <2>2. /\ Delivered \in Seq(Seq(Piece)) /\ line \in Seq(Piece)
        /\ DOMAIN Delivered = 1..Len(Delivered) /\ DOMAIN Delivered' = 1..Len(Delivered) + 1
    BY <2>1, DeliveredType DEF SubscriberTypeOK
  <2>3. /\ \A i \in 1..Len(Delivered) : Delivered'[i] = Delivered[i]
        /\ Delivered'[Len(Delivered) + 1] = line /\ Len(Delivered') = Len(Delivered) + 1
    BY <2>1, <2>2, AppendProperties
  <2>4. /\ line[1].msg = n
        /\ line = <<[msg |-> n, part |-> "head"], [msg |-> n, part |-> "tail"]>>
    BY <1>3 DEF HeadOf, TailOf
  <2>5. \A i \in 1..Len(Delivered) : Delivered[i][1].msg < n
    BY <1>1, <2>4 DEF CommandInv, OrderInv
  <2>6. CommandsAreMessages'
    <3>1. ASSUME NEW i \in 1..Len(Delivered) + 1
          PROVE  \E k \in 1..sent' :
                   Delivered'[i] = <<[msg |-> k, part |-> "head"], [msg |-> k, part |-> "tail"]>>
      <4>1. CASE i \in 1..Len(Delivered)
        BY <1>1, <2>2, <2>3, <4>1 DEF CommandInv, CommandsAreMessages
      <4>2. CASE i = Len(Delivered) + 1
        BY <1>1, <2>3, <2>4, <4>2
      <4> QED
        BY <2>2, <4>1, <4>2
    <3>2. ASSUME NEW i \in 1..Len(Delivered) + 1, NEW j \in 1..Len(Delivered) + 1, i < j
          PROVE  Delivered'[i][1].msg < Delivered'[j][1].msg
      <4>1. i \in 1..Len(Delivered) /\ Len(Delivered) \in Nat
        BY <2>2, <3>2
      <4>2. CASE j \in 1..Len(Delivered)
        BY <2>2, <2>3, <3>2, <4>1, <4>2 DEF CommandInv, CommandsAreMessages
      <4>3. CASE j = Len(Delivered) + 1
        BY <2>3, <2>4, <2>5, <4>1, <4>3
      <4> QED
        BY <4>1, <4>2, <4>3
    <3> QED
      BY <2>2, <3>1, <3>2 DEF CommandsAreMessages
  <2>7. OrderInv'
    <3> SUFFICES ASSUME NEW i \in 1..Len(Delivered) + 1
                 PROVE  \A j \in 1..Len(wire) :
                          wire[j].part = "head" => Delivered'[i][1].msg < wire[j].msg
      BY <1>1, <1>2, <2>3 DEF OrderInv, LaterThan
    <3>1. CASE i \in 1..Len(Delivered)
      BY <2>3, <3>1 DEF CommandInv, OrderInv, LaterThan
    <3>2. CASE i = Len(Delivered) + 1
      BY <1>3, <2>3, <2>4, <3>2 DEF LaterThan
    <3> QED
      BY <2>2, <3>1, <3>2
  <2> QED
    BY <1>4, <2>6, <2>7 DEF CommandInv
<1> QED
  BY <1>5, <1>6 DEF PushCommand

\* What is popped stays delivered.
LEMMA PopKeeps ==
  ASSUME SubscriberTypeOK, CommandInv, TryPopCommand
  PROVE  CommandInv'
<1>1. Delivered' = Delivered
  BY MovedFromHead DEF SubscriberTypeOK, TryPopCommand, Delivered
<1>2. UNCHANGED <<pc, m_running, m_connected, m_ndjson, line, wire, sent, server>>
  BY DEF TryPopCommand, restVars, pipe
<1> QED
  BY <1>1, <1>2
  DEF CommandInv, StreamInv, BufferInv, MustBeEmpty, Stale, LineInv, OrderInv, LaterThan,
      CommandsAreMessages

\* The AI engine writes a later message, goes away with a part of what is under way, or
\* listens again.
LEMMA EngineKeeps ==
  ASSUME SubscriberTypeOK, CommandInv, AiEngine
  PROVE  CommandInv'
<1>1. /\ UNCHANGED <<pc, m_running, m_connected, m_ndjson, line, m_commandQueue, popped>>
      /\ UNCHANGED Delivered
  BY DEF AiEngine, queueVars, Delivered
<1>2. wire \in Seq(Piece) /\ Len(wire) \in Nat /\ sent \in Nat
  BY DEF SubscriberTypeOK
<1>3. CASE Write
  <2>1. /\ sent' = sent + 1 /\ server' = server /\ server = "serving"
        /\ wire' = wire \o <<HeadOf(sent + 1), TailOf(sent + 1)>>
    BY <1>3 DEF Write, HeadOf, TailOf
  <2>2. HeadOf(sent + 1) \in Piece /\ TailOf(sent + 1) \in Piece
    BY <1>2, <1>3, SubscriberAssumption DEF Write, Piece, HeadOf, TailOf
  <2>3. /\ wire' # << >> /\ Len(wire') = Len(wire) + 2
        /\ \A i \in 1..Len(wire) : wire'[i] = wire[i]
        /\ wire'[Len(wire) + 1] = HeadOf(sent + 1) /\ wire'[Len(wire) + 2] = TailOf(sent + 1)
    BY <1>2, <2>1, <2>2
  <2>4. /\ HeadOf(sent + 1).msg = sent + 1 /\ HeadOf(sent + 1).part = "head"
        /\ TailOf(sent + 1).msg = sent + 1 /\ TailOf(sent + 1).part = "tail"
    BY DEF HeadOf, TailOf
  <2>5. wire # << >> => wire[Len(wire)].part = "tail"
    BY <2>1 DEF CommandInv, StreamInv
  <2>6. \A i \in 1..Len(wire) : wire[i].msg \in Nat /\ wire[i].msg <= sent
    <3> SUFFICES ASSUME NEW i \in 1..Len(wire) PROVE wire[i].msg \in Nat /\ wire[i].msg <= sent
      OBVIOUS
    <3>1. wire[i] \in Piece
      BY <1>2
    <3>2. wire[i].msg \in 1..MaxMessages
      BY <3>1 DEF Piece
    <3> QED
      BY <3>2, SubscriberAssumption DEF CommandInv, StreamInv
  <2>7. StreamInv'
    <3>1. ASSUME NEW i \in 1..Len(wire) + 2 PROVE wire'[i].msg <= sent'
      BY <1>2, <2>1, <2>3, <2>4, <2>6
    <3>2. ASSUME NEW i \in 1..Len(wire) + 2, NEW j \in 1..Len(wire) + 2,
                 i < j, wire'[j].part = "head"
          PROVE  wire'[i].msg < wire'[j].msg
      <4>1. j # Len(wire) + 2
        BY <2>3, <2>4, <3>2
      <4>2. i \in 1..Len(wire)
        BY <1>2, <3>2, <4>1
      <4>3. CASE j \in 1..Len(wire)
        BY <2>3, <3>2, <4>2, <4>3 DEF CommandInv, StreamInv
      <4>4. CASE j = Len(wire) + 1
        BY <1>2, <2>3, <2>4, <2>6, <4>2, <4>4
      <4> QED
        BY <1>2, <4>1, <4>3, <4>4
    <3>3. ASSUME NEW i \in 1..Len(wire) + 2, wire'[i].part = "head", i < Len(wire) + 2
          PROVE  wire'[i + 1] = TailOf(wire'[i].msg)
      <4>1. CASE i = Len(wire) + 1
        BY <1>2, <2>3, <2>4, <4>1
      <4>2. CASE i \in 1..Len(wire)
        <5>1. wire'[i] = wire[i]
          BY <2>3, <4>2
        <5>2. i # Len(wire)
          BY <1>2, <2>5, <3>3, <4>2, <5>1, EmptySeq
        <5>3. i + 1 \in 1..Len(wire) /\ i < Len(wire)
          BY <1>2, <4>2, <5>2
        <5> QED
          BY <2>3, <3>3, <4>2, <5>1, <5>3 DEF CommandInv, StreamInv
      <4> QED
        BY <1>2, <3>3, <4>1, <4>2
    <3>4. wire'[Len(wire')].part = "tail"
      BY <2>3, <2>4
    <3> QED
      BY <2>3, <3>1, <3>2, <3>3, <3>4 DEF StreamInv
  <2>8. ASSUME NEW n \in Nat, n <= sent, LaterThan(n) PROVE LaterThan(n)'
    BY <1>2, <2>3, <2>4, <2>8 DEF LaterThan
  <2>9. BufferInv'
    <3> SUFFICES ASSUME m_ndjson # << >>
                 PROVE  \E n \in 1..sent' :
                          m_ndjson = <<HeadOf(n)>> /\ (~Stale => wire'[1] = TailOf(n))
      BY <1>1, <2>3 DEF CommandInv, BufferInv, MustBeEmpty, Stale
    <3>1. PICK n \in 1..sent :
            m_ndjson = <<HeadOf(n)>> /\ (~Stale => wire # << >> /\ wire[1] = TailOf(n))
      BY <2>1 DEF CommandInv, BufferInv
    <3>2. n \in 1..sent' /\ (~Stale => wire'[1] = wire[1])
      BY <1>2, <2>1, <2>3, <3>1, EmptySeq
    <3> QED
      BY <3>1, <3>2
  <2>10. LineInv'
    <3> SUFFICES ASSUME pc["reader"] = "push"
                 PROVE  \E n \in 1..sent' : line = <<HeadOf(n), TailOf(n)>> /\ LaterThan(n)'
      BY <1>1 DEF LineInv, HeadOf, TailOf, LaterThan
    <3>1. PICK n \in 1..sent : line = <<HeadOf(n), TailOf(n)>> /\ LaterThan(n)
      BY DEF CommandInv, LineInv
    <3> QED
      BY <1>2, <2>1, <2>8, <3>1
  <2>11. CommandsAreMessages' /\ OrderInv'
    <3>1. DOMAIN Delivered = 1..Len(Delivered)
      BY DeliveredType
    <3>2. ASSUME NEW i \in 1..Len(Delivered)
          PROVE  Delivered[i][1].msg \in Nat /\ Delivered[i][1].msg <= sent
      BY <1>2, <3>1 DEF CommandInv, CommandsAreMessages
    <3>3. CommandsAreMessages'
      BY <1>1, <1>2, <2>1 DEF CommandInv, CommandsAreMessages
    <3>4. ASSUME NEW i \in 1..Len(Delivered) PROVE LaterThan(Delivered[i][1].msg)'
      <4>1. LaterThan(Delivered[i][1].msg)
        BY DEF CommandInv, OrderInv
      <4>2. PICK n \in Nat : n = Delivered[i][1].msg /\ n <= sent
        BY <3>2
      <4>3. LaterThan(n)'
        BY <2>8, <4>1, <4>2
      <4> QED
        BY <1>1, <4>2, <4>3 DEF LaterThan
    <3> QED
      BY <1>1, <3>3, <3>4 DEF CommandInv, OrderInv, LaterThan
  <2> QED
    BY <2>7, <2>9, <2>10, <2>11 DEF CommandInv
<1>4. CASE Listen \/ Break
  <2>1. /\ server' # "serving" /\ sent' = sent
        /\ \E kept \in 0..Len(wire) : wire' = SubSeq(wire, 1, kept)
    BY <1>2, <1>4 DEF Listen, Break
  <2>2. PICK kept \in 0..Len(wire) : wire' = SubSeq(wire, 1, kept)
    BY <2>1
  <2>3. Len(wire') = kept /\ \A i \in 1..kept : wire'[i] = wire[i]
    BY <1>2, <2>2
  <2>4. wire' # << >> => wire # << >> /\ wire'[1] = wire[1]
    BY <1>2, <2>2, <2>3
  <2>5. StreamInv'
    BY <1>2, <2>1, <2>3 DEF CommandInv, StreamInv
  <2>6. \A n : LaterThan(n) => \A i \in 1..kept : wire'[i].part = "head" => n < wire'[i].msg
    BY <1>2, <2>3 DEF LaterThan
  <2>7. BufferInv'
    BY <1>1, <2>1, <2>4 DEF CommandInv, BufferInv, MustBeEmpty, Stale
  <2>8. LineInv'
    BY <1>1, <2>1, <2>3, <2>6 DEF CommandInv, LineInv, LaterThan
  <2>9. CommandsAreMessages'
    BY <1>1, <2>1 DEF CommandInv, CommandsAreMessages
  <2>10. OrderInv'
    BY <1>1, <2>3, <2>6 DEF CommandInv, OrderInv, LaterThan
  <2> QED
    BY <2>5, <2>7, <2>8, <2>9, <2>10 DEF CommandInv
<1> QED
  BY <1>3, <1>4 DEF AiEngine

LEMMA CommandInit == Init => CommandInv
BY DEF Init, CommandInv, StreamInv, BufferInv, MustBeEmpty, LineInv, OrderInv, CommandsAreMessages,
       Delivered, Threads

\* Every step of either thread and of the AI engine.
LEMMA CommandStep ==
  ASSUME SubscriberTypeOK, HandleInv, CommandInv, [Next]_vars
  PROVE  CommandInv'
<1> USE DEF Threads, queueVars, restVars, pipe
<1>0. \A self \in Threads : \A place :
        Goto(self, place) =>
          /\ pc'[self] = place
          /\ self = "main" => pc'["reader"] = pc["reader"]
  BY DEF SubscriberTypeOK, Goto
<1>1. CASE ReadLoop \/ TestConnected
  <2>1. /\ UNCHANGED <<wire, sent, server, line, m_commandQueue, popped, m_ndjson, m_running,
                       m_connected>>
        /\ \/ /\ pc["reader"] = "top"
              /\ pc'["reader"] = IF m_running THEN "enter" ELSE "exit"
           \/ /\ pc["reader"] = "enter"
              /\ pc'["reader"] = IF m_connected THEN "read" ELSE "connect"
    BY <1>0, <1>1 DEF ReadLoop, TestConnected
  <2>2. MustBeEmpty' => m_ndjson' = << >>
    BY <2>1 DEF CommandInv, BufferInv, MustBeEmpty
  <2> QED
    BY <2>1, <2>2, PlaceKeeps DEF Stale
<1>2. CASE Connect
  <2>1. CASE server = "listening"
    <3>1. /\ pc["reader"] = "connect" /\ pc'["reader"] = "connected" /\ wire' = << >>
          /\ UNCHANGED <<sent, m_running, m_ndjson, m_commandQueue, popped>>
      BY <1>0, <1>2, <2>1 DEF Connect
    <3> QED
      BY <3>1, NewPipeKeeps
  <2>2. CASE server # "listening"
    <3>1. /\ pc["reader"] = "connect" /\ pc'["reader"] = "top"
          /\ UNCHANGED <<wire, sent, server, line, m_commandQueue, popped, m_ndjson, m_running>>
      BY <1>0, <1>2, <2>2 DEF Connect
    <3>2. m_running => m_ndjson = << >>
      BY <3>1 DEF CommandInv, BufferInv, MustBeEmpty
    <3> QED
      BY <3>1, <3>2, PlaceKeeps DEF MustBeEmpty, Stale
  <2> QED
    BY <2>1, <2>2
<1>3. CASE Connected
  BY <1>0, <1>3, PlaceKeeps DEF Connected
<1>4. CASE ConnectionGone
  <2>1. /\ pc["reader"] = "connected" /\ pc'["reader"] = "top" /\ ~m_running /\ ~m_running'
        /\ UNCHANGED <<wire, sent, server, line, m_commandQueue, popped, m_ndjson>>
    BY <1>0, <1>4 DEF ConnectionGone, HandleInv, RunningInv
  <2> QED
    BY <2>1, PlaceKeeps DEF MustBeEmpty, Stale
<1>5. CASE BeginRead
  BY <1>0, <1>5, PlaceKeeps DEF BeginRead, MustBeEmpty, Stale
<1>6. CASE ReadFails
  BY <1>0, <1>6, PlaceKeeps DEF ReadFails, MustBeEmpty, Stale
<1>7. CASE ReadPiece
  BY <1>7, ReadKeeps
<1>8. CASE PushCommand
  BY <1>8, PushKeeps
<1>9. ASSUME NEW self \in Threads, Disconnect(self) PROVE CommandInv'
  <2>1. CASE CountLoss(self)
    BY <1>0, <2>1, PlaceKeeps DEF CountLoss
  <2>2. CASE ~CountLoss(self)
    <3>1. /\ UNCHANGED <<wire, sent, server, line, m_commandQueue, popped, m_ndjson, m_running>>
          /\ \/ /\ self = "reader" /\ pc'["reader"] \in Disconnecting
                /\ pc["reader"] \in Disconnecting \cup {"disconnect"}
             \/ /\ self = "main" /\ pc["main"] \in Disconnecting \cup {"disconnect"}
                /\ pc'["reader"] = pc["reader"]
      BY <1>0, <1>9, <2>2
      DEF Disconnect, ExchangeConnected, CheckHandle, CloseHandle, InvalidateHandle, Disconnecting
    <3>2. self = "main" => ~m_running /\ ~m_running'
      BY <3>1 DEF HandleInv, RunningInv, Disconnecting
    <3>3. pc["reader"] = "push" => m_ndjson = << >>
      BY DEF CommandInv, BufferInv, MustBeEmpty
    <3>4. (MustBeEmpty' => m_ndjson' = << >>) /\ (Stale' \/ ~Stale)
      BY <3>1, <3>2, <3>3 DEF Disconnecting, MustBeEmpty, Stale
    <3> QED
      BY <3>1, <3>4, PlaceKeeps DEF Disconnecting
  <2> QED
    BY <2>1, <2>2
<1>10. CASE TryPopCommand
  BY <1>10, PopKeeps
<1>11. CASE Stop \/ Join
  <2>1. /\ UNCHANGED <<wire, sent, server, line, m_commandQueue, popped, m_ndjson, m_connected>>
        /\ pc'["reader"] = pc["reader"] /\ (m_running' => m_running)
    BY <1>0, <1>11 DEF Stop, Join
  <2>2. MustBeEmpty' => m_ndjson' = << >>
    BY <2>1 DEF CommandInv, BufferInv, MustBeEmpty
  <2>3. Stale => Stale'
    BY <1>11, <2>1 DEF Stale, Stop, Join
  <2> QED
    BY <2>1, <2>2, <2>3, PlaceKeeps DEF Stale
<1>12. CASE AiEngine
  BY <1>12, EngineKeeps
<1>13. CASE UNCHANGED vars
  <2>1. MustBeEmpty => m_ndjson = << >>
    BY DEF CommandInv, BufferInv
  <2> QED
    BY <1>13, <2>1, PlaceKeeps DEF vars, MustBeEmpty, Stale
<1> QED
  BY <1>1, <1>2, <1>3, <1>4, <1>5, <1>6, <1>7, <1>8, <1>9, <1>10, <1>11, <1>12, <1>13
  DEF Next, Reader, Main

\* Wherever reads and broken connections cut the stream, for any queue, any number of
\* messages and connections, and while Stop empties the buffer under the reader: what is
\* queued and popped are whole messages in the order sent (NdjsonReader, ReadLoop).
THEOREM CommandsAreWhole == Spec => []CommandsAreMessages
<1>1. Init => SubscriberTypeOK /\ HandleInv /\ CommandInv
  BY TypeInit, HandleInit, CommandInit
<1>2. (SubscriberTypeOK /\ HandleInv /\ CommandInv) /\ [Next]_vars
        => (SubscriberTypeOK /\ HandleInv /\ CommandInv)'
  BY TypeStep, HandleStep, CommandStep
<1>3. CommandInv => CommandsAreMessages
  BY DEF CommandInv
<1> QED
  BY <1>1, <1>2, <1>3, PTL DEF Spec

=============================================================================
