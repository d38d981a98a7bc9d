------------------------------- MODULE DataPath ------------------------------
(***************************************************************************)
(* The way of the data to the page: a bridge, the server's handler of its  *)
(* messages (dashboard/server/index.js), and the page's handleMessage      *)
(* (dashboard/public/js/app.js).  The log lines of a module take the same  *)
(* way from the process manager, without a bridge.                         *)
(*                                                                         *)
(* A behaviour follows one of the three streams: they share nothing but    *)
(* the page's socket.  The socket is open or not whenever something is     *)
(* sent; StatusFeed has its life.                                          *)
(***************************************************************************)
EXTENDS PipeBridge, LineChart

CONSTANTS
  Frames,          \* what the telemetry message of each number carries
  Actions,         \* the action of the prediction of each number
  DOWNSAMPLE,
  maxActions,      \* the page keeps 50
  maxLogs,         \* the process manager keeps 500 for each module
  MAX_LOGS,        \* the page keeps 1000, and drops the oldest 100
  LogsDropped

ASSUME PathAssumption ==
  /\ DOWNSAMPLE \in Nat \ {0}
  /\ maxActions \in Nat /\ maxLogs \in Nat
  /\ MAX_LOGS \in Nat /\ LogsDropped \in 1..MAX_LOGS
  /\ Frames \in [1..MaxMessages -> [gpu : BOOLEAN, fps : Nat, frame_time_ms : 0..MaxValue]]
  /\ DOMAIN Actions = 1..MaxMessages

VARIABLES
  stream,                \* the stream followed
  telemetryFrameCounter,
  logs,                  \* of one module, in the process manager; lines are numbered
  lines,                 \* the number of lines written
  display,               \* the page
  shown                  \* history: the messages the page has handled

vars == <<bridgeVars, stream, telemetryFrameCounter, logs, lines, display, shown>>

DisplayType ==
  {page \in [gpu : 0..MaxMessages, fps : Nat, frameTime : 0..MaxValue,
             charts : [overview : Seq(0..MaxValue)], action : {"NO_ACTION"} \cup Values(Actions),
             actionLog : Seq(1..MaxMessages), allLogs : Seq(1..MaxMessages)] :
     /\ Len(page.charts.overview) <= maxPoints
     /\ Len(page.actionLog) <= maxActions
     /\ Len(page.allLogs) <= MAX_LOGS}

TypeOK ==
  /\ BridgeTypeOK
  /\ stream \in {"telemetry", "prediction", "log"}
  /\ telemetryFrameCounter \in 0..MaxMessages
  /\ logs \in Seq(1..lines) /\ Len(logs) <= maxLogs /\ lines \in 0..MaxMessages
  /\ display \in DisplayType
  /\ shown \in Seq(1..MaxMessages)

\* onMounted makes a chart for each canvas it finds: the overview's only, since those of the
\* other tab exist while that tab is shown.
Charts == [overview |-> << >>]

\* What the page starts with.
DisplayInit == [gpu |-> 0, fps |-> 0, frameTime |-> 0, charts |-> Charts,
                action |-> "NO_ACTION", actionLog |-> << >>, allLogs |-> << >>]

Init ==
  /\ BridgeInit
  /\ stream \in {"telemetry", "prediction", "log"}
  /\ telemetryFrameCounter = 0
  /\ logs = << >> /\ lines = 0
  /\ display = DisplayInit
  /\ shown = << >>

-----------------------------------------------------------------------------
(* handleMessage *)

\* `telemetry`.
ShowTelemetry(page, msg) ==
  LET frame == Frames[msg]
      fps == IF frame.gpu /\ frame.fps > 0 THEN frame.fps ELSE page.fps
  IN  [page EXCEPT
        !.gpu = IF frame.gpu THEN msg ELSE @,
        !.frameTime = IF frame.frame_time_ms > 0 THEN frame.frame_time_ms ELSE @,
        !.fps = IF frame.frame_time_ms > 0 /\ fps = 0 THEN 1000 \div frame.frame_time_ms ELSE fps,
        !.charts = [overview |-> Push(@.overview, frame.frame_time_ms)]]

\* Mutant: the newest action is put last.
ShowPredictionLast(page, msg) ==
  [page EXCEPT
    !.action = Actions[msg],
    !.actionLog = IF Actions[msg] = "NO_ACTION" THEN @
                  ELSE SubSeq(Append(@, msg), 1, Lesser(Len(@) + 1, maxActions))]

\* `prediction`: the newest action first.
ShowPrediction(page, msg) ==
  [page EXCEPT
    !.action = Actions[msg],
    !.actionLog = IF Actions[msg] = "NO_ACTION" THEN @
                  ELSE SubSeq(<<msg>> \o @, 1, Lesser(Len(@) + 1, maxActions))]

\* `module_log`.
ShowLog(page, line) ==
  LET longer == Append(page.allLogs, line)
  IN  [page EXCEPT !.allLogs =
        IF Len(longer) > MAX_LOGS THEN SubSeq(longer, LogsDropped + 1, Len(longer)) ELSE longer]

Show(page, msg) ==
  CASE stream = "telemetry"  -> ShowTelemetry(page, msg)
    [] stream = "prediction" -> ShowPrediction(page, msg)
    [] stream = "log"        -> ShowLog(page, msg)

-----------------------------------------------------------------------------
(* The server *)

\* A handler of 'message': every third frame, every prediction is passed on.
Handle(state, msg) ==
  LET count == state.count + (IF stream = "telemetry" THEN 1 ELSE 0) IN
  IF stream = "prediction" \/ count % DOWNSAMPLE = 0
  THEN [count |-> count, page |-> Show(state.page, msg), shown |-> Append(state.shown, msg)]
  ELSE [state EXCEPT !.count = count]

\* The handlers, called for each line of a callback of the bridge.
Handled(start, lined) ==
  LET handled[i \in 0..Len(lined)] ==
        IF i = 0 THEN start ELSE Handle(handled[i - 1], lined[i][1].msg)
  IN  handled

\* broadcast: a page whose socket is open handles what it is sent; another one never hears
\* of it.
Broadcast(page, handled) ==
  \/ display' = page /\ shown' = handled
  \/ UNCHANGED <<display, shown>>

OnMessages ==
  /\ stream # "log"
  /\ \E s \in Sockets : OnData(s)
  /\ LET emitted == SubSeq(received', Len(received) + 1, Len(received'))
         start == [count |-> telemetryFrameCounter, page |-> display, shown |-> shown]
         handled == Handled(start, emitted)[Len(emitted)]
     IN  /\ telemetryFrameCounter' = handled.count
         /\ Broadcast(handled.page, handled.shown)
  /\ UNCHANGED <<stream, logs, lines>>

\* The rest of the bridge and its other end do nothing to the server or the page.
NoMessage == stream # "log" /\ UNCHANGED <<stream, telemetryFrameCounter, logs, lines, display, shown>>

OnBridge ==
  /\ NoMessage
  /\ \/ \E s \in Sockets : OnConnect(s) \/ OnError(s) \/ OnEnd(s) \/ OnClose(s)
     \/ OnTimer \/ BridgeStop \/ Server

\* _addLog, of a module's line, and the listener that broadcasts it.
AddLog ==
  /\ stream = "log" /\ lines < MaxMessages
  /\ lines' = lines + 1
  /\ logs' = LET longer == Append(logs, lines + 1)
             IN  IF Len(longer) > maxLogs THEN Tail(longer) ELSE longer
  /\ Broadcast(Show(display, lines + 1), Append(shown, lines + 1))
  /\ UNCHANGED <<bridgeVars, stream, telemetryFrameCounter>>

\* start empties the module's log, clearLogs the page's.
ClearLogs ==
  /\ stream = "log"
  /\ \/ logs' = << >> /\ UNCHANGED <<display, shown>>
     \/ display' = [display EXCEPT !.allLogs = << >>] /\ shown' = << >> /\ UNCHANGED logs
  /\ UNCHANGED <<bridgeVars, stream, telemetryFrameCounter, lines>>

Next == OnMessages \/ OnBridge \/ AddLog \/ ClearLogs

\* The event loop runs and the operating system answers; the other end notices when its
\* client has gone.
Fairness ==
  /\ \A s \in Sockets :
       /\ WF_vars(NoMessage /\ OnConnect(s)) /\ WF_vars(NoMessage /\ OnError(s))
       /\ WF_vars(NoMessage /\ OnEnd(s)) /\ WF_vars(NoMessage /\ OnClose(s))
  /\ WF_vars(OnMessages) /\ WF_vars(NoMessage /\ OnTimer)
  /\ WF_vars(NoMessage /\ Notices)

Spec == Init /\ [][Next]_vars /\ Fairness

-----------------------------------------------------------------------------

LastOf(s, n) == SubSeq(s, Len(s) - n + 1, Len(s))

\* What a page keeps of the messages it has handled: the chart the newest, oldest first; the
\* list the newest actions, newest first, of which only older ones are missing, and none
\* while there is room; the log at least all but the hundred lines it drops at a time.
Recent(page, handled) ==
  LET frames == [i \in DOMAIN handled |-> Frames[handled[i]].frame_time_ms]
      actions == {msg \in Values(handled) : Actions[msg] # "NO_ACTION"}
      log == page.actionLog
  IN  CASE stream = "telemetry" ->
             page.charts.overview = LastOf(frames, Lesser(Len(frames), maxPoints))
        [] stream = "prediction" ->
             /\ Values(log) \subseteq actions
             /\ \A i, j \in DOMAIN log : i < j => log[i] > log[j]
             /\ \A msg \in actions \ Values(log) :
                  Len(log) = maxActions /\ \A i \in DOMAIN log : msg < log[i]
        [] stream = "log" ->
             /\ Len(page.allLogs)
                  \in Lesser(Len(handled), MAX_LOGS - LogsDropped + 1)..Len(handled)
             /\ page.allLogs = LastOf(handled, Len(page.allLogs))

\* However messages are lost, passed over and handled several at a time, the page shows the
\* newest of what it has been sent, in the order that each part wants (handleMessage,
\* LineChart.push).
PageShowsRecent == Recent(display, shown)

\* Whatever frames arrive, every point of the chart lies in its plot, the newest on the
\* right edge, and the grid has two to six lines, all in the plot (LineChart.render,
\* _niceGridLines).
ChartIsReadable ==
  LET data == display.charts.overview IN Len(data) > 1 => InPlot(data) /\ ReadableGrid(data)

\* When the other end stays up, the bridge is connected for good in the end, whatever
\* came before (_scheduleReconnect).  A late `close` may break this.
SettlesDown ==
  stream # "log" /\ promptClose /\ <>[](running /\ server # "down") => <>[]connected

\* However the stream is cut into chunks, whatever is lost with a connection or dropped with
\* an overlong line, and whenever the bridge connects again: what the page can hear of is a
\* sequence of whole messages, in the order they were sent and none twice
\* (_onData and the reset of the buffer; MessageChannel).
IsChannel == Channel!ChannelSpec

=============================================================================
