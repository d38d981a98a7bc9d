------------------------------ MODULE StatusFeed -----------------------------
(***************************************************************************)
(* The pages and what the server sends them: dashboard/server/index.js     *)
(* (the WebSocket server) and dashboard/public/js/app.js (the connection). *)
(* A message is the status of all modules; the other kinds are the         *)
(* business of DataPath.  The fetch of a page that is being mounted is     *)
(* kept in the same inbox: the socket is opened only after it.             *)
(***************************************************************************)
EXTENDS Sequences

CONSTANT Pages

VARIABLES
  page,      \* the life of each page: "connecting" also between two attempts
  inbox,     \* the messages under way to the page
  view       \* the page's `modules`; << >> while it holds none

feedVars == <<page, inbox, view>>

FeedInit ==
  /\ page = [p \in Pages |-> "absent"]
  /\ inbox = [p \in Pages |-> << >>]
  /\ view = [p \in Pages |-> << >>]

\* broadcast: to every client whose socket is open.
Broadcast(status) ==
  inbox' = [p \in Pages |-> IF page[p] = "open" THEN Append(inbox[p], status) ELSE inbox[p]]

\* The page is opened and asks for the modules; the answer may fail.
OpenPage(p, status) ==
  /\ page[p] = "absent"
  /\ page' = [page EXCEPT ![p] = "fetching"]
  /\ \E answer \in {<<status>>, << >>} : inbox' = [inbox EXCEPT ![p] = answer]
  /\ UNCHANGED view

\* The rest of onMounted: the answer is shown, then the socket is asked for.
Mounted(p) ==
  /\ page[p] = "fetching"
  /\ page' = [page EXCEPT ![p] = "connecting"]
  /\ view' = IF inbox[p] # << >> THEN [view EXCEPT ![p] = Head(inbox[p])] ELSE view
  /\ inbox' = [inbox EXCEPT ![p] = << >>]

\* connectWS succeeds; the server's 'connection' handler sends `init`.
ConnectWS(p, status) ==
  /\ page[p] = "connecting"
  /\ page' = [page EXCEPT ![p] = "open"]
  /\ inbox' = [inbox EXCEPT ![p] = <<status>>]
  /\ UNCHANGED view

\* handleMessage, of `init` and `module_status`.
HandleMessage(p) ==
  /\ page[p] = "open" /\ inbox[p] # << >>
  /\ view' = [view EXCEPT ![p] = Head(inbox[p])]
  /\ inbox' = [inbox EXCEPT ![p] = Tail(@)]
  /\ UNCHANGED page

\* onclose: what is under way is lost, and the page will try again; or the tab is closed,
\* and it will not.
LoseSocket(p) ==
  /\ page[p] = "open"
  /\ page' = [page EXCEPT ![p] = "connecting"]
  /\ inbox' = [inbox EXCEPT ![p] = << >>]
  /\ UNCHANGED view

=============================================================================
