--------------------------- MODULE LanguageServer ---------------------------
(***************************************************************************)
(* One language server: its model and lifecycle (crates/lsp/src/model.rs), *)
(* the processes it launches and their requests (service.rs, transport.rs, *)
(* crates/jsonrpc/src/service.rs), and the document that                   *)
(* GlobalBufferModel keeps open on it.                                     *)
(*                                                                         *)
(* A handler of the main thread is one step; what it spawns runs on the    *)
(* threads of the background executor, in any order.  The server process   *)
(* is the environment: it answers when it likes, or never, and may die.    *)
(***************************************************************************)
EXTENDS Integers, FiniteSets

CONSTANTS
  Calls,       \* requests of the editor: hover, definition, references, format
  MaxLaunches, \* bound on the processes started
  Bounds,      \* how often each of Deeds happens
  MaxDeeds     \* how often all of them together

\* What the user and the rest of the program do.
Deeds == {"start all", "stop", "stop unused", "manual start", "restart", "remove",
          "call", "cancel", "load", "edit"}

ASSUME LanguageServerAssumption ==
  /\ MaxLaunches \in Nat \ {0}
  /\ Bounds \in [Deeds -> Nat] /\ MaxDeeds \in Nat
  /\ "initialize" \notin Calls /\ "shutdown" \notin Calls

Launches == 1..MaxLaunches
Requests == Calls \cup {"initialize", "shutdown"}
None == 0      \* no version
Garbled == -1  \* a change was applied to a text it was not made for

VARIABLES
  state,     \* LspServerModel: server_state
  byHand,    \* its manually_stopped
  removed,   \* the model was removed from the manager and dropped
  last,      \* the last launch
  start,     \* the task of start(), for each launch
  shutdown,  \* the task of LspService::shutdown()
  again,     \* its callback is the one of restart()
  alive,     \* the process is running
  holdsLog,  \* a child of the dead process keeps its stderr open
  answer,    \* how the process answered initialize
  request,   \* the task of each send_request()
  pending,   \* JsonRpcService: pending_requests
  inbox,     \* requests the process has not answered
  outbox,    \* answers the read loop has not read
  loaded,    \* the buffer of the document holds the file
  version,   \* its buffer_version
  latest,    \* latest_buffer_version
  opened,    \* LspService: last_synced_version of the document, if it is open
  told,      \* the document as the process knows it
  docs,      \* tasks of did_open and did_change, and of their notifications
  blank,     \* the file was empty and the server running at its load (history)
  reordered, \* one of docs overtook an earlier one (history)
  halted,    \* the last word of the user was to stop the server (history)
  left,      \* how often each of Deeds may still happen
  deeds      \* how often all of them did

modelVars == <<state, byHand, removed, last, start>>
shutdownVars == <<shutdown, again>>
processVars == <<alive, holdsLog, answer>>
rpcVars == <<request, pending, inbox, outbox>>
docVars == <<loaded, version, latest, opened, told, docs, blank, reordered>>
boundVars == <<left, deeds>>
vars == <<modelVars, shutdownVars, processVars, rpcVars, docVars, halted, boundVars>>

States == {"Stopped", "Starting", "Available", "Stopping", "Failed"}
DocTask == [launch : Launches, kind : {"open", "full", "delta"}, from : Nat,
            to : Nat, phase : {"spawned", "writing"}]

ModelTypes ==
  /\ state \in States /\ byHand \in BOOLEAN /\ removed \in BOOLEAN
  /\ byHand => state \in {"Stopping", "Stopped"}
  /\ last \in 0..MaxLaunches /\ (state # "Stopped" => last > 0)
  /\ start \in [Launches -> {"none", "resolving", "initializing", "failed", "ended"}]

ProcessTypes ==
  /\ shutdown \in [Launches -> {"none", "asking", "waiting", "done"}]
  /\ again \in [Launches -> BOOLEAN]
  /\ alive \in [Launches -> BOOLEAN] /\ holdsLog \in [Launches -> BOOLEAN]
  /\ answer \in [Launches -> {"none", "ok", "error"}]

RequestStates ==
  {"none", "spawned", "sending", "waiting", "replied", "failed", "cancelled"}

RpcTypes ==
  /\ request \in [Launches -> [Requests -> RequestStates]]
  /\ pending \in [Launches -> SUBSET Requests]
  /\ inbox \in [Launches -> SUBSET Requests]
  /\ outbox \in [Launches -> SUBSET Requests]

DocTypes ==
  /\ loaded \in BOOLEAN /\ version \in Nat /\ latest \in Nat
  /\ opened \in [Launches -> Nat] /\ told \in [Launches -> Nat \cup {Garbled}]
  /\ docs \in SUBSET DocTask
  /\ blank \in [Launches -> BOOLEAN] /\ reordered \in [Launches -> BOOLEAN]

CounterTypes == halted \in BOOLEAN /\ left \in [Deeds -> Nat] /\ deeds \in Nat

TypeOK == ModelTypes /\ ProcessTypes /\ RpcTypes /\ DocTypes /\ CounterTypes

Init ==
  /\ state = "Stopped" /\ byHand = FALSE /\ removed = FALSE /\ last = 0
  /\ start = [g \in Launches |-> "none"]
  /\ shutdown = [g \in Launches |-> "none"] /\ again = [g \in Launches |-> FALSE]
  /\ alive = [g \in Launches |-> FALSE] /\ holdsLog = [g \in Launches |-> FALSE]
  /\ answer = [g \in Launches |-> "none"]
  /\ request = [g \in Launches |-> [r \in Requests |-> "none"]]
  /\ pending = [g \in Launches |-> {}]
  /\ inbox = [g \in Launches |-> {}] /\ outbox = [g \in Launches |-> {}]
  /\ loaded = FALSE /\ version = 1 /\ latest = None
  /\ opened = [g \in Launches |-> None] /\ told = [g \in Launches |-> None]
  /\ docs = {}
  /\ blank = [g \in Launches |-> FALSE] /\ reordered = [g \in Launches |-> FALSE]
  /\ halted = FALSE
  /\ left = Bounds /\ deeds = 0

Spend(deed) ==
  /\ left[deed] > 0 /\ left' = [left EXCEPT ![deed] = @ - 1]
  /\ deeds < MaxDeeds /\ deeds' = deeds + 1

Ready == state = "Available" /\ ~removed

-----------------------------------------------------------------------------
\* LspServerModel.

\* Mutant of Start: the flag of the last stop is kept.
BugStart ==
  /\ last < MaxLaunches /\ last' = last + 1
  /\ state' = "Starting" /\ UNCHANGED byHand
  /\ start' = [start EXCEPT ![last + 1] = "resolving"]

\* start() from Stopped
Start ==
  /\ last < MaxLaunches /\ last' = last + 1
  /\ state' = "Starting" /\ byHand' = FALSE
  /\ start' = [start EXCEPT ![last + 1] = "resolving"]

\* stop() and restart() from Available: the service is asked to shut down.
BeginShutdown(manually, restarting) ==
  /\ state' = "Stopping" /\ byHand' = manually
  /\ shutdown' = [shutdown EXCEPT ![last] = "asking"]
  /\ again' = [again EXCEPT ![last] = restarting]
  /\ request' = [request EXCEPT ![last]["shutdown"] = "spawned"]
  /\ UNCHANGED <<last, start>>

\* Mutant of StartAll: can_auto_start is not asked.
BugStartAll ==
  /\ ~removed /\ Spend("start all")
  /\ state = "Stopped" /\ Start
  /\ UNCHANGED <<removed, shutdownVars, processVars, rpcVars, docVars, halted>>

\* LspManagerModel::start_all, when a terminal enters the workspace or a file of
\* it is opened.
StartAll ==
  /\ ~removed /\ Spend("start all")
  /\ state = "Stopped" /\ ~byHand /\ Start
  /\ UNCHANGED <<removed, shutdownVars, processVars, rpcVars, docVars, halted>>

\* stop(true) by the user, stop(false) by the scan for unused servers.
Stop(manually) ==
  /\ ~removed /\ Spend(IF manually THEN "stop" ELSE "stop unused")
  /\ state = "Available" /\ BeginShutdown(manually, FALSE)
  /\ halted' = (halted \/ manually)
  /\ UNCHANGED <<removed, processVars, pending, inbox, outbox, docVars>>

\* manual_start()
ManualStart ==
  /\ ~removed /\ Spend("manual start")
  /\ \/ state \in {"Stopped", "Failed"} /\ Start
     \/ /\ state = "Stopping" /\ byHand
        /\ byHand' = FALSE
        /\ UNCHANGED <<state, last, start>>
  /\ halted' = FALSE
  /\ UNCHANGED <<removed, shutdownVars, processVars, rpcVars, docVars>>

\* Mutant of Restart: the new server is started beside the old one.
BugRestart ==
  /\ ~removed /\ Spend("restart")
  /\ state \in {"Available", "Failed", "Stopped"} /\ Start
  /\ halted' = FALSE
  /\ UNCHANGED <<removed, shutdownVars, processVars, rpcVars, docVars>>

\* restart()
Restart ==
  /\ ~removed /\ Spend("restart")
  /\ last < MaxLaunches
  /\ \/ state = "Available" /\ BeginShutdown(FALSE, TRUE)
     \/ /\ state \in {"Failed", "Stopped"} /\ Start
        /\ UNCHANGED <<shutdownVars, request>>
  /\ halted' = FALSE
  /\ UNCHANGED <<removed, processVars, pending, inbox, outbox, docVars>>

\* LspManagerModel::remove_server: stop(true), and the model is dropped.
Remove ==
  /\ ~removed /\ Spend("remove")
  /\ removed' = TRUE
  /\ \/ state = "Available" /\ BeginShutdown(TRUE, FALSE)
     \/ state # "Available" /\ UNCHANGED <<state, byHand, last, start, shutdownVars, request>>
  /\ UNCHANGED <<processVars, pending, inbox, outbox, docVars, halted>>

\* spawn_lsp_service: the command is found and spawned, or not.
LaunchServer(g) ==
  /\ start[g] = "resolving"
  /\ \/ /\ start' = [start EXCEPT ![g] = "failed"]
        /\ UNCHANGED <<alive, request>>
     \/ /\ start' = [start EXCEPT ![g] = "initializing"]
        /\ alive' = [alive EXCEPT ![g] = TRUE]
        /\ request' = [request EXCEPT ![g]["initialize"] = "spawned"]
  /\ UNCHANGED <<state, byHand, removed, last, shutdownVars, holdsLog, answer, pending,
                 inbox, outbox, docVars, halted, boundVars>>

DocTasks(kind, from, to) ==
  {[launch |-> last, kind |-> kind, from |-> from, to |-> to, phase |-> "spawned"]}

\* Mutant of OpenAll: a started server is not told of the document.
BugOpenAll == UNCHANGED docs

\* handle_lsp_manager_events: a server that started is told of the document.
OpenAll ==
  docs' = docs \cup (IF loaded THEN DocTasks("open", None, version) ELSE {})

\* The callback of start().
StartDone(g) ==
  /\ \/ start[g] = "failed"
     \/ start[g] = "initializing" /\ request[g]["initialize"] \in {"replied", "failed"}
  /\ start' = [start EXCEPT ![g] = "ended"]
  /\ IF removed THEN UNCHANGED <<state, docs>>
     ELSE \/ /\ request[g]["initialize"] = "replied" /\ answer[g] = "ok"
             /\ state' = "Available" /\ OpenAll
          \/ /\ request[g]["initialize"] # "replied" \/ answer[g] = "error"
             /\ state' = "Failed" /\ UNCHANGED docs
  /\ UNCHANGED <<byHand, removed, last, shutdownVars, processVars, rpcVars, loaded, version,
                 latest, opened, told, blank, reordered, halted, boundVars>>

-----------------------------------------------------------------------------
\* LspService::shutdown and ProcessTransport::shutdown.

\* The request was answered or failed: exit is sent, and the child is awaited.
ShutdownWaits(g) ==
  /\ shutdown[g] = "asking" /\ request[g]["shutdown"] \in {"replied", "failed"}
  /\ shutdown' = [shutdown EXCEPT ![g] = "waiting"]
  /\ UNCHANGED <<modelVars, again, processVars, rpcVars, docVars, halted, boundVars>>

\* Mutant of Kill: the timeout is taken for the end of the server.
BugKill(g) ==
  /\ shutdown[g] = "waiting" /\ alive[g]
  /\ shutdown' = [shutdown EXCEPT ![g] = "done"]
  /\ UNCHANGED <<modelVars, again, processVars, rpcVars, docVars, halted, boundVars>>

\* After the timeout of 5 s: SIGTERM, 2 s of grace, SIGKILL.
Kill(g) ==
  /\ shutdown[g] = "waiting" /\ alive[g]
  /\ alive' = [alive EXCEPT ![g] = FALSE]
  /\ \E b \in BOOLEAN : holdsLog' = [holdsLog EXCEPT ![g] = b]
  /\ UNCHANGED <<modelVars, shutdownVars, answer, rpcVars, docVars, halted, boundVars>>

\* The child is gone and the task that reads its stderr has ended; the callback
\* of stop() or restart().
ShutdownDone(g) ==
  /\ shutdown[g] = "waiting" /\ ~alive[g] /\ ~holdsLog[g]
  /\ shutdown' = [shutdown EXCEPT ![g] = "done"]
  /\ \/ /\ ~removed /\ state = "Stopping"
        /\ \/ again[g] /\ Start
           \/ ~again[g] /\ state' = "Stopped" /\ UNCHANGED <<byHand, last, start>>
     \/ /\ removed \/ state # "Stopping"
        /\ UNCHANGED <<state, byHand, last, start>>
  /\ UNCHANGED <<removed, again, processVars, rpcVars, docVars, halted, boundVars>>

-----------------------------------------------------------------------------
\* JsonRpcService.

\* goto_definition, hover, find_references, format_document
Call(c) ==
  /\ Ready /\ Spend("call") /\ \A g \in Launches : request[g][c] = "none"
  /\ request' = [request EXCEPT ![last][c] = "spawned"]
  /\ UNCHANGED <<modelVars, shutdownVars, processVars, pending, inbox, outbox, docVars,
                 halted>>

\* The future is dropped, which sends $/cancelRequest: the server still answers.
Cancel(g, c) ==
  /\ request[g][c] \in {"spawned", "sending", "waiting"} /\ Spend("cancel")
  /\ request' = [request EXCEPT ![g][c] = "cancelled"]
  /\ UNCHANGED <<modelVars, shutdownVars, processVars, pending, inbox, outbox, docVars,
                 halted>>

Insert(g, r) == pending' = [pending EXCEPT ![g] = @ \cup {r}]
Write(g, r) == inbox' = [inbox EXCEPT ![g] = @ \cup {r}]

\* Mutant of SendRequest: the request is written before it is in the table.
BugSendRequest(g, r) ==
  /\ \/ /\ request[g][r] = "spawned" /\ alive[g]
        /\ Write(g, r) /\ UNCHANGED pending
        /\ request' = [request EXCEPT ![g][r] = "sending"]
     \/ /\ request[g][r] = "spawned" /\ ~alive[g]
        /\ request' = [request EXCEPT ![g][r] = "failed"]
        /\ UNCHANGED <<pending, inbox>>
     \/ /\ request[g][r] = "sending"
        /\ Insert(g, r) /\ UNCHANGED inbox
        /\ request' = [request EXCEPT ![g][r] = "waiting"]
  /\ UNCHANGED <<modelVars, shutdownVars, processVars, outbox, docVars, halted, boundVars>>

\* send_request: the table first, then the pipe, which is broken when the process
\* is dead (the entry stays in the table then). The bytes of a message are written
\* at once: a caller that gives up in the middle of them is not modelled.
SendRequest(g, r) ==
  /\ \/ /\ request[g][r] = "spawned"
        /\ Insert(g, r) /\ UNCHANGED inbox
        /\ request' = [request EXCEPT ![g][r] = "sending"]
     \/ /\ request[g][r] = "sending" /\ alive[g]
        /\ Write(g, r) /\ UNCHANGED pending
        /\ request' = [request EXCEPT ![g][r] = "waiting"]
     \/ /\ request[g][r] = "sending" /\ ~alive[g]
        /\ request' = [request EXCEPT ![g][r] = "failed"]
        /\ UNCHANGED <<pending, inbox>>
  /\ UNCHANGED <<modelVars, shutdownVars, processVars, outbox, docVars, halted, boundVars>>

\* read_loop, handle_message: a reply goes to whoever waits for its id, if anyone.
ReadReply(g, r) ==
  /\ r \in outbox[g]
  /\ outbox' = [outbox EXCEPT ![g] = @ \ {r}]
  /\ pending' = [pending EXCEPT ![g] = @ \ {r}]
  /\ request' = IF r \in pending[g] /\ request[g][r] = "waiting"
                THEN [request EXCEPT ![g][r] = "replied"] ELSE request
  /\ UNCHANGED <<modelVars, shutdownVars, processVars, inbox, docVars, halted, boundVars>>

-----------------------------------------------------------------------------
\* The server process.

Answer(g, r) ==
  /\ alive[g] /\ r \in inbox[g]
  /\ inbox' = [inbox EXCEPT ![g] = @ \ {r}]
  /\ outbox' = [outbox EXCEPT ![g] = @ \cup {r}]
  /\ \E a \in {"ok", "error"} :
       answer' = IF r = "initialize" THEN [answer EXCEPT ![g] = a] ELSE answer
  /\ UNCHANGED <<modelVars, shutdownVars, alive, holdsLog, request, pending, docVars,
                 halted, boundVars>>

\* It crashes, or exits when told so.
Die(g) ==
  /\ alive[g]
  /\ alive' = [alive EXCEPT ![g] = FALSE]
  /\ \E b \in BOOLEAN : holdsLog' = [holdsLog EXCEPT ![g] = b]
  /\ UNCHANGED <<modelVars, shutdownVars, answer, rpcVars, docVars, halted, boundVars>>

\* The last of its children ends.
ChildEnds(g) ==
  /\ holdsLog[g] /\ holdsLog' = [holdsLog EXCEPT ![g] = FALSE]
  /\ UNCHANGED <<modelVars, shutdownVars, alive, answer, rpcVars, docVars, halted, boundVars>>

-----------------------------------------------------------------------------
\* The document.

\* The file was read.  An empty one changes nothing in the buffer, which then
\* reports nothing.
Load ==
  /\ ~loaded /\ loaded' = TRUE /\ Spend("load")
  /\ \/ /\ latest' = version /\ UNCHANGED blank
        /\ docs' = docs \cup (IF Ready THEN DocTasks("open", None, version) ELSE {})
     \/ /\ UNCHANGED <<latest, docs>>
        /\ blank' = IF Ready THEN [blank EXCEPT ![last] = TRUE] ELSE blank
  /\ UNCHANGED <<modelVars, shutdownVars, processVars, rpcVars, version, opened, told,
                 reordered, halted>>

\* A change of the buffer, and notify_lsp_of_content_change.
Edit ==
  /\ loaded /\ Spend("edit")
  /\ version' = version + 1 /\ latest' = version + 1
  /\ LET full == latest # None /\ opened[last] < latest
     IN docs' = docs \cup
          (IF Ready THEN DocTasks(IF full THEN "full" ELSE "delta", version, version + 1)
           ELSE {})
  /\ UNCHANGED <<modelVars, shutdownVars, processVars, rpcVars, loaded, opened, told, blank,
                 reordered, halted>>

Earlier(d) == {e \in docs : e.launch = d.launch /\ e.to < d.to}

Overtakes(d, others) ==
  reordered' = IF others = {} THEN reordered
               ELSE [reordered EXCEPT ![d.launch] = TRUE]

\* did_open, did_change: the table of open documents, then the notification is
\* handed to a task of its own.
RunDoc(d) ==
  /\ d \in docs /\ d.phase = "spawned"
  /\ IF d.kind = "open" <=> opened[d.launch] = None
     THEN /\ opened' = [opened EXCEPT ![d.launch] = d.to]
          /\ docs' = (docs \ {d}) \cup {[d EXCEPT !.phase = "writing"]}
     ELSE docs' = docs \ {d} /\ UNCHANGED opened
  /\ Overtakes(d, {e \in Earlier(d) : e.phase = "spawned"})
  /\ UNCHANGED <<modelVars, shutdownVars, processVars, rpcVars, loaded, version, latest, told,
                 blank, halted, boundVars>>

\* send_notification: the task writes, and the process takes what it reads.
WriteDoc(d) ==
  /\ d \in docs /\ d.phase = "writing"
  /\ docs' = docs \ {d}
  /\ told' = IF alive[d.launch]
             THEN [told EXCEPT ![d.launch] =
                     IF d.kind # "delta" \/ @ = d.from THEN d.to ELSE Garbled]
             ELSE told
  /\ Overtakes(d, Earlier(d))
  /\ UNCHANGED <<modelVars, shutdownVars, processVars, rpcVars, loaded, version, latest,
                 opened, blank, halted, boundVars>>

-----------------------------------------------------------------------------

Asks ==
  \/ StartAll \/ (\E b \in BOOLEAN : Stop(b)) \/ ManualStart \/ Restart \/ Remove
  \/ (\E c \in Calls : Call(c)) \/ (\E g \in Launches, c \in Calls : Cancel(g, c))
  \/ Load \/ Edit

Process ==
  \E g \in Launches : Die(g) \/ ChildEnds(g) \/ (\E r \in Requests : Answer(g, r))

Tasks ==
  \/ \E g \in Launches :
       \/ LaunchServer(g) \/ StartDone(g)
       \/ ShutdownWaits(g) \/ Kill(g) \/ ShutdownDone(g)
       \/ \E r \in Requests : SendRequest(g, r) \/ ReadReply(g, r)
  \/ \E d \in docs : RunDoc(d) \/ WriteDoc(d)

Next == Asks \/ Process \/ Tasks

\* The tasks of the program and their timer go on; nobody has to ask for anything,
\* and the server does not have to answer.
Spec == Init /\ [][Next]_vars /\ WF_vars(Tasks)

-----------------------------------------------------------------------------

\* Somebody will use or end the process of launch g.
Owned(g) ==
  \/ start[g] \in {"resolving", "initializing"}
  \/ state = "Available" /\ last = g
  \/ shutdown[g] \in {"asking", "waiting"}

\* The two ways the code leaves a process behind: it refused to initialize, or
\* the model was dropped while it started.
LeftBehind(g) ==
  answer[g] = "error" \/ (removed /\ state = "Starting" /\ start[g] = "ended")

\* No process is forgotten, and at most one is in use, however starts, stops,
\* restarts and their callbacks interleave.
OneServer ==
  \A g \in Launches : alive[g] /\ ~LeftBehind(g) =>
    Owned(g) /\ \A h \in Launches : alive[h] /\ ~LeftBehind(h) => h = g

\* A server the user stopped stays so until the user starts it: neither opening a
\* file nor the end of a shutdown starts it.
StopIsKept == halted => state \in {"Stopping", "Stopped"} /\ byHand

\* When all is told, the server knows the document as it is, unless notifications
\* overtook one another or the file was empty when it was loaded.
DocumentInStep ==
  /\ Ready /\ alive[last] /\ loaded
  /\ ~blank[last] /\ ~reordered[last] /\ \A d \in docs : d.launch # last
  => told[last] = version

\* Whoever waits for an answer that the server gave gets it, even when the server
\* is stopped or dies meanwhile.
AnswersArrive ==
  \A g \in Launches, r \in Requests :
    (r \in outbox[g]) ~> (request[g][r] \in {"replied", "cancelled"})

\* Once the server has answered or cannot be asked, a shutdown ends: the process
\* is gone and the model has left Stopping, unless a child of the server keeps its
\* stderr open.
ShutdownEnds ==
  \A g \in Launches :
    ("shutdown" \in outbox[g] \/ request[g]["shutdown"] \in {"replied", "failed"})
      ~> (~alive[g] /\ (shutdown[g] = "done" \/ holdsLog[g]))

====
