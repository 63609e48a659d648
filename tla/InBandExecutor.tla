--------------------------- MODULE InBandExecutor ---------------------------
(***************************************************************************)
(* The executor of in-band commands                                        *)
(* (app/src/terminal/model/session/command_executor/                       *)
(*  in_band_command_executor.rs): background tasks submit commands to be   *)
(* run in the user's own shell session, one at a time, and await the       *)
(* output; a task that is aborted cancels its command from whichever       *)
(* thread drops its future, while the main thread hands over the outputs.  *)
(*                                                                         *)
(* A step is one critical section of running_command, or one send.  The    *)
(* controller of the pty and the shell are external here: a command that   *)
(* was sent is refused, or is some time answered.  TerminalInput puts the  *)
(* real controller in their place.                                         *)
(***************************************************************************)
EXTENDS Naturals, Sequences, SequencesExt

CONSTANTS
  Commands,  \* command ids
  None,      \* running_command is None; no reply yet
  Failure,   \* the reply to a command that was refused
  MaxClears  \* how many times cancel_active_commands is called

ASSUME CommandsAssumption ==
  /\ None \notin Commands /\ Failure \notin Commands /\ None # Failure
  /\ MaxClears \in Nat

VARIABLES
  running,      \* running_command
  pending,      \* pending_commands
  fut,          \* the future of execute_command, per command
  reply,        \* what was sent on the command's output_tx
  thread,       \* where the thread that polls or drops the future is
  main,         \* where the main thread's handler is
  toController, \* executor_command_tx: the ExecutorCommandEvents under way
  executed,     \* in_band_command_output_rx: ids of the outputs parsed
  refused,      \* in_band_command_cancelled_rx: ids that will not be run
  downstream,   \* commands the controller or the shell has (external)
  nClears       \* calls of cancel_active_commands so far

execVars == <<running, pending, fut, reply, thread, main>>
vars == <<running, pending, fut, reply, thread, main,
          toController, executed, refused, downstream, nClears>>

ThreadStates ==
  {"idle", "check", "take", "taken", "retain", "execute"}
FutStates == {"new", "waiting", "done", "failed", "dropped"}

Execute(c) == [op |-> "execute", id |-> c]
Cancel(c) == [op |-> "cancel", id |-> c]
Events == [op : {"execute", "cancel"}, id : Commands]

TypeOK ==
  /\ running \in Commands \cup {None}
  /\ pending \in Seq(Commands)
  /\ fut \in [Commands -> FutStates]
  /\ reply \in [Commands -> Commands \cup {None, Failure}]
  /\ thread \in [Commands -> ThreadStates]
  /\ main \in {"idle", "execute"}
  /\ toController \in Seq(Events)
  /\ executed \in Seq(Commands) /\ refused \in Seq(Commands)
  /\ downstream \in SUBSET Commands
  /\ nClears \in 0..MaxClears

Init ==
  /\ running = None /\ pending = <<>>
  /\ fut = [c \in Commands |-> "new"]
  /\ reply = [c \in Commands |-> None]
  /\ thread = [c \in Commands |-> "idle"]
  /\ main = "idle"
  /\ toController = <<>> /\ executed = <<>> /\ refused = <<>>
  /\ downstream = {} /\ nClears = 0

-----------------------------------------------------------------------------
(* Mutant: the replaced running_command is put back among the pending.     *)
BugSwap ==
  IF running = None /\ pending # <<>>
  THEN /\ running' = Head(pending)
       /\ pending' = Append(Tail(pending), running)
       /\ toController' = Append(toController, Execute(Head(pending)))
  ELSE UNCHANGED <<running, pending, toController>>

(* Mutant: the running command is not looked at.                           *)
BugStartAnyway ==
  IF pending # <<>>
  THEN /\ running' = Head(pending)
       /\ pending' = Tail(pending)
       /\ toController' = Append(toController, Execute(Head(pending)))
  ELSE UNCHANGED <<running, pending, toController>>

(* execute_command_internal, under the lock of running_command: when none  *)
(* runs, the first of the pending commands is made the running one and     *)
(* sent to the controller.                                                 *)
ExecuteInternal ==
  IF running = None /\ pending # <<>>
  THEN /\ running' = Head(pending)
       /\ pending' = Tail(pending)
       /\ toController' = Append(toController, Execute(Head(pending)))
  ELSE UNCHANGED <<running, pending, toController>>

(* The first poll of execute_command's future: enqueue_command queues the  *)
(* command, and its call of execute_command_internal follows.              *)
Enqueue(c) ==
  /\ fut[c] = "new" /\ thread[c] = "idle"
  /\ fut' = [fut EXCEPT ![c] = "waiting"]
  /\ pending' = Append(pending, c)
  /\ thread' = [thread EXCEPT ![c] = "execute"]
  /\ UNCHANGED <<running, reply, main, toController, executed, refused,
                 downstream, nClears>>

(* The calls of execute_command_internal on a task's thread.               *)
ThreadExecute(c) ==
  /\ thread[c] = "execute"
  /\ ExecuteInternal
  /\ thread' = [thread EXCEPT ![c] = "idle"]
  /\ UNCHANGED <<fut, reply, main, executed, refused, downstream, nClears>>

(* The future is polled after its output was sent ...                      *)
Receive(c) ==
  /\ fut[c] = "waiting" /\ thread[c] = "idle" /\ reply[c] # None
  /\ fut' = [fut EXCEPT ![c] = "done"]
  /\ UNCHANGED <<running, pending, reply, thread, main, toController,
                 executed, refused, downstream, nClears>>

Holds(c) == running = c \/ c \in ToSet(pending)

(* ... or after the executor dropped the only output_tx: recv fails.       *)
ReceiveError(c) ==
  /\ fut[c] = "waiting" /\ thread[c] = "idle"
  /\ reply[c] = None /\ ~Holds(c)
  /\ fut' = [fut EXCEPT ![c] = "failed"]
  /\ UNCHANGED <<running, pending, reply, thread, main, toController,
                 executed, refused, downstream, nClears>>

(* The task is aborted: the future is dropped before it was ready, and its *)
(* on_cancel hook calls cancel_command, which first tells the controller.  *)
Drop(c) ==
  /\ fut[c] = "waiting" /\ thread[c] = "idle"
  /\ fut' = [fut EXCEPT ![c] = "dropped"]
  /\ toController' = Append(toController, Cancel(c))
  /\ thread' = [thread EXCEPT ![c] = "check"]
  /\ UNCHANGED <<running, pending, reply, main, executed, refused,
                 downstream, nClears>>

(* Mutant: only the pending commands are looked through.                   *)
BugPendingOnly(c) ==
  /\ thread[c] = "check"
  /\ thread' = [thread EXCEPT ![c] = "retain"]
  /\ UNCHANGED <<running, pending, fut, reply, main, toController, executed,
                 refused, downstream, nClears>>

(* cancel_command looks at running_command and unlocks it, ...             *)
CheckRunning(c) ==
  /\ thread[c] = "check"
  /\ thread' = [thread EXCEPT ![c] = IF running = c THEN "take" ELSE "retain"]
  /\ UNCHANGED <<running, pending, fut, reply, main, toController, executed,
                 refused, downstream, nClears>>

(* ... locks it again to take what is there, ...                           *)
TakeRunning(c) ==
  /\ thread[c] = "take"
  /\ running' = None
  /\ thread' = [thread EXCEPT ![c] = "taken"]
  /\ UNCHANGED <<pending, fut, reply, main, toController, executed, refused,
                 downstream, nClears>>

(* Mutant: nothing is run after a cancellation.                            *)
BugNoRestart(s) == "idle"

AfterRetain(s) == IF s = "taken" THEN "execute" ELSE "idle"

(* retain: an id is queued once, so at most one place is removed.          *)
Without(s, c) ==
  IF c \in ToSet(s) THEN RemoveAt(s, CHOOSE i \in DOMAIN s : s[i] = c) ELSE s

(* ... and removes the command from the pending ones; only when it took    *)
(* the running one does it look for another to run.                        *)
RetainPending(c) ==
  /\ thread[c] \in {"taken", "retain"}
  /\ pending' = Without(pending, c)
  /\ thread' = [thread EXCEPT ![c] = AfterRetain(thread[c])]
  /\ UNCHANGED <<running, fut, reply, main, toController, executed, refused,
                 downstream, nClears>>

-----------------------------------------------------------------------------
(* A send on output_tx, unless the receiver is gone.                       *)
Answer(c, what) ==
  reply' = IF fut[c] = "waiting" THEN [reply EXCEPT ![c] = what] ELSE reply

(* Mutant: any output resolves the running command.                        *)
BugAnyOutput(id) ==
  IF running # None
  THEN running' = None /\ Answer(running, id)
  ELSE UNCHANGED <<running, reply>>

(* handle_executed_command_event, on the main thread: the output of the    *)
(* running command resolves it; any other output changes nothing.          *)
TakeIfOwn(id) ==
  IF running = id
  THEN running' = None /\ Answer(running, id)
  ELSE UNCHANGED <<running, reply>>

HandleExecuted ==
  /\ main = "idle" /\ executed # <<>>
  /\ executed' = Tail(executed)
  /\ TakeIfOwn(Head(executed))
  /\ main' = "execute"
  /\ UNCHANGED <<pending, fut, thread, toController, refused, downstream,
                 nClears>>

(* Mutant: a refusal is only logged.                                       *)
BugLogRefusal ==
  /\ main = "idle" /\ refused # <<>>
  /\ refused' = Tail(refused)
  /\ UNCHANGED <<running, pending, fut, reply, thread, main, toController,
                 executed, downstream, nClears>>

(* handle_cancelled_in_band_command_event: the controller refused it.      *)
HandleRefused ==
  /\ main = "idle" /\ refused # <<>>
  /\ refused' = Tail(refused)
  /\ IF running = Head(refused)
     THEN running' = None /\ Answer(running, Failure) /\ main' = "execute"
     ELSE UNCHANGED <<running, reply, main>>
  /\ UNCHANGED <<pending, fut, thread, toController, executed, downstream,
                 nClears>>

(* Mutant: the handlers do not run the next command.                       *)
BugRunNothing ==
  /\ main = "execute"
  /\ main' = "idle"
  /\ UNCHANGED <<running, pending, toController, fut, reply, thread, executed,
                 refused, downstream, nClears>>

(* Their calls of execute_command_internal.                                *)
MainExecute ==
  /\ main = "execute"
  /\ ExecuteInternal
  /\ main' = "idle"
  /\ UNCHANGED <<fut, reply, thread, executed, refused, downstream, nClears>>

(* cancel_active_commands, under both locks.                               *)
ClearAll ==
  /\ main = "idle"
  /\ running' = None /\ pending' = <<>>
  /\ UNCHANGED <<fut, reply, thread, main, toController, executed, refused>>

-----------------------------------------------------------------------------
(* The user runs a command: the view cancels the active commands, and      *)
(* those the controller had queued are thrown away.                        *)
UserCommand ==
  /\ nClears < MaxClears
  /\ nClears' = nClears + 1
  /\ ClearAll
  /\ downstream' \in SUBSET downstream

(* The controller takes the next event: a command is passed on, or refused *)
(* while the user's runs; a cancellation removes it unless it was written. *)
ControllerExecute ==
  /\ toController # <<>> /\ Head(toController).op = "execute"
  /\ toController' = Tail(toController)
  /\ LET c == Head(toController).id IN
     \/ downstream' = downstream \cup {c} /\ refused' = refused
     \/ downstream' = downstream /\ refused' = Append(refused, c)
  /\ UNCHANGED <<running, pending, fut, reply, thread, main, executed, nClears>>

ControllerCancel ==
  /\ toController # <<>> /\ Head(toController).op = "cancel"
  /\ toController' = Tail(toController)
  /\ downstream' \in {downstream, downstream \ {Head(toController).id}}
  /\ UNCHANGED <<running, pending, fut, reply, thread, main, executed,
                 refused, nClears>>

(* The shell has run the command and its output was parsed.                *)
ShellAnswers(c) ==
  /\ c \in downstream
  /\ downstream' = downstream \ {c}
  /\ executed' = Append(executed, c)
  /\ UNCHANGED <<running, pending, fut, reply, thread, main, toController,
                 refused, nClears>>

-----------------------------------------------------------------------------
Task(c) ==
  \/ Enqueue(c) \/ ThreadExecute(c) \/ Receive(c) \/ ReceiveError(c)
  \/ Drop(c) \/ CheckRunning(c) \/ TakeRunning(c) \/ RetainPending(c)

Main == HandleExecuted \/ HandleRefused \/ MainExecute \/ UserCommand

Environment ==
  \/ ControllerExecute \/ ControllerCancel
  \/ \E c \in Commands : ShellAnswers(c)

Next == Main \/ Environment \/ \E c \in Commands : Task(c)

(* A runnable task is polled again, a thread inside a call returns, the    *)
(* main thread takes the events of its streams, the controller and the     *)
(* shell do their work.  Nobody need abort a task or run a command.        *)
Fairness ==
  /\ WF_vars(HandleExecuted) /\ WF_vars(HandleRefused) /\ WF_vars(MainExecute)
  /\ WF_vars(ControllerExecute) /\ WF_vars(ControllerCancel)
  /\ \A c \in Commands :
       /\ WF_vars(ThreadExecute(c) \/ CheckRunning(c) \/ TakeRunning(c)
                  \/ RetainPending(c))
       /\ WF_vars(Receive(c) \/ ReceiveError(c))
       /\ WF_vars(ShellAnswers(c))

Spec == Init /\ [][Next]_vars /\ Fairness

-----------------------------------------------------------------------------
(* A caller is only ever given the output of its own command, though the   *)
(* output of a command that was cancelled while the shell ran it arrives   *)
(* when another is the running one (handle_executed_command_event).        *)
RepliesAreOwn == \A c \in Commands : reply[c] \in {None, c, Failure}

(* Commands never wait for nobody: when some are pending and none runs, a  *)
(* thread is on its way to execute_command_internal, whichever of          *)
(* submissions, outputs, refusals and cancellations crossed each other.    *)
Restarting ==
  \/ main = "execute"
  \/ \E c \in Commands : thread[c] \in {"taken", "execute"}
NeverStalls == pending # <<>> /\ running = None => Restarting

(* The executor never waits for a command nobody works on: the running     *)
(* command is on its way to the controller or the shell, its output or its *)
(* refusal is on its way back, or a thread is about to cancel it.          *)
RunnerIsOutstanding ==
  \A c \in Commands : running = c =>
    \/ Execute(c) \in ToSet(toController) \/ c \in downstream
    \/ c \in ToSet(executed) \/ c \in ToSet(refused)
    \/ thread[c] \in {"check", "take"}

(* Why a cancellation cannot take the running command from the controller  *)
(* and leave the executor waiting: while a CancelCommand for it is under   *)
(* way, either its thread will still free the slot, or its ExecuteCommand  *)
(* comes later in the channel.                                             *)
ExecuteFollowsCancel ==
  \A c \in Commands : \A i \in DOMAIN toController :
    toController[i] = Cancel(c) /\ running = c =>
      \/ thread[c] \in {"check", "take"}
      \/ \E j \in DOMAIN toController : j > i /\ toController[j] = Execute(c)

(* Every submitted command gets a reply, or an error, or is dropped: no    *)
(* cancellation of one leaves the others waiting for ever.                 *)
EveryCommandResolves ==
  \A c \in Commands :
    (fut[c] = "waiting") ~> (fut[c] \in {"done", "failed", "dropped"})

(* cancel_command's comment, "Clear the running command if it corresponds  *)
(* to the command we want to cancel": what it takes is its own command.    *)
ClearsOnlyItsOwn ==
  [][\A c \in Commands :
       thread[c] = "take" /\ thread'[c] = "taken" => running \in {c, None}]_vars
=============================================================================
