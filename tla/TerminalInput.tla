---------------------------- MODULE TerminalInput ----------------------------
(***************************************************************************)
(* The executor of in-band commands (InBandExecutor) on top of the real    *)
(* controller and shell (PtyController), connected as in                   *)
(* app/src/terminal/local_tty/terminal_manager.rs: executor_command_tx     *)
(* leads from one to the other, refusals and parsed outputs lead back.     *)
(* Each module describes the other by what it relies on; here each takes   *)
(* the place of the other's description, and is shown to be covered by it. *)
(*                                                                         *)
(* The handlers of the main thread run one at a time, tasks are polled and *)
(* dropped on other threads.  The agent's commands are left out: they      *)
(* throw queued in-band commands away without telling the executor, which  *)
(* is no behaviour InBandExecutor allows for (NobodyWaitsForDropped).  So  *)
(* are native completions, which the executor has no part in.              *)
(***************************************************************************)
EXTENDS Naturals, Sequences, SequencesExt

CONSTANTS
  Cmds,        \* commands submitted by the user
  InBand,      \* commands of background tasks
  None, Failure, Zsh,
  Abortable,   \* the commands whose tasks may be aborted
  MaxClears    \* how many commands the user submits

ASSUME ConstantsAssumption ==
  /\ Cmds \cap InBand = {}
  /\ None \notin Cmds \cup InBand
  /\ Failure \notin InBand /\ None # Failure
  /\ Zsh \in BOOLEAN
  /\ MaxClears \in Nat

VARIABLES
  writes,      \* PtyController.pending
  userExecuting, native, active, armed, due, zshPrecmd, blk, inFlight, events,
  toShell, shell, generators, ran, latest, nRequests, nTyped,
  fromExecutor,
  issued,      \* commands sent to be executed (history)
  running,
  queue,       \* InBandExecutor.pending
  fut, reply, thread, main, executed, refused, nClears

controllerVars == <<writes, userExecuting, native, active, armed, due,
                    zshPrecmd, blk, inFlight, events, toShell, shell,
                    generators, ran, latest, nRequests, nTyped>>
taskVars == <<queue, fut, reply, thread, main>>
executorVars == <<running, taskVars, executed, refused, nClears>>
vars == <<controllerVars, executorVars, fromExecutor, issued>>

(* What the controller's description calls waiting: the running command    *)
(* whose output or refusal is not already on its way back.                 *)
Waiting == ({running} \cap InBand) \ ToSet(executed \o refused)
Cancelled == {c \in InBand : fut[c] = "dropped"}

Controller ==
  INSTANCE PtyController WITH
    Agent <- {}, MaxTyped <- 0, MaxRequests <- 0,
    pending <- writes, waiting <- Waiting, cancelled <- Cancelled

(* What the executor's description calls downstream: the commands that are *)
(* queued, written, being started or at work in the shell's background.    *)
Downstream ==
  {c \in InBand :
    \/ Controller!InBandWrite(c) \in ToSet(writes \o toShell)
    \/ shell = Controller!Running("inband", c)
    \/ c \in generators}

Executor ==
  INSTANCE InBandExecutor WITH
    Commands <- InBand, pending <- queue,
    toController <- fromExecutor, downstream <- Downstream

Init ==
  /\ running = None /\ queue = <<>>
  /\ fut = [c \in InBand |-> "new"] /\ reply = [c \in InBand |-> None]
  /\ thread = [c \in InBand |-> "idle"] /\ main = "idle"
  /\ executed = <<>> /\ refused = <<>> /\ nClears = 0
  /\ Controller!Init

-----------------------------------------------------------------------------
(* Steps of the executor, with a note of what it issues.                   *)
NoteIssued == issued' = issued \cup ({running'} \ {running, None})

ExecutorStep(A) == UNCHANGED controllerVars /\ A /\ NoteIssued

HandleExecuted == ExecutorStep(Executor!HandleExecuted)
HandleRefused == ExecutorStep(Executor!HandleRefused)
MainExecute == ExecutorStep(Executor!MainExecute)
Task(c) ==
  /\ ExecutorStep(Executor!Task(c))
  /\ fut'[c] = "dropped" => c \in Abortable

(* The controller takes a message of the executor; a refusal is sent back. *)
ControllerTakes ==
  /\ main = "idle" /\ fromExecutor # <<>>
  /\ LET m == Head(fromExecutor)
     IN refused' = IF m.op = "execute" /\ userExecuting
                   THEN Append(refused, m.id) ELSE refused
  /\ UNCHANGED <<running, taskVars, executed, nClears>>
  /\ Controller!HandleExecutor

(* Mutant: the view does not cancel the active commands.                   *)
BugSubmit(c) ==
  /\ main = "idle" /\ nClears < MaxClears
  /\ UNCHANGED executorVars
  /\ writes' = <<Controller!UserWrite(c)>>
  /\ userExecuting' = TRUE /\ latest' = c
  /\ blk' = [blk EXCEPT !.started = TRUE, !.owner = c]
  /\ UNCHANGED <<native, active, armed, due, zshPrecmd, inFlight, events,
                 toShell, shell, generators, ran, nRequests, nTyped,
                 fromExecutor, issued>>

(* The user's command: the view first makes the executor give up on its    *)
(* commands (cancel_active_commands).                                      *)
Submit(c) ==
  /\ nClears < MaxClears
  /\ nClears' = nClears + 1
  /\ Executor!ClearAll
  /\ Controller!Submit(c)

(* Other handlers of the main thread, the timer's thread, and the shell.   *)
MainStep ==
  /\ main = "idle"
  /\ UNCHANGED executorVars
  /\ Controller!HandleEvent \/ Controller!MarkActive

ShellReads ==
  /\ UNCHANGED executorVars
  /\ \E w \in Controller!Writes :
       Controller!ShellExecutes(w) \/ Controller!ShellReadsKey(w)

OtherStep ==
  /\ UNCHANGED executorVars
  /\ \/ Controller!TimerExpires \/ Controller!ShellFinishes
     \/ Controller!ShellPrompts \/ Controller!ProgramReads

(* The output of a command is parsed and sent to the executor.             *)
GeneratorAnswers(c) ==
  /\ executed' = Append(executed, c)
  /\ UNCHANGED <<running, taskVars, refused, nClears>>
  /\ Controller!GeneratorAnswers(c)

Next ==
  \/ HandleExecuted \/ HandleRefused \/ MainExecute
  \/ \E c \in InBand : Task(c) \/ GeneratorAnswers(c)
  \/ ControllerTakes \/ MainStep \/ ShellReads \/ OtherStep
  \/ \E c \in Cmds : Submit(c)

(* As in the two modules: every runnable task is polled, every thread in a *)
(* call returns, the main thread gets round to all that is sent to it, and *)
(* the shell to its input; nobody need drop a task or submit a command.    *)
Fairness ==
  /\ WF_vars(HandleExecuted) /\ WF_vars(HandleRefused) /\ WF_vars(MainExecute)
  /\ WF_vars(ControllerTakes) /\ WF_vars(ShellReads)
  /\ WF_vars(main = "idle" /\ UNCHANGED executorVars /\ Controller!HandleEvent)
  /\ WF_vars(main = "idle" /\ UNCHANGED executorVars /\ Controller!MarkActive)
  /\ WF_vars(UNCHANGED executorVars /\ Controller!TimerExpires)
  /\ WF_vars(UNCHANGED executorVars /\ Controller!ShellFinishes)
  /\ WF_vars(UNCHANGED executorVars /\ Controller!ShellPrompts)
  /\ \A c \in InBand :
       /\ WF_vars(GeneratorAnswers(c))
       /\ WF_vars(ExecutorStep(\/ Executor!ThreadExecute(c)
                               \/ Executor!CheckRunning(c)
                               \/ Executor!TakeRunning(c)
                               \/ Executor!RetainPending(c)))
       /\ WF_vars(ExecutorStep(\/ Executor!Receive(c)
                               \/ Executor!ReceiveError(c)))

Spec == Init /\ [][Next]_vars
FairSpec == Spec /\ Fairness

-----------------------------------------------------------------------------
(* The real executor does nothing to the controller that PtyController     *)
(* does not expect: one command at a time, at most one cancellation each,  *)
(* gone when the user submits; so what is shown of PtyController holds.    *)
ControllerSpec == Controller!Spec

(* The real controller and shell are an environment InBandExecutor         *)
(* expects: a command sent to them is refused, or kept until it answers,   *)
(* is cancelled, or the user submits a command; so what is shown, and      *)
(* proved, of InBandExecutor holds with them.                              *)
ExecutorSpec == Executor!Init /\ [][Executor!Next]_(Executor!vars)

(* A task that asks for a command's output gets it, or an error, or is     *)
(* dropped, however hooks, timers and the user's commands delay what is    *)
(* written to the shell.                                                   *)
EveryCommandResolves == Executor!EveryCommandResolves
=============================================================================
