---------------------------- MODULE PtyController ----------------------------
(***************************************************************************)
(* Who writes to the shell, and when                                       *)
(* (app/src/terminal/writeable_pty/pty_controller.rs and                   *)
(* app/src/terminal/line_editor_status.rs): commands of the user and of an *)
(* agent, in-band commands of the executor and native completion requests  *)
(* share one pseudoterminal.  Writes are queued until the shell's line     *)
(* editor is taken to be active, which is guessed from the hooks the shell *)
(* prints and a timer.  The part of the block list that says whose block   *)
(* the running command is (model/blocks.rs, model/block.rs) goes with it,  *)
(* since the controller starts blocks and the hooks finish them.           *)
(*                                                                         *)
(* Everything here but the timers and the shell runs on the main thread or *)
(* under the terminal lock, one handler at a time.  The executor           *)
(* (InBandExecutor) is reduced to the commands it waits for.  The shell is *)
(* external: it reads what was written in order, runs commands and prints  *)
(* hooks; printing and parsing a hook are one step, and its delay is that  *)
(* of the event it is turned into.  The session has been bootstrapped.     *)
(* tmux control mode and writes that bypass the queue are left out.        *)
(***************************************************************************)
EXTENDS Naturals, Sequences, FiniteSets, FiniteSetsExt, SequencesExt

CONSTANTS
  Cmds,        \* commands submitted with write_command
  Agent,       \* those submitted by the agent, not the user
  InBand,      \* commands issued by the executor
  None,        \* no command
  Zsh,         \* TRUE if the shell is zsh
  MaxRequests, \* how many native completions are requested
  MaxTyped     \* commands typed ahead, run by the shell on its own

ASSUME ConstantsAssumption ==
  /\ Agent \subseteq Cmds /\ Cmds \cap InBand = {}
  /\ None \notin Cmds \cup InBand
  /\ Zsh \in BOOLEAN
  /\ MaxRequests \in Nat /\ MaxTyped \in Nat

VARIABLES
  pending,       \* pending_writes
  userExecuting, \* is_user_command_executing
  native,        \* in_flight_native_completions_state
  active,        \* is_line_editor_active
  armed,         \* the activation timer runs
  due,           \* expired timers whose callback has not run yet
  zshPrecmd,     \* did_receive_zsh_precmd
  blk,           \* the active block
  inFlight,      \* in_flight_in_band_command_count
  events,        \* model_events_rx: hooks parsed and not yet dispatched
  fromExecutor,  \* executor_command_rx
  waiting,       \* the in-band command the executor waits for, if any
  issued,        \* in-band commands it has sent to be executed
  cancelled,     \* in-band commands it has sent to be cancelled
  toShell,       \* written to the pty and not yet read
  shell,         \* what the shell does, and which command it runs
  generators,    \* in-band commands that run in the shell's background
  ran,           \* in whose block each of Cmds ran (history)
  latest,        \* the last submitted of Cmds (history)
  nRequests,     \* completion requests so far
  nTyped         \* typed-ahead commands so far

queueVars == <<pending, userExecuting, native>>
editorVars == <<active, armed, due, zshPrecmd>>
blockVars == <<blk, inFlight>>
shellVars == <<toShell, shell, generators, ran>>
executorVars == <<fromExecutor, waiting, issued, cancelled>>
inputVars == <<latest, nRequests, nTyped>>
vars == <<queueVars, editorVars, blockVars, shellVars, executorVars,
          inputVars, events>>

Typed == "typed"    \* the id of a command the shell runs on its own
NotRun == "not run"

Write(kind, id) == [kind |-> kind, id |-> id]
Report == Write("report", None)        \* the input-reporting sequence
Completion == Write("complete", None)  \* ^Y, RunNativeShellCompletions
Text == Write("text", None)            \* the text to complete, and EOT
UserWrite(c) == Write("command", c)
InBandWrite(c) == Write("inband", c)
Writes == {Report, Completion, Text} \cup {UserWrite(c) : c \in Cmds}
            \cup {InBandWrite(c) : c \in InBand}

Execute(c) == [op |-> "execute", id |-> c]
Cancel(c) == [op |-> "cancel", id |-> c]

Blocks == [inBand : BOOLEAN, started : BOOLEAN, owner : Cmds \cup {None}]
FreshBlock == [inBand |-> FALSE, started |-> FALSE, owner |-> None]
Idle(st) == [st |-> st, kind |-> "none", id |-> None]
Running(kind, c) == [st |-> "run", kind |-> kind, id |-> c]
Shells == {Idle(st) : st \in {"edit", "prompt", "complete"}}
            \cup {Running("command", c) : c \in Cmds}
            \cup {Running("inband", c) : c \in InBand}
            \cup {Running(Typed, None)}

Hooks == {"preexec", "precmd", "endPrompt", "userFinished", "sendPrompt",
          "completed"}

TypeOK ==
  /\ pending \in Seq(Writes \ {Text})
  /\ userExecuting \in BOOLEAN
  /\ native \in {"none", "prompt", "results"}
  /\ active \in BOOLEAN /\ armed \in BOOLEAN /\ due \in Nat
  /\ zshPrecmd \in BOOLEAN
  /\ blk \in Blocks
  /\ inFlight \in Nat
  /\ events \in Seq(Hooks)
  /\ fromExecutor \in Seq([op : {"execute", "cancel"}, id : InBand])
  /\ waiting \in SUBSET issued /\ issued \in SUBSET InBand
  /\ toShell \in Seq(Writes)
  /\ shell \in Shells
  /\ cancelled \in SUBSET InBand /\ generators \in SUBSET InBand
  /\ ran \in [Cmds -> Cmds \cup {None, NotRun}]
  /\ latest \in Cmds \cup {None}
  /\ nRequests \in 0..MaxRequests /\ nTyped \in 0..MaxTyped

(* The shell has just been bootstrapped and shows its first prompt.        *)
PromptHooks == IF Zsh THEN <<"precmd", "endPrompt">> ELSE <<"precmd">>

Init ==
  /\ pending = <<>> /\ userExecuting = FALSE /\ native = "none"
  /\ active = FALSE /\ armed = FALSE /\ due = 0 /\ zshPrecmd = FALSE
  /\ blk = FreshBlock /\ inFlight = 0
  /\ events = PromptHooks /\ fromExecutor = <<>>
  /\ waiting = {} /\ issued = {} /\ cancelled = {}
  /\ toShell = <<>> /\ shell = Idle("edit") /\ generators = {}
  /\ ran = [c \in Cmds |-> NotRun] /\ latest = None
  /\ nRequests = 0 /\ nTyped = 0

-----------------------------------------------------------------------------
(* mark_line_editor_active_after_delay.  SpawnedFutureHandle::abort stops a *)
(* timer that runs; one that expired on the background thread has its      *)
(* result under way and is not stopped.                                    *)
MarkActiveAfterDelay == armed' = TRUE /\ UNCHANGED <<active, due>>

(* set_line_editor_inactive, with so many expired timers under way.        *)
SetInactive(expired) == active' = FALSE /\ armed' = FALSE /\ due' = expired

IsCommand(w) == w.kind \in {"command", "inband"}
BugDrainAll(w) == w.kind = "complete"
StopsTheQueue(w) == IsCommand(w) \/ w.kind = "complete"

(* can_write_to_pty                                                        *)
BugActiveOnly(act, nat) == act
CanWrite(act, nat) == act /\ nat # "prompt"

(* VecDeque::retain, for a write that is queued at most once.              *)
Without(q, w) ==
  IF w \in ToSet(q)
  THEN RemoveAt(q, CHOOSE i \in DOMAIN q : q[i] = w)
  ELSE q

(* What execute_next_queued_write sends of a queue, calling itself until a *)
(* command made the line editor inactive or a completion claimed the pty.  *)
Stops(q) == {i \in DOMAIN q : StopsTheQueue(q[i])}
Batch(q) == IF Stops(q) = {} THEN q ELSE SubSeq(q, 1, Min(Stops(q)))

(* send_write_to_event_loop, for the last write of a batch: a command      *)
(* makes the line editor inactive, an in-band one starts the active block  *)
(* (before_write_fn), a completion waits for its prompt.                   *)
WriteEffects(last, act, expired, nat) ==
  /\ IF IsCommand(last)
     THEN SetInactive(expired)
     ELSE active' = act /\ due' = expired /\ UNCHANGED armed
  /\ native' = IF last.kind = "complete" THEN "prompt" ELSE nat
  /\ IF last.kind = "inband"
     THEN /\ blk' = [blk EXCEPT !.inBand = TRUE, !.started = TRUE]
          /\ inFlight' = inFlight + 1
     ELSE UNCHANGED blockVars

(* execute_next_queued_write on queue q, after text was written, given the *)
(* state of the line editor, its timer and the native completion.          *)
Flush(q, text, act, expired, nat) ==
  LET batch == IF CanWrite(act, nat) THEN Batch(q) ELSE <<>>
  IN /\ pending' = SubSeq(q, Len(batch) + 1, Len(q))
     /\ toShell' = toShell \o text \o batch
     /\ WriteEffects(IF batch = <<>> THEN Report ELSE Last(batch),
                     act, expired, nat)

-----------------------------------------------------------------------------
(* The handlers of LineEditorStatus and PtyController for a hook's event.  *)
HandlePreexec ==
  /\ SetInactive(due)
  /\ UNCHANGED <<zshPrecmd, queueVars, blockVars, toShell>>

(* Precmd, and in zsh the EndPrompt that follows it, start the timer.      *)
StartTimer ==
  IF active THEN UNCHANGED <<active, armed, due>> ELSE MarkActiveAfterDelay

HandlePrecmd ==
  /\ IF Zsh
     THEN zshPrecmd' = TRUE /\ UNCHANGED <<active, armed, due>>
     ELSE zshPrecmd' = (zshPrecmd /\ active) /\ StartTimer
  /\ UNCHANGED <<queueVars, blockVars, toShell>>

HandleEndPrompt ==
  /\ IF Zsh /\ zshPrecmd
     THEN zshPrecmd' = FALSE /\ StartTimer
     ELSE UNCHANGED <<zshPrecmd, active, armed, due>>
  /\ UNCHANGED <<queueVars, blockVars, toShell>>

HandleUserFinished ==
  /\ userExecuting' = FALSE
  /\ UNCHANGED <<pending, native, editorVars, blockVars, toShell>>

(* The shell is ready for the text to complete: it is written past the     *)
(* queue, then the queue goes on.  Without a request it is only logged,    *)
(* and whatever state there was is gone.                                   *)
BugTextOnly ==
  /\ native' = IF native = "prompt" THEN "results" ELSE "none"
  /\ toShell' = IF native = "prompt" THEN Append(toShell, Text) ELSE toShell
  /\ UNCHANGED <<pending, userExecuting, editorVars, blockVars>>

HandleSendPrompt ==
  /\ IF native = "prompt"
     THEN Flush(pending, <<Text>>, active, due, "results")
     ELSE /\ native' = "none"
          /\ UNCHANGED <<pending, active, armed, due, blockVars, toShell>>
  /\ UNCHANGED <<userExecuting, zshPrecmd>>

(* CompletionsFinished takes the state, whichever it is.                   *)
HandleCompleted ==
  /\ native' = "none"
  /\ UNCHANGED <<pending, userExecuting, editorVars, blockVars, toShell>>

HandleEvent ==
  /\ events # <<>>
  /\ events' = Tail(events)
  /\ \/ Head(events) = "preexec" /\ HandlePreexec
     \/ Head(events) = "precmd" /\ HandlePrecmd
     \/ Head(events) = "endPrompt" /\ HandleEndPrompt
     \/ Head(events) = "userFinished" /\ HandleUserFinished
     \/ Head(events) = "sendPrompt" /\ HandleSendPrompt
     \/ Head(events) = "completed" /\ HandleCompleted
  /\ UNCHANGED <<executorVars, shell, generators, ran, inputVars>>

-----------------------------------------------------------------------------
(* The activation timer expires on a background thread, and its callback   *)
(* runs on the main thread: the line editor is active, the shell is asked  *)
(* for its input buffer, and the queue goes on.                            *)
TimerExpires ==
  /\ armed
  /\ armed' = FALSE /\ due' = due + 1
  /\ UNCHANGED <<active, zshPrecmd, queueVars, blockVars, shellVars,
                 events, executorVars, inputVars>>

BugMarkOnly ==
  /\ due > 0
  /\ active' = TRUE /\ due' = due - 1
  /\ UNCHANGED <<armed, zshPrecmd, queueVars, blockVars, shellVars,
                 events, executorVars, inputVars>>

MarkActive ==
  /\ due > 0
  /\ Flush(<<Report>> \o pending, <<>>, TRUE, due - 1, native)
  /\ UNCHANGED <<userExecuting, zshPrecmd, shell, generators, ran,
                 events, executorVars, inputVars>>

-----------------------------------------------------------------------------
(* The executor waits for one in-band command at a time.  It tells of one  *)
(* that is cancelled before it frees the place, which by then another may  *)
(* have, and a cancelled one may yet be sent (InBandExecutor has the       *)
(* details, TerminalInput puts it in the place of these three).            *)
Issue(c) ==
  /\ c \notin issued /\ waiting = {}
  /\ issued' = issued \cup {c} /\ waiting' = {c}
  /\ fromExecutor' = Append(fromExecutor, Execute(c))
  /\ UNCHANGED <<cancelled, queueVars, editorVars, blockVars, shellVars,
                 inputVars, events>>

SendCancel(c) ==
  /\ c \notin cancelled
  /\ cancelled' = cancelled \cup {c}
  /\ fromExecutor' = Append(fromExecutor, Cancel(c))
  /\ UNCHANGED <<issued, waiting, queueVars, editorVars, blockVars, shellVars,
                 inputVars, events>>

GiveUp ==
  /\ waiting # {} /\ cancelled # {}
  /\ waiting' = {}
  /\ UNCHANGED <<fromExecutor, issued, cancelled, queueVars, editorVars,
                 blockVars, shellVars, inputVars, events>>

(* queue_in_band_command: refused while a user command executes.           *)
BugSilentRefusal(c) ==
  IF userExecuting
  THEN UNCHANGED <<waiting, queueVars, editorVars, blockVars, toShell>>
  ELSE /\ Flush(Append(pending, InBandWrite(c)), <<>>, active, due, native)
       /\ UNCHANGED <<waiting, userExecuting, zshPrecmd>>

QueueInBand(c) ==
  IF userExecuting
  THEN /\ waiting' = waiting \ {c}
       /\ UNCHANGED <<queueVars, editorVars, blockVars, toShell>>
  ELSE /\ Flush(Append(pending, InBandWrite(c)), <<>>, active, due, native)
       /\ UNCHANGED <<waiting, userExecuting, zshPrecmd>>

(* cancel_in_band_command: only what is still queued can be taken back.    *)
CancelInBand(c) ==
  /\ pending' = Without(pending, InBandWrite(c))
  /\ UNCHANGED <<waiting, userExecuting, native, editorVars, blockVars,
                 toShell>>

HandleExecutor ==
  /\ fromExecutor # <<>>
  /\ fromExecutor' = Tail(fromExecutor)
  /\ LET m == Head(fromExecutor)
     IN \/ m.op = "execute" /\ QueueInBand(m.id)
        \/ m.op = "cancel" /\ CancelInBand(m.id)
  /\ UNCHANGED <<issued, cancelled, shell, generators, ran, inputVars, events>>

(* can_execute_command and the agent's own check (shell_command.rs) let a  *)
(* command through unless the active block has been running for 50 ms.  An *)
(* in-band block does not count for the first; the second exempts it only  *)
(* while it is younger than that, and otherwise refuses the command, which *)
(* changes nothing here.  Time is abstracted: a command that the shell has *)
(* not begun to run, or an in-band command, may be younger.                *)
MayExecute == ~blk.started \/ blk.inBand \/ shell.st # "run"

(* write_command.  The input of the user first makes the executor give up  *)
(* on its commands (cancel_active_commands); that of the agent does not.   *)
(* The active block is started and marked with the command, what is queued *)
(* is thrown away, and the command is written at once or queued alone.     *)
Submit(c) ==
  /\ ran[c] = NotRun /\ latest # c /\ MayExecute
  /\ \A w \in ToSet(pending \o toShell) : w # UserWrite(c)
  /\ latest' = c
  /\ waiting' = IF c \in Agent THEN waiting ELSE {}
  /\ blk' = [blk EXCEPT !.started = TRUE, !.owner = c]
  /\ userExecuting' = TRUE
  /\ IF CanWrite(active, native)
     THEN /\ pending' = <<>>
          /\ toShell' = Append(toShell, UserWrite(c))
          /\ SetInactive(due)
     ELSE /\ pending' = <<UserWrite(c)>>
          /\ UNCHANGED <<toShell, active, armed, due>>
  /\ UNCHANGED <<native, zshPrecmd, inFlight, shell, generators,
                 ran, events, fromExecutor, issued, cancelled, nRequests,
                 nTyped>>

(* run_native_shell_completions: at most one request is queued.            *)
RequestCompletions ==
  /\ nRequests < MaxRequests
  /\ nRequests' = nRequests + 1
  /\ Flush(Append(Without(pending, Completion), Completion), <<>>,
           active, due, native)
  /\ UNCHANGED <<userExecuting, zshPrecmd, shell, generators, ran,
                 events, executorVars, latest, nTyped>>

-----------------------------------------------------------------------------
(* The shell (external): app/assets/bundled/bootstrap/*_body.sh.           *)
(* The hooks are parsed by the terminal model, under its lock, before the  *)
(* main thread is told: Preexec starts a block that was not, and says if   *)
(* the block is in-band.                                                   *)
BeginCommand(kind, c) ==
  /\ shell' = Running(kind, c)
  /\ blk' = [blk EXCEPT !.inBand = kind = "inband", !.started = TRUE]
  /\ ran' = IF kind = "command"
            THEN [ran EXCEPT ![c] = IF blk.started THEN blk.owner ELSE None]
            ELSE ran
  /\ events' = Append(events, "preexec")
  /\ UNCHANGED <<inFlight, generators, queueVars, editorVars, executorVars>>

ShellReads(w) ==
  /\ toShell # <<>> /\ Head(toShell) = w
  /\ toShell' = Tail(toShell)

ShellExecutes(w) ==
  /\ shell.st = "edit" /\ IsCommand(w) /\ ShellReads(w)
  /\ BeginCommand(w.kind, w.id)
  /\ UNCHANGED inputVars

(* A command typed while another ran, and executed at the next prompt.     *)
ShellTyped ==
  /\ shell.st = "edit" /\ nTyped < MaxTyped
  /\ nTyped' = nTyped + 1
  /\ BeginCommand(Typed, None)
  /\ UNCHANGED <<toShell, latest, nRequests>>

(* Keys other than a command: the report, the completion key, and, where   *)
(* the shell waits for the text to complete, anything up to its EOT.       *)
ShellReadsKey(w) ==
  /\ ShellReads(w)
  /\ \/ /\ shell.st = "edit" /\ w \in {Report, Text}
        /\ UNCHANGED <<shell, events>>
     \/ /\ shell.st = "edit" /\ w = Completion
        /\ shell' = Idle("complete")
        /\ events' = Append(events, "sendPrompt")
     \/ /\ shell.st = "complete" /\ w = Text
        /\ shell' = Idle("edit")
        /\ events' = Append(events, "completed")
     \/ /\ shell.st = "complete" /\ w # Text
        /\ UNCHANGED <<shell, events>>
  /\ UNCHANGED <<generators, ran, blockVars, queueVars, editorVars,
                 executorVars, inputVars>>

(* A running program may read what was written; in-band commands do not.   *)
ProgramReads ==
  /\ shell.st = "run" /\ shell.kind # "inband" /\ toShell # <<>>
  /\ toShell' = Tail(toShell)
  /\ UNCHANGED <<shell, generators, ran, events, blockVars, queueVars,
                 editorVars, executorVars, inputVars>>

(* command_finished: an in-band block is no longer in flight.              *)
BugFinishAny == inFlight - 1
BugStaysInFlight == inFlight
InFlightAfterFinish ==
  IF blk.inBand /\ inFlight > 0 THEN inFlight - 1 ELSE inFlight

(* CommandFinished: the active block is finished and a new one made.  An   *)
(* in-band command goes on in the background and is told when it answers.  *)
ShellFinishes ==
  /\ shell.st = "run"
  /\ shell' = Idle("prompt")
  /\ blk' = FreshBlock
  /\ inFlight' = InFlightAfterFinish
  /\ events' = IF blk.inBand THEN events ELSE Append(events, "userFinished")
  /\ generators' = IF shell.kind = "inband" THEN generators \cup {shell.id}
                                            ELSE generators
  /\ UNCHANGED <<toShell, ran, queueVars, editorVars, executorVars, inputVars>>

ShellPrompts ==
  /\ shell.st = "prompt"
  /\ shell' = Idle("edit")
  /\ events' = events \o PromptHooks
  /\ UNCHANGED <<toShell, generators, ran, blockVars, queueVars, editorVars,
                 executorVars, inputVars>>

(* The preexec of another command kills a generator, which then answers    *)
(* with a failure.                                                         *)
GeneratorAnswers(c) ==
  /\ c \in generators
  /\ generators' = generators \ {c}
  /\ waiting' = waiting \ {c}
  /\ UNCHANGED <<toShell, shell, ran, events, blockVars, queueVars,
                 editorVars, fromExecutor, issued, cancelled, inputVars>>

-----------------------------------------------------------------------------
ShellSteps ==
  \/ \E w \in Writes : ShellExecutes(w) \/ ShellReadsKey(w)
  \/ ShellFinishes \/ ShellPrompts
  \/ \E c \in InBand : GeneratorAnswers(c)

Users ==
  \/ \E c \in InBand : Issue(c) \/ SendCancel(c)
  \/ GiveUp
  \/ \E c \in Cmds : Submit(c)
  \/ RequestCompletions \/ ShellTyped \/ ProgramReads

Next ==
  \/ HandleEvent \/ TimerExpires \/ MarkActive \/ HandleExecutor
  \/ ShellSteps \/ Users

(* The main thread gets round to every event, message and timer, and the   *)
(* shell to its input; a command ends.  Nobody has to submit anything.     *)
Fairness ==
  /\ WF_vars(HandleEvent) /\ WF_vars(TimerExpires) /\ WF_vars(MarkActive)
  /\ WF_vars(HandleExecutor) /\ WF_vars(ShellFinishes)
  /\ WF_vars(ShellPrompts)
  /\ WF_vars(\E w \in Writes : ShellExecutes(w) \/ ShellReadsKey(w))
  /\ \A c \in InBand : WF_vars(GeneratorAnswers(c))

Spec == Init /\ [][Next]_vars
FairSpec == Spec /\ Fairness

-----------------------------------------------------------------------------
(* A command typed ahead is run by the shell whatever the controller does, *)
(* and may read what was written for the shell: until there is one, ...    *)
NothingTyped == nTyped = 0

(* ... in_flight_in_band_command_count is what its comment (blocks.rs:299) *)
(* says: the in-band commands written whose block has not completed.       *)
InBandWritten == {c \in InBand : InBandWrite(c) \in ToSet(toShell)}
InFlightIsExact ==
  NothingTyped =>
    inFlight = Cardinality(InBandWritten)
                 + (IF shell.st = "run" /\ shell.kind = "inband" THEN 1 ELSE 0)

(* ... the shell and the main thread agree on who may write: of the        *)
(* commands of the user, the agent and the executor at most one has been   *)
(* written and not finished, so that none is typed into another            *)
(* (LineEditorStatus, execute_next_queued_write).                          *)
OneCommandAtATime ==
  NothingTyped =>
    \A i \in DOMAIN toShell :
      IsCommand(toShell[i]) =>
        /\ shell.st # "run"
        /\ \A j \in DOMAIN toShell : IsCommand(toShell[j]) => i = j

(* ... the executor waits only for a command somebody still has, unless it *)
(* cancelled it: whatever the controller refuses or throws away is made    *)
(* known to it (queue_in_band_command, cancel_active_commands).            *)
NobodyWaitsForDropped ==
  NothingTyped =>
    \A c \in waiting :
      \/ c \in cancelled
      \/ Execute(c) \in ToSet(fromExecutor)
      \/ InBandWrite(c) \in ToSet(pending \o toShell)
      \/ shell = Running("inband", c)
      \/ c \in generators

(* While the shell waits for the text to complete, the next it reads is    *)
(* that text: the controller has "exclusive control over pty writes"       *)
(* (pty_controller.rs:193).                                                *)
PromptIsExclusive ==
  shell.st = "complete" /\ toShell # <<>> => Head(toShell) = Text

(* A submitted command is run by the shell, unless another one took its    *)
(* place or a program typed ahead read it.                                 *)
SubmittedCommandRuns ==
  \A c \in Cmds :
    latest = c ~> ran[c] # NotRun \/ latest # c \/ ~NothingTyped

(* A command that could not be written at once "is written when the line   *)
(* editor becomes active" (write_command, pty_controller.rs:527); only a   *)
(* completion key that a program read keeps it in the queue.               *)
QueuedIsWritten ==
  \A c \in Cmds :
    UserWrite(c) \in ToSet(pending)
      ~> \/ UserWrite(c) \notin ToSet(pending)
         \/ ~NothingTyped /\ [](native = "prompt")

(* A command runs in the block that was started and marked for it          *)
(* (pty_controller.rs:541).                                                *)
CommandRunsInItsBlock == \A c \in Cmds : ran[c] \in {NotRun, c}
=============================================================================
