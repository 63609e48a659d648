------------------------- MODULE TerminalInputProofs -------------------------
(***************************************************************************)
(* Executor and controller, each in the place of the other's description   *)
(* of it: every step of TerminalInput is one of PtyController or leaves    *)
(* its variables alone, and the same for InBandExecutor.  What             *)
(* PtyControllerProofs and InBandExecutorProofs prove of their steps is    *)
(* used as it stands, through instances with TerminalInput's variables.    *)
(***************************************************************************)
EXTENDS TerminalInput, TLAPS, SequenceFacts

(* What is proved of the parts, as parts of the whole.                     *)
Ctl ==
  INSTANCE PtyCompletionProofs WITH
    Agent <- {}, MaxTyped <- 0, MaxRequests <- 0,
    pending <- writes, waiting <- Waiting, cancelled <- Cancelled

Exe ==
  INSTANCE InBandExecutorProofs WITH
    Commands <- InBand, pending <- queue,
    toController <- fromExecutor, downstream <- Downstream

(* Both instances of each module define the same.                          *)
LEMMA ControllerInit == Controller!Init <=> Ctl!Init
BY DEF Controller!Init, Ctl!Init, Controller!FreshBlock, Ctl!FreshBlock,
       Controller!PromptHooks, Ctl!PromptHooks, Controller!Idle, Ctl!Idle,
       Controller!NotRun, Ctl!NotRun

LEMMA ControllerNext ==
  /\ Controller!Next <=> Ctl!Next
  /\ UNCHANGED Controller!vars <=> UNCHANGED Ctl!vars
<1> USE DEF Controller!queueVars, Ctl!queueVars, Controller!blockVars,
            Ctl!blockVars, Controller!editorVars, Ctl!editorVars,
            Controller!executorVars, Ctl!executorVars, Controller!inputVars,
            Ctl!inputVars, Controller!shellVars, Ctl!shellVars,
            Controller!Write, Ctl!Write, Controller!Report, Ctl!Report,
            Controller!Text, Ctl!Text, Controller!Completion, Ctl!Completion,
            Controller!UserWrite, Ctl!UserWrite, Controller!InBandWrite,
            Ctl!InBandWrite, Controller!Idle, Ctl!Idle, Controller!Running,
            Ctl!Running, Controller!Execute, Ctl!Execute, Controller!Cancel,
            Ctl!Cancel, Controller!Typed, Ctl!Typed, Controller!NotRun,
            Ctl!NotRun, Controller!FreshBlock, Ctl!FreshBlock,
            Controller!PromptHooks, Ctl!PromptHooks, Controller!IsCommand,
            Ctl!IsCommand, Controller!SetInactive, Ctl!SetInactive,
            Controller!CanWrite, Ctl!CanWrite
<1>1. Controller!HandleEvent <=> Ctl!HandleEvent
  BY DEF Controller!HandleEvent, Ctl!HandleEvent, Controller!HandlePreexec,
       Ctl!HandlePreexec, Controller!HandlePrecmd, Ctl!HandlePrecmd,
       Controller!StartTimer, Ctl!StartTimer,
       Controller!MarkActiveAfterDelay, Ctl!MarkActiveAfterDelay,
       Controller!HandleEndPrompt, Ctl!HandleEndPrompt,
       Controller!HandleUserFinished, Ctl!HandleUserFinished,
       Controller!HandleSendPrompt, Ctl!HandleSendPrompt, Controller!Flush,
       Ctl!Flush, Controller!Batch, Ctl!Batch, Controller!Stops, Ctl!Stops,
       Controller!StopsTheQueue, Ctl!StopsTheQueue, Controller!WriteEffects,
       Ctl!WriteEffects, Controller!HandleCompleted, Ctl!HandleCompleted,
       Controller!Min, Ctl!Min, Controller!Last, Ctl!Last
<1>2. Controller!TimerExpires <=> Ctl!TimerExpires
  BY DEF Controller!TimerExpires, Ctl!TimerExpires
<1>3. Controller!MarkActive <=> Ctl!MarkActive
  BY DEF Controller!MarkActive, Ctl!MarkActive, Controller!Flush, Ctl!Flush,
       Controller!Batch, Ctl!Batch, Controller!Stops, Ctl!Stops,
       Controller!StopsTheQueue, Ctl!StopsTheQueue, Controller!WriteEffects,
       Ctl!WriteEffects, Controller!Min, Ctl!Min, Controller!Last, Ctl!Last
<1>4. Controller!HandleExecutor <=> Ctl!HandleExecutor
  BY DEF Controller!HandleExecutor, Ctl!HandleExecutor, Controller!QueueInBand,
       Ctl!QueueInBand, Controller!Flush, Ctl!Flush, Controller!Batch,
       Ctl!Batch, Controller!Stops, Ctl!Stops, Controller!StopsTheQueue,
       Ctl!StopsTheQueue, Controller!WriteEffects, Ctl!WriteEffects,
       Controller!CancelInBand, Ctl!CancelInBand, Controller!Without,
       Ctl!Without, Controller!Min, Ctl!Min, Controller!Last, Ctl!Last,
       Controller!ToSet, Ctl!ToSet, Controller!RemoveAt, Ctl!RemoveAt
<1>5. Controller!RequestCompletions <=> Ctl!RequestCompletions
  BY DEF Controller!RequestCompletions, Ctl!RequestCompletions,
       Controller!Flush, Ctl!Flush, Controller!Batch, Ctl!Batch,
       Controller!Stops, Ctl!Stops, Controller!StopsTheQueue,
       Ctl!StopsTheQueue, Controller!WriteEffects, Ctl!WriteEffects,
       Controller!Without, Ctl!Without, Controller!Min, Ctl!Min,
       Controller!Last, Ctl!Last, Controller!ToSet, Ctl!ToSet,
       Controller!RemoveAt, Ctl!RemoveAt
<1>6. Controller!ShellFinishes <=> Ctl!ShellFinishes
  BY DEF Controller!ShellFinishes, Ctl!ShellFinishes,
       Controller!InFlightAfterFinish, Ctl!InFlightAfterFinish
<1>7. Controller!ShellPrompts <=> Ctl!ShellPrompts
  BY DEF Controller!ShellPrompts, Ctl!ShellPrompts
<1>8. Controller!ProgramReads <=> Ctl!ProgramReads
  BY DEF Controller!ProgramReads, Ctl!ProgramReads
<1>9. Controller!ShellTyped <=> Ctl!ShellTyped
  BY DEF Controller!ShellTyped, Ctl!ShellTyped, Controller!BeginCommand,
       Ctl!BeginCommand
<1>10. Controller!GiveUp <=> Ctl!GiveUp
  BY DEF Controller!GiveUp, Ctl!GiveUp
<1>11. \A c : Controller!Issue(c) <=> Ctl!Issue(c)
  BY DEF Controller!Issue, Ctl!Issue
<1>12. \A c : Controller!SendCancel(c) <=> Ctl!SendCancel(c)
  BY DEF Controller!SendCancel, Ctl!SendCancel
<1>13. \A c : Controller!GeneratorAnswers(c) <=> Ctl!GeneratorAnswers(c)
  BY DEF Controller!GeneratorAnswers, Ctl!GeneratorAnswers
<1>14. \A c : Controller!Submit(c) <=> Ctl!Submit(c)
  BY DEF Controller!Submit, Ctl!Submit, Controller!MayExecute, Ctl!MayExecute,
       Controller!ToSet, Ctl!ToSet
<1>15. \A c : Controller!ShellExecutes(c) <=> Ctl!ShellExecutes(c)
  BY DEF Controller!ShellExecutes, Ctl!ShellExecutes, Controller!ShellReads,
       Ctl!ShellReads, Controller!BeginCommand, Ctl!BeginCommand
<1>16. \A c : Controller!ShellReadsKey(c) <=> Ctl!ShellReadsKey(c)
  BY DEF Controller!ShellReadsKey, Ctl!ShellReadsKey, Controller!ShellReads,
       Ctl!ShellReads
<1>17. Controller!Writes = Ctl!Writes
  BY DEF Controller!Writes, Ctl!Writes
<1>18. Controller!Next <=> Ctl!Next
  BY <1>1, <1>2, <1>3, <1>4, <1>5, <1>6, <1>7, <1>8, <1>9, <1>10, <1>11,
     <1>12, <1>13, <1>14, <1>15, <1>16, <1>17
     DEF Controller!Next, Ctl!Next, Controller!ShellSteps, Ctl!ShellSteps,
         Controller!Users, Ctl!Users
<1>19. UNCHANGED Controller!vars <=> UNCHANGED Ctl!vars
  BY DEF Controller!vars, Ctl!vars
<1>20. QED
  BY <1>18, <1>19

LEMMA ControllerTypes == Ctl!TypeOK => Controller!TypeOK
BY DEF Controller!TypeOK, Ctl!TypeOK, Controller!Writes, Ctl!Writes,
       Controller!Report, Ctl!Report, Controller!Write, Ctl!Write,
       Controller!Completion, Ctl!Completion, Controller!Text, Ctl!Text,
       Controller!UserWrite, Ctl!UserWrite, Controller!InBandWrite,
       Ctl!InBandWrite, Controller!Blocks, Ctl!Blocks, Controller!Hooks,
       Ctl!Hooks, Controller!Shells, Ctl!Shells, Controller!Idle, Ctl!Idle,
       Controller!Running, Ctl!Running, Controller!Typed, Ctl!Typed,
       Controller!NotRun, Ctl!NotRun

LEMMA ExecutorNext ==
  /\ Executor!Init <=> Exe!Init
  /\ Executor!Next <=> Exe!Next
  /\ UNCHANGED Executor!vars <=> UNCHANGED Exe!vars
<1> USE DEF Executor!Execute, Exe!Execute, Executor!Cancel, Exe!Cancel
<1>1. Executor!Main <=> Exe!Main
  BY DEF Executor!Main, Exe!Main, Executor!HandleExecuted, Exe!HandleExecuted,
       Executor!TakeIfOwn, Exe!TakeIfOwn, Executor!Answer, Exe!Answer,
       Executor!HandleRefused, Exe!HandleRefused, Executor!MainExecute,
       Exe!MainExecute, Executor!ExecuteInternal, Exe!ExecuteInternal,
       Executor!UserCommand, Exe!UserCommand, Executor!ClearAll, Exe!ClearAll
<1>2. Executor!Environment <=> Exe!Environment
  BY DEF Executor!Environment, Exe!Environment, Executor!ControllerExecute,
       Exe!ControllerExecute, Executor!ControllerCancel,
       Exe!ControllerCancel, Executor!ShellAnswers, Exe!ShellAnswers
<1>3. \A c : Executor!Task(c) <=> Exe!Task(c)
  BY DEF Executor!Task, Exe!Task, Executor!Enqueue, Exe!Enqueue,
       Executor!ThreadExecute, Exe!ThreadExecute, Executor!ExecuteInternal,
       Exe!ExecuteInternal, Executor!Receive, Exe!Receive,
       Executor!ReceiveError, Exe!ReceiveError, Executor!Holds, Exe!Holds,
       Executor!Drop, Exe!Drop, Executor!CheckRunning, Exe!CheckRunning,
       Executor!TakeRunning, Exe!TakeRunning, Executor!RetainPending,
       Exe!RetainPending, Executor!Without, Exe!Without,
       Executor!AfterRetain, Exe!AfterRetain, Executor!ToSet, Exe!ToSet,
       Executor!RemoveAt, Exe!RemoveAt
<1>4. QED
  BY <1>1, <1>2, <1>3 DEF Executor!Next, Exe!Next, Executor!Init, Exe!Init,
                          Executor!vars, Exe!vars

LEMMA ExecutorTypes == Exe!TypeOK => Executor!TypeOK
BY DEF Executor!TypeOK, Exe!TypeOK, Executor!FutStates, Exe!FutStates,
       Executor!ThreadStates, Exe!ThreadStates, Executor!Events, Exe!Events
-----------------------------------------------------------------------------
(* Where an in-band command can be: under way to the controller, in its    *)
(* queue or written, begun by the shell, at work in its background.        *)
Lane == toShell \o writes
Sent(c) == Executor!Execute(c) \in ToSet(fromExecutor)
InLane(c) == Controller!InBandWrite(c) \in ToSet(Lane)
Runs(c) == shell = Controller!Running("inband", c)

(* It is in one of these places, once.                                     *)
OnePlace ==
  \A c \in InBand :
    /\ Once(fromExecutor, Executor!Execute(c))
    /\ Once(Lane, Controller!InBandWrite(c))
    /\ Sent(c) => ~InLane(c) /\ ~Runs(c) /\ c \notin generators
    /\ InLane(c) => ~Runs(c) /\ c \notin generators
    /\ Runs(c) => c \notin generators

(* It has been issued if it runs, is anywhere, or was answered; ...        *)
Seen(c) ==
  \/ running = c \/ Sent(c) \/ InLane(c) \/ Runs(c) \/ c \in generators
  \/ c \in ToSet(executed) \/ c \in ToSet(refused)
AllIssued == \A c \in InBand : Seen(c) => c \in issued

(* ... one that is queued has not, and is queued once, when its future was *)
(* first polled; only the thread that drops a future cancels a command.    *)
Submitted ==
  \A c \in InBand :
    /\ Once(queue, c)
    /\ c \in ToSet(queue) => c \notin issued /\ fut[c] # "new"
    /\ c \in issued => fut[c] # "new"
    /\ thread[c] \in {"check", "take"} => fut[c] = "dropped"

(* Nobody requests completions, so nobody waits for their text.            *)
NoCompletions ==
  Controller!Completion \notin ToSet(Lane) /\ shell.st # "complete"

Inv ==
  /\ Ctl!TypeOK /\ Ctl!TurnKept /\ Exe!TypeOK
  /\ OnePlace /\ AllIssued /\ Submitted /\ NoCompletions

-----------------------------------------------------------------------------
(* The executor as a user of the controller.                               *)
LEMMA TypesOf ==
  ASSUME Inv
  PROVE  /\ running \in InBand \cup {None} /\ queue \in Seq(InBand)
         /\ fut \in [InBand -> Executor!FutStates]
         /\ thread \in [InBand -> Executor!ThreadStates]
         /\ fromExecutor \in Seq(Executor!Events)
         /\ executed \in Seq(InBand) /\ refused \in Seq(InBand)
         /\ writes \in Seq(Controller!Writes)
         /\ toShell \in Seq(Controller!Writes)
         /\ shell \in Controller!Shells /\ generators \in SUBSET InBand
<1>1. Executor!TypeOK /\ Controller!TypeOK
  BY ExecutorTypes, ControllerTypes DEF Inv
<1>2. writes \in Seq(Controller!Writes \ {Controller!Text})
  BY <1>1 DEF Controller!TypeOK
<1>3. writes \in Seq(Controller!Writes)
  BY <1>2, SeqMonotonic
<1>4. QED
  BY <1>1, <1>3 DEF Executor!TypeOK, Controller!TypeOK

(* To the controller it is one command that waits, and what it has sent.   *)
LEMMA Unseen ==
  ASSUME Waiting' = Waiting, Cancelled' = Cancelled,
         UNCHANGED <<controllerVars, fromExecutor, issued>>
  PROVE  UNCHANGED Controller!vars
BY DEF controllerVars, Controller!vars, Controller!queueVars,
       Controller!editorVars, Controller!blockVars, Controller!shellVars,
       Controller!executorVars, Controller!inputVars

LEMMA AnswerControls ==
  ASSUME Inv, HandleExecuted \/ HandleRefused
  PROVE  UNCHANGED Controller!vars
<1>1. /\ UNCHANGED <<controllerVars, fromExecutor, fut>>
      /\ issued' = issued \cup ({running'} \ {running, None})
  BY DEF HandleExecuted, HandleRefused, ExecutorStep, NoteIssued,
         Executor!HandleExecuted, Executor!HandleRefused
<1>2. executed \in Seq(InBand) /\ refused \in Seq(InBand)
  BY TypesOf
<1>3. PICK id :
        /\ id \in ToSet(executed) \cup ToSet(refused)
        /\ running' = IF running = id THEN None ELSE running
        /\ executed' \in Seq(InBand) /\ refused' \in Seq(InBand)
        /\ ToSet(executed) \cup ToSet(refused)
             = ToSet(executed') \cup ToSet(refused') \cup {id}
  <2>1. CASE HandleExecuted
    <3>1. /\ executed # <<>> /\ executed' = Tail(executed) /\ refused' = refused
          /\ running' = IF running = Head(executed) THEN None ELSE running
      BY <2>1 DEF HandleExecuted, ExecutorStep, Executor!HandleExecuted,
                  Executor!TakeIfOwn
    <3>2. QED
      BY <3>1, <1>2, TailOnce
  <2>2. CASE HandleRefused
    <3>1. /\ refused # <<>> /\ refused' = Tail(refused) /\ executed' = executed
          /\ running' = IF running = Head(refused) THEN None ELSE running
      BY <2>2 DEF HandleRefused, ExecutorStep, Executor!HandleRefused
    <3>2. QED
      BY <3>1, <1>2, TailOnce
  <2>3. QED
    BY <2>1, <2>2
<1>4. issued' = issued
  BY <1>1, <1>3
<1>5. /\ ToSet(executed \o refused) = ToSet(executed) \cup ToSet(refused)
      /\ ToSet(executed' \o refused') = ToSet(executed') \cup ToSet(refused')
  BY <1>2, <1>3, JoinedOnce
<1>6. Waiting' = Waiting
  <2>1. /\ Waiting = ({running} \cap InBand) \ (ToSet(executed) \cup ToSet(refused))
        /\ Waiting' = ({running'} \cap InBand) \ (ToSet(executed') \cup ToSet(refused'))
    BY <1>5 DEF Waiting
  <2>2. None \notin InBand
    BY ConstantsAssumption
  <2>3. CASE running = id
    BY <2>1, <2>2, <2>3, <1>3
  <2>4. CASE running # id
    BY <2>1, <2>4, <1>3
  <2>5. QED
    BY <2>3, <2>4
<1>7. QED
  BY <1>1, <1>4, <1>6, Unseen DEF Cancelled

(* execute_command_internal issues a command that nobody waits for.        *)
LEMMA ExecuteControls ==
  ASSUME Inv, Executor!ExecuteInternal, NoteIssued,
         UNCHANGED <<controllerVars, executed, refused>>, Cancelled' = Cancelled
  PROVE  (\E c \in InBand : Controller!Issue(c)) \/ UNCHANGED Controller!vars
<1>1. CASE running = None /\ queue # <<>>
  <2> DEFINE c == Head(queue)
  <2>1. /\ running' = c /\ fromExecutor' = Append(fromExecutor, Executor!Execute(c))
    BY <1>1 DEF Executor!ExecuteInternal
  <2>2. c \in InBand /\ c \in ToSet(queue)
    BY <1>1, TypesOf, TailOnce
  <2> HIDE DEF c
  <2>3. /\ c \notin issued
        /\ c \notin ToSet(executed) /\ c \notin ToSet(refused)
    BY <2>2 DEF Inv, Submitted, AllIssued, Seen
  <2>4. None \notin InBand
    BY ConstantsAssumption
  <2>5. issued' = issued \cup {c}
    BY <1>1, <2>1, <2>2, <2>4 DEF NoteIssued
  <2>6. Waiting = {} /\ Waiting' = {c}
    <3>1. ToSet(executed \o refused) = ToSet(executed) \cup ToSet(refused)
      BY TypesOf, JoinedOnce
    <3>2. Waiting' = ({c} \cap InBand) \ ToSet(executed \o refused)
      BY <2>1 DEF Waiting
    <3>3. Waiting' = {c}
      BY <3>1, <3>2, <2>2, <2>3
    <3>4. QED
      BY <3>3, <1>1, <2>4 DEF Waiting
  <2>7. Controller!Issue(c)
    BY <2>1, <2>3, <2>5, <2>6
       DEF Controller!Issue, controllerVars, Controller!queueVars,
           Controller!editorVars, Controller!blockVars, Controller!shellVars,
           Controller!inputVars, Executor!Execute, Controller!Execute
  <2>8. QED
    BY <2>2, <2>7
<1>2. CASE ~(running = None /\ queue # <<>>)
  <2>1. UNCHANGED <<running, fromExecutor>>
    BY <1>2 DEF Executor!ExecuteInternal
  <2>2. issued' = issued /\ Waiting' = Waiting
    BY <2>1 DEF NoteIssued, Waiting
  <2>3. QED
    BY <2>1, <2>2, Unseen
<1>3. QED
  BY <1>1, <1>2

LEMMA TaskControls ==
  ASSUME Inv, NEW c \in InBand, Task(c)
  PROVE  \/ \E d \in InBand : Controller!Issue(d) \/ Controller!SendCancel(d)
         \/ Controller!GiveUp \/ UNCHANGED Controller!vars
<1>1. Executor!Task(c) /\ NoteIssued /\ UNCHANGED controllerVars
  BY DEF Task, ExecutorStep
<1>2. fut \in [InBand -> Executor!FutStates]
  BY TypesOf
<1>3. running' = running => issued' = issued
  BY <1>1 DEF NoteIssued
<1>4. CASE Executor!ThreadExecute(c)
  <2>1. /\ Executor!ExecuteInternal /\ UNCHANGED <<executed, refused, fut>>
    BY <1>4 DEF Executor!ThreadExecute
  <2>2. QED
    BY <2>1, <1>1, ExecuteControls DEF Cancelled
<1>5. CASE Executor!Drop(c)
  <2>1. /\ fut[c] = "waiting" /\ fut' = [fut EXCEPT ![c] = "dropped"]
        /\ fromExecutor' = Append(fromExecutor, Executor!Cancel(c))
        /\ UNCHANGED <<running, executed, refused>>
    BY <1>5 DEF Executor!Drop
  <2>2. c \notin Cancelled /\ Cancelled' = Cancelled \cup {c}
    BY <2>1, <1>2 DEF Cancelled
  <2>3. Waiting' = Waiting /\ issued' = issued
    BY <2>1, <1>3 DEF Waiting
  <2>4. Controller!SendCancel(c)
    BY <2>1, <2>2, <2>3, <1>1
       DEF Controller!SendCancel, controllerVars, Controller!queueVars,
           Controller!editorVars, Controller!blockVars, Controller!shellVars,
           Controller!inputVars, Executor!Cancel, Controller!Cancel
  <2>5. QED
    BY <2>4
<1>6. CASE Executor!TakeRunning(c)
  <2>1. /\ thread[c] = "take" /\ running' = None
        /\ UNCHANGED <<fut, fromExecutor, executed, refused>>
    BY <1>6 DEF Executor!TakeRunning
  <2>2. c \in Cancelled /\ Cancelled' = Cancelled
    BY <2>1 DEF Inv, Submitted, Cancelled
  <2>3. Waiting' = {} /\ issued' = issued
    BY <2>1, <1>1, ConstantsAssumption DEF Waiting, NoteIssued
  <2>4. CASE Waiting = {}
    BY <2>1, <2>2, <2>3, <2>4, <1>1, Unseen
  <2>5. CASE Waiting # {}
    BY <2>1, <2>2, <2>3, <2>5, <1>1
       DEF Controller!GiveUp, controllerVars, Controller!queueVars,
           Controller!editorVars, Controller!blockVars, Controller!shellVars,
           Controller!inputVars
  <2>6. QED
    BY <2>4, <2>5
<1>7. CASE \/ Executor!Enqueue(c) \/ Executor!Receive(c) \/ Executor!ReceiveError(c)
           \/ Executor!CheckRunning(c) \/ Executor!RetainPending(c)
  <2>1. /\ UNCHANGED <<running, fromExecutor, executed, refused>>
        /\ \/ fut' = fut
           \/ /\ fut[c] \in {"new", "waiting"}
              /\ \E f \in {"waiting", "done", "failed"} : fut' = [fut EXCEPT ![c] = f]
    BY <1>7 DEF Executor!Enqueue, Executor!Receive, Executor!ReceiveError,
                Executor!CheckRunning, Executor!RetainPending
  <2>2. Cancelled' = Cancelled
    BY <2>1, <1>2 DEF Cancelled
  <2>3. QED
    BY <2>1, <2>2, <1>1, <1>3, Unseen DEF Waiting
<1>8. QED
  BY <1>1, <1>4, <1>5, <1>6, <1>7 DEF Executor!Task

(* Every step of the whole is one of the controller and the shell, one     *)
(* they expect of their users, or none of theirs.                          *)
LEMMA ControllerStep == Inv /\ [Next]_vars => [Controller!Next]_(Controller!vars)
<1> SUFFICES ASSUME Inv, [Next]_vars PROVE [Controller!Next]_(Controller!vars)
  OBVIOUS
<1>1. CASE HandleExecuted \/ HandleRefused
  BY <1>1, AnswerControls
<1>2. CASE MainExecute
  <2>1. /\ Executor!ExecuteInternal /\ NoteIssued
        /\ UNCHANGED <<controllerVars, executed, refused, fut>>
    BY <1>2 DEF MainExecute, ExecutorStep, Executor!MainExecute
  <2>2. (\E c \in InBand : Controller!Issue(c)) \/ UNCHANGED Controller!vars
    BY <2>1, ExecuteControls DEF Cancelled
  <2>3. QED
    BY <2>2 DEF Controller!Next, Controller!Users
<1>3. ASSUME NEW c \in InBand, Task(c)
      PROVE  [Controller!Next]_(Controller!vars)
  BY <1>3, TaskControls DEF Controller!Next, Controller!Users
<1>4. ASSUME NEW c \in InBand, GeneratorAnswers(c)
      PROVE  Controller!Next
  BY <1>4 DEF GeneratorAnswers, Controller!Next, Controller!ShellSteps
<1>5. CASE ControllerTakes
  BY <1>5 DEF ControllerTakes, Controller!Next
<1>6. CASE MainStep
  BY <1>6 DEF MainStep, Controller!Next
<1>7. CASE ShellReads
  BY <1>7 DEF ShellReads, Controller!Next, Controller!ShellSteps
<1>8. CASE OtherStep
  BY <1>8 DEF OtherStep, Controller!Next, Controller!ShellSteps, Controller!Users
<1>9. ASSUME NEW c \in Cmds, Submit(c)
      PROVE  Controller!Next
  BY <1>9 DEF Submit, Controller!Next, Controller!Users
<1>10. CASE UNCHANGED vars
  BY <1>10, Unseen DEF vars, executorVars, taskVars, Waiting, Cancelled
<1>11. QED
  BY <1>1, <1>2, <1>3, <1>4, <1>5, <1>6, <1>7, <1>8, <1>9, <1>10 DEF Next

-----------------------------------------------------------------------------
(* The lane: what is written and not read, and what is queued, in order.   *)
LEMMA CtlAssumption == Ctl!ConstantsAssumption
BY ConstantsAssumption DEF Ctl!ConstantsAssumption

(* A flush leaves the lane as it would be with the text and the queue      *)
(* behind what was written, wherever the batch ends.                       *)
LEMMA FlushLane ==
  ASSUME NEW S, toShell \in Seq(S), NEW q \in Seq(S), NEW text \in Seq(S),
         NEW act, NEW expired, NEW nat,
         Controller!Flush(q, text, act, expired, nat)
  PROVE  /\ ToSet(Lane') = ToSet(toShell) \cup ToSet(text) \cup ToSet(q)
         /\ \A e : /\ Once(toShell, e) /\ Once(text, e) /\ Once(q, e)
                   /\ ~(e \in ToSet(toShell) /\ e \in ToSet(q))
                   /\ ~(e \in ToSet(toShell) /\ e \in ToSet(text))
                   /\ ~(e \in ToSet(text) /\ e \in ToSet(q))
                   => Once(Lane', e)
<1> DEFINE batch == IF Controller!CanWrite(act, nat) THEN Controller!Batch(q) ELSE <<>>
           front == toShell \o text
<1>1. /\ writes' = SubSeq(q, Len(batch) + 1, Len(q))
      /\ toShell' = front \o batch
  BY DEF Controller!Flush
<1>2. Len(q) \in Nat /\ \A i \in 1..Len(q) : q[i] \in S
  BY LenProperties, ElementOfSeq
<1>3. \E n \in 0..Len(q) : Controller!Batch(q) = SubSeq(q, 1, n)
  <2>1. Controller!Batch(q) = Ctl!Batch(q)
    BY DEF Controller!Batch, Ctl!Batch, Controller!Stops, Ctl!Stops,
           Controller!StopsTheQueue, Ctl!StopsTheQueue, Controller!IsCommand,
           Ctl!IsCommand, Controller!Min, Ctl!Min
  <2>2. QED
    BY <2>1, CtlAssumption, Ctl!BatchPrefix
<1>4. PICK k \in 0..Len(q) : batch = SubSeq(q, 1, k)
  <2>1. SubSeq(q, 1, 0) = <<>> /\ 0 \in 0..Len(q)
    BY <1>2, SubSeqEmpty
  <2>2. QED
    BY <2>1, <1>3
<1> HIDE DEF batch
<1>5. Len(batch) = k
  <2>1. \A i \in 1..k : q[i] \in S
    BY <1>2
  <2>2. 1 \in Int /\ k \in Int /\ k - 1 + 1 = k
    BY <1>2
  <2>3. Len(SubSeq(q, 1, k)) = IF 1 <= k THEN k - 1 + 1 ELSE 0
    BY <2>1, <2>2, SubSeqProperties
  <2>4. QED
    BY <1>2, <1>4, <2>3
<1>6. /\ front \in Seq(S)
      /\ ToSet(front) = ToSet(toShell) \cup ToSet(text)
      /\ \A e : Once(front, e) <=> /\ Once(toShell, e) /\ Once(text, e)
                                   /\ ~(e \in ToSet(toShell) /\ e \in ToSet(text))
  BY JoinedOnce
<1> HIDE DEF front
<1>7. Lane' = front \o q
  <2>1. (front \o SubSeq(q, 1, k)) \o SubSeq(q, k + 1, Len(q)) = front \o q
    BY <1>6, CutAnywhere
  <2>2. QED
    BY <2>1, <1>1, <1>4, <1>5 DEF Lane
<1>8. /\ ToSet(front \o q) = ToSet(front) \cup ToSet(q)
      /\ \A e : Once(front \o q, e) <=> /\ Once(front, e) /\ Once(q, e)
                                        /\ ~(e \in ToSet(front) /\ e \in ToSet(q))
  BY <1>6, JoinedOnce
<1>9. ToSet(Lane') = ToSet(toShell) \cup ToSet(text) \cup ToSet(q)
  BY <1>6, <1>7, <1>8
<1>10. ASSUME NEW e, Once(toShell, e), Once(text, e), Once(q, e),
              ~(e \in ToSet(toShell) /\ e \in ToSet(q)),
              ~(e \in ToSet(toShell) /\ e \in ToSet(text)),
              ~(e \in ToSet(text) /\ e \in ToSet(q))
       PROVE  Once(Lane', e)
  BY <1>6, <1>7, <1>8, <1>10
<1>11. QED
  BY <1>9, <1>10

LEMMA LaneIs ==
  ASSUME Inv
  PROVE  /\ ToSet(Lane) = ToSet(toShell) \cup ToSet(writes)
         /\ \A e : Once(Lane, e)
                     <=> /\ Once(toShell, e) /\ Once(writes, e)
                         /\ ~(e \in ToSet(toShell) /\ e \in ToSet(writes))
BY TypesOf, JoinedOnce DEF Lane

(* The shell reads the head of the lane.                                   *)
LEMMA ReadLane ==
  ASSUME Inv, toShell # <<>>, toShell' = Tail(toShell), writes' = writes
  PROVE  /\ ToSet(Lane) = {Head(toShell)} \cup ToSet(Lane')
         /\ \A e : Once(Lane, e)
                     => Once(Lane', e) /\ (e = Head(toShell) => e \notin ToSet(Lane'))
<1> DEFINE W == Controller!Writes
           h == Head(toShell)
           t == Tail(toShell)
<1>1. writes \in Seq(W) /\ toShell \in Seq(W)
  BY TypesOf
<1> HIDE DEF W
<1>2. h \in W /\ t \in Seq(W) /\ toShell = <<h>> \o t
  BY <1>1
<1>3. Lane' = t \o writes
  BY DEF Lane
<1> HIDE DEF h, t
<1>4. Lane = <<h>> \o Lane'
  <2>1. <<h>> \in Seq(W)
    BY <1>2, OneOnce
  <2>2. (<<h>> \o t) \o writes = <<h>> \o (t \o writes)
    BY <2>1, <1>1, <1>2, ConcatAssociative
  <2>3. QED
    BY <2>2, <1>2, <1>3 DEF Lane
<1>5. Lane' \in Seq(W)
  BY <1>1, <1>2, <1>3, JoinedOnce
<1> DEFINE r == Lane'
<1>6. r \in Seq(W) /\ Lane = <<h>> \o r
  BY <1>4, <1>5
<1> HIDE DEF r
<1>7. /\ ToSet(<<h>> \o r) = {h} \cup ToSet(r)
      /\ \A e : Once(<<h>> \o r, e) <=> Once(r, e) /\ (e = h => e \notin ToSet(r))
  BY <1>2, <1>6, FirstOnce
<1>8. QED
  BY <1>6, <1>7 DEF r, h

(* What the places and completions are about stays in the lane.            *)
Tracked == {Controller!InBandWrite(c) : c \in InBand} \cup {Controller!Completion}
LaneKept ==
  \A e \in Tracked : /\ e \in ToSet(Lane') <=> e \in ToSet(Lane)
                     /\ Once(Lane, e) => Once(Lane', e)

LEMMA WriteKinds ==
  /\ Controller!Report \in Controller!Writes /\ Controller!Text \in Controller!Writes
  /\ Controller!Report \notin Tracked /\ Controller!Text \notin Tracked
  /\ \A c : Controller!UserWrite(c) \notin Tracked
  /\ \A c \in Cmds : Controller!UserWrite(c) \in Controller!Writes
  /\ \A c \in InBand : /\ Controller!InBandWrite(c) \in Controller!Writes \cap Tracked
                       /\ Controller!InBandWrite(c) # Controller!Completion
                       /\ Controller!InBandWrite(c).kind = "inband"
                       /\ Controller!InBandWrite(c).id = c
                       /\ Controller!IsCommand(Controller!InBandWrite(c))
                       /\ \A d \in InBand : Controller!InBandWrite(c)
                                              = Controller!InBandWrite(d) => c = d
  /\ \A w \in Controller!Writes : w.kind = "inband"
       => w.id \in InBand /\ w = Controller!InBandWrite(w.id)
  /\ ~Controller!IsCommand(Controller!Completion)
<1> USE DEF Controller!Report, Controller!Text, Controller!Completion,
            Controller!UserWrite, Controller!InBandWrite, Controller!Write,
            Controller!Writes, Controller!IsCommand, Tracked
<1>1. /\ Controller!Report \in Controller!Writes /\ Controller!Text \in Controller!Writes
      /\ Controller!Report \notin Tracked /\ Controller!Text \notin Tracked
      /\ ~Controller!IsCommand(Controller!Completion)
  OBVIOUS
<1>2. /\ \A c : Controller!UserWrite(c) \notin Tracked
      /\ \A c \in Cmds : Controller!UserWrite(c) \in Controller!Writes
  OBVIOUS
<1>3. \A c \in InBand :
        /\ Controller!InBandWrite(c) \in Controller!Writes
        /\ Controller!InBandWrite(c) \in Tracked
        /\ Controller!InBandWrite(c) # Controller!Completion
        /\ Controller!InBandWrite(c).kind = "inband"
        /\ Controller!InBandWrite(c).id = c
        /\ Controller!IsCommand(Controller!InBandWrite(c))
  OBVIOUS
<1>4. \A c, d \in InBand : Controller!InBandWrite(c) = Controller!InBandWrite(d) => c = d
  OBVIOUS
<1>5. \A w \in Controller!Writes : w.kind = "inband"
        => w.id \in InBand /\ w = Controller!InBandWrite(w.id)
  OBVIOUS
<1>6. QED
  BY <1>1, <1>2, <1>3, <1>4, <1>5

-----------------------------------------------------------------------------
(* The controller and the shell as the executor's environment.             *)
LEMMA DownstreamIs ==
  ASSUME Inv, Ctl!TypeOK'
  PROVE  /\ Downstream = {c \in InBand : InLane(c) \/ Runs(c) \/ c \in generators}
         /\ Downstream' = {c \in InBand : InLane(c)' \/ Runs(c)' \/ c \in generators'}
<1>1. /\ writes \in Seq(Controller!Writes) /\ toShell \in Seq(Controller!Writes)
  BY TypesOf
<1>2. writes' \in Seq(Controller!Writes) /\ toShell' \in Seq(Controller!Writes)
  <2>1. Controller!TypeOK'
    BY ControllerTypes, PTL
  <2>2. /\ writes' \in Seq(Controller!Writes \ {Controller!Text})
        /\ toShell' \in Seq(Controller!Writes)
    BY <2>1 DEF Controller!TypeOK, Controller!Writes, Controller!Report,
                Controller!Completion, Controller!Text, Controller!Write,
                Controller!UserWrite, Controller!InBandWrite
  <2>3. QED
    BY <2>2, SeqMonotonic
<1>3. /\ ToSet(toShell \o writes) = ToSet(toShell) \cup ToSet(writes)
      /\ ToSet(writes \o toShell) = ToSet(toShell) \cup ToSet(writes)
  BY <1>1, JoinedOnce
<1>4. /\ ToSet(toShell' \o writes') = ToSet(toShell') \cup ToSet(writes')
      /\ ToSet(writes' \o toShell') = ToSet(toShell') \cup ToSet(writes')
  BY <1>2, JoinedOnce
<1>5. Downstream = {c \in InBand : InLane(c) \/ Runs(c) \/ c \in generators}
  BY <1>3 DEF Downstream, InLane, Runs, Lane
<1>6. Downstream' = {c \in InBand : InLane(c)' \/ Runs(c)' \/ c \in generators'}
  BY <1>4 DEF Downstream, InLane, Runs, Lane
<1>7. QED
  BY <1>5, <1>6

(* A step that leaves every in-band command in its place, or has the shell *)
(* put one that it ran in its background.                                  *)
LEMMA QuietPlaces ==
  ASSUME Inv, Ctl!TypeOK', LaneKept,
         UNCHANGED <<executorVars, fromExecutor, issued>>,
         \A c \in InBand : /\ Runs(c)' => Runs(c)
                           /\ c \in generators'
                                <=> c \in generators \/ (Runs(c) /\ ~Runs(c)'),
         shell'.st # "complete"
  PROVE  /\ OnePlace' /\ AllIssued' /\ Submitted' /\ NoCompletions'
         /\ UNCHANGED Executor!vars
<1>1. /\ UNCHANGED <<running, queue, fut, thread, executed, refused>>
      /\ UNCHANGED <<fromExecutor, issued>>
  BY DEF executorVars, taskVars
<1>2. /\ Controller!Completion \in Tracked
      /\ \A c \in InBand : Controller!InBandWrite(c) \in Tracked
  BY DEF Tracked
<1>3. \A c \in InBand :
        /\ InLane(c)' <=> InLane(c)
        /\ Sent(c)' <=> Sent(c)
        /\ Once(Lane, Controller!InBandWrite(c)) => Once(Lane', Controller!InBandWrite(c))
  BY <1>1, <1>2 DEF LaneKept, InLane, Sent
<1>4. OnePlace'
  BY <1>1, <1>3 DEF Inv, OnePlace
<1>5. AllIssued'
  BY <1>1, <1>3 DEF Inv, AllIssued, Seen
<1>6. Submitted'
  BY <1>1 DEF Inv, Submitted
<1>7. NoCompletions'
  BY <1>2 DEF Inv, NoCompletions, LaneKept
<1>8. Downstream' = Downstream
  BY <1>3, DownstreamIs
<1>9. QED
  BY <1>1, <1>4, <1>5, <1>6, <1>7, <1>8
     DEF Executor!vars, executorVars, taskVars

(* The main thread's other handlers move writes along the lane.            *)
LEMMA MainKeepsLane ==
  ASSUME Inv, MainStep
  PROVE  LaneKept /\ UNCHANGED <<shell, generators, fromExecutor, issued>>
<1> DEFINE W == Controller!Writes
<1>1. writes \in Seq(W) /\ toShell \in Seq(W)
  BY TypesOf
<1>2. Controller!Report \in W /\ Controller!Text \in W
  BY WriteKinds
<1>3. ASSUME UNCHANGED <<writes, toShell>>
      PROVE  LaneKept
  BY <1>3 DEF LaneKept, Lane
<1>4. ASSUME NEW act, NEW expired, NEW nat,
             Controller!Flush(writes, <<Controller!Text>>, act, expired, nat)
      PROVE  LaneKept
  <2> DEFINE text == <<Controller!Text>>
  <2>1. text \in Seq(W) /\ ToSet(text) = {Controller!Text} /\ \A e : Once(text, e)
    BY <1>2, OneOnce
  <2>2. Controller!Flush(writes, text, act, expired, nat)
    BY <1>4
  <2> HIDE DEF text, W
  <2>3. /\ ToSet(Lane') = ToSet(toShell) \cup ToSet(text) \cup ToSet(writes)
        /\ \A e : /\ Once(toShell, e) /\ Once(text, e) /\ Once(writes, e)
                  /\ ~(e \in ToSet(toShell) /\ e \in ToSet(writes))
                  /\ ~(e \in ToSet(toShell) /\ e \in ToSet(text))
                  /\ ~(e \in ToSet(text) /\ e \in ToSet(writes))
                  => Once(Lane', e)
    BY <2>1, <2>2, <1>1, FlushLane
  <2>4. \A e \in Tracked : e \notin ToSet(text)
    BY <2>1, WriteKinds
  <2>5. QED
    BY <2>1, <2>3, <2>4, LaneIs DEF LaneKept
<1>5. ASSUME NEW act, NEW expired, NEW nat,
             Controller!Flush(<<Controller!Report>> \o writes, <<>>, act, expired, nat)
      PROVE  LaneKept
  <2> DEFINE q == <<Controller!Report>> \o writes
             text == <<>>
  <2>1. /\ q \in Seq(W) /\ ToSet(q) = {Controller!Report} \cup ToSet(writes)
        /\ \A e : Once(q, e) <=> /\ Once(writes, e)
                                 /\ (e = Controller!Report => e \notin ToSet(writes))
    BY <1>1, <1>2, FirstOnce
  <2>2. text \in Seq(W) /\ ToSet(text) = {} /\ \A e : Once(text, e)
    BY NoneOnce
  <2>3. Controller!Flush(q, text, act, expired, nat)
    BY <1>5
  <2> HIDE DEF q, text, W
  <2>4. /\ ToSet(Lane') = ToSet(toShell) \cup ToSet(text) \cup ToSet(q)
        /\ \A e : /\ Once(toShell, e) /\ Once(text, e) /\ Once(q, e)
                  /\ ~(e \in ToSet(toShell) /\ e \in ToSet(q))
                  /\ ~(e \in ToSet(toShell) /\ e \in ToSet(text))
                  /\ ~(e \in ToSet(text) /\ e \in ToSet(q))
                  => Once(Lane', e)
    BY <2>1, <2>2, <2>3, <1>1, FlushLane
  <2>5. \A e \in Tracked : e # Controller!Report
    BY WriteKinds
  <2>6. ToSet(Lane) = ToSet(toShell) \cup ToSet(writes)
    BY LaneIs
  <2>7. \A e \in Tracked : e \in ToSet(Lane') <=> e \in ToSet(Lane)
    BY <2>1, <2>2, <2>4, <2>5, <2>6
  <2>8. ASSUME NEW e \in Tracked, Once(Lane, e) PROVE Once(Lane', e)
    <3>1. /\ Once(toShell, e) /\ Once(writes, e)
          /\ ~(e \in ToSet(toShell) /\ e \in ToSet(writes))
      BY <2>8, LaneIs
    <3>2. Once(q, e) /\ (e \in ToSet(q) <=> e \in ToSet(writes))
      BY <3>1, <2>1, <2>5
    <3>3. QED
      BY <3>1, <3>2, <2>2, <2>4
  <2>9. QED
    BY <2>7, <2>8 DEF LaneKept
<1>6. CASE Controller!HandleEvent
  <2>1. UNCHANGED <<shell, generators, fromExecutor, issued>>
    BY <1>6 DEF Controller!HandleEvent, Controller!executorVars
  <2>2. \/ UNCHANGED <<writes, toShell>>
        \/ Controller!Flush(writes, <<Controller!Text>>, active, due, "results")
    BY <1>6 DEF Controller!HandleEvent, Controller!HandlePreexec,
                Controller!HandlePrecmd, Controller!HandleEndPrompt,
                Controller!HandleUserFinished, Controller!HandleSendPrompt,
                Controller!HandleCompleted, Controller!queueVars
  <2>3. QED
    BY <2>1, <2>2, <1>3, <1>4
<1>7. CASE Controller!MarkActive
  <2>1. /\ UNCHANGED <<shell, generators, fromExecutor, issued>>
        /\ Controller!Flush(<<Controller!Report>> \o writes, <<>>, TRUE, due - 1, native)
    BY <1>7 DEF Controller!MarkActive, Controller!executorVars
  <2>2. QED
    BY <2>1, <1>5
<1>8. QED
  BY <1>6, <1>7 DEF MainStep

LEMMA MainPlaces ==
  ASSUME Inv, Ctl!TypeOK', MainStep
  PROVE  /\ OnePlace' /\ AllIssued' /\ Submitted' /\ NoCompletions'
         /\ UNCHANGED Executor!vars
<1>1. LaneKept /\ UNCHANGED <<shell, generators, fromExecutor, issued>>
  BY MainKeepsLane
<1>2. UNCHANGED executorVars /\ shell'.st # "complete"
  BY <1>1 DEF MainStep, Inv, NoCompletions
<1>3. \A c \in InBand : /\ Runs(c)' => Runs(c)
                        /\ c \in generators'
                             <=> c \in generators \/ (Runs(c) /\ ~Runs(c)')
  BY <1>1 DEF Runs
<1>4. QED
  BY <1>1, <1>2, <1>3, QuietPlaces

(* While the shell runs a command of the user, no in-band command has been *)
(* written that it could read.                                             *)
LEMMA NothingToSteal ==
  ASSUME Inv, shell.st = "run", toShell # <<>>
  PROVE  Head(toShell) \notin Tracked
<1>1. Ctl!OneCommandAtATime
  BY CtlAssumption, Ctl!TurnAloneSuffices DEF Inv
<1>2. nTyped = 0
  BY DEF Inv, Ctl!TypeOK
<1>3. toShell \in Seq(Controller!Writes)
  BY TypesOf
<1>4. 1 \in DOMAIN toShell /\ Head(toShell) = toShell[1]
  BY <1>3
<1>5. ~Ctl!IsCommand(Head(toShell))
  BY <1>1, <1>2, <1>4 DEF Ctl!OneCommandAtATime, Ctl!NothingTyped
<1>6. ~Controller!IsCommand(Head(toShell))
  BY <1>5 DEF Ctl!IsCommand, Controller!IsCommand
<1>7. Head(toShell) \in ToSet(Lane)
  BY <1>3, LaneIs, TailOnce
<1>8. QED
  BY <1>6, <1>7, WriteKinds DEF Tracked, Inv, NoCompletions

LEMMA OtherPlaces ==
  ASSUME Inv, Ctl!TypeOK', OtherStep
  PROVE  /\ OnePlace' /\ AllIssued' /\ Submitted' /\ NoCompletions'
         /\ UNCHANGED Executor!vars
<1>1. UNCHANGED executorVars
  BY DEF OtherStep
<1>2. CASE Controller!TimerExpires
  <2>1. UNCHANGED <<writes, toShell, shell, generators, fromExecutor, issued>>
    BY <1>2 DEF Controller!TimerExpires, Controller!queueVars,
                Controller!shellVars, Controller!executorVars
  <2>2. LaneKept /\ shell'.st # "complete"
    BY <2>1 DEF LaneKept, Lane, Inv, NoCompletions
  <2>3. \A c \in InBand : /\ Runs(c)' => Runs(c)
                          /\ c \in generators'
                               <=> c \in generators \/ (Runs(c) /\ ~Runs(c)')
    BY <2>1 DEF Runs
  <2>4. QED
    BY <2>1, <2>2, <2>3, <1>1, QuietPlaces
<1>3. CASE Controller!ShellFinishes
  <2>1. /\ UNCHANGED <<writes, toShell, fromExecutor, issued>>
        /\ shell.st = "run" /\ shell' = Controller!Idle("prompt")
        /\ generators' = IF shell.kind = "inband" THEN generators \cup {shell.id}
                                                  ELSE generators
    BY <1>3 DEF Controller!ShellFinishes, Controller!queueVars,
                Controller!executorVars
  <2>2. LaneKept
    BY <2>1 DEF LaneKept, Lane
  <2>3. shell'.st = "prompt"
    BY <2>1 DEF Controller!Idle
  <2>4. \A c \in InBand : ~Runs(c)'
    BY <2>3 DEF Runs, Controller!Running
  <2>5. \A c \in InBand : Runs(c) <=> shell.kind = "inband" /\ shell.id = c
    <3>1. shell \in Controller!Shells
      BY TypesOf
    <3>2. QED
      BY <3>1, <2>1, ConstantsAssumption
         DEF Runs, Controller!Shells, Controller!Running, Controller!Idle,
             Controller!Typed
  <2>6. QED
    BY <2>1, <2>2, <2>3, <2>4, <2>5, <1>1, QuietPlaces
<1>4. CASE Controller!ShellPrompts
  <2>1. /\ UNCHANGED <<writes, toShell, generators, fromExecutor, issued>>
        /\ shell.st = "prompt" /\ shell' = Controller!Idle("edit")
    BY <1>4 DEF Controller!ShellPrompts, Controller!queueVars,
                Controller!executorVars
  <2>2. LaneKept
    BY <2>1 DEF LaneKept, Lane
  <2>3. shell'.st = "edit"
    BY <2>1 DEF Controller!Idle
  <2>4. \A c \in InBand : ~Runs(c)' /\ ~Runs(c)
    BY <2>1, <2>3 DEF Runs, Controller!Running
  <2>5. QED
    BY <2>1, <2>2, <2>3, <2>4, <1>1, QuietPlaces
<1>5. CASE Controller!ProgramReads
  <2>1. /\ UNCHANGED <<writes, shell, generators, fromExecutor, issued>>
        /\ shell.st = "run" /\ toShell # <<>> /\ toShell' = Tail(toShell)
    BY <1>5 DEF Controller!ProgramReads, Controller!queueVars,
                Controller!executorVars
  <2>2. LaneKept
    BY <2>1, ReadLane, NothingToSteal DEF LaneKept
  <2>3. \A c \in InBand : /\ Runs(c)' => Runs(c)
                          /\ c \in generators'
                               <=> c \in generators \/ (Runs(c) /\ ~Runs(c)')
    BY <2>1 DEF Runs
  <2>4. shell'.st # "complete"
    BY <2>1
  <2>5. QED
    BY <2>1, <2>2, <2>3, <2>4, <1>1, QuietPlaces
<1>6. QED
  BY <1>2, <1>3, <1>4, <1>5 DEF OtherStep

LEMMA ReadsPlaces ==
  ASSUME Inv, Ctl!TypeOK', ShellReads
  PROVE  /\ OnePlace' /\ AllIssued' /\ Submitted' /\ NoCompletions'
         /\ UNCHANGED Executor!vars
<1>1. UNCHANGED executorVars
  BY DEF ShellReads
<1>2. PICK w \in Controller!Writes :
        Controller!ShellExecutes(w) \/ Controller!ShellReadsKey(w)
  BY DEF ShellReads
<1>3. /\ toShell # <<>> /\ Head(toShell) = w /\ toShell' = Tail(toShell)
      /\ UNCHANGED <<writes, generators, fromExecutor, issued>>
  BY <1>2 DEF Controller!ShellExecutes, Controller!ShellReadsKey,
              Controller!ShellReads, Controller!BeginCommand,
              Controller!queueVars, Controller!executorVars
<1>4. /\ ToSet(Lane) = {w} \cup ToSet(Lane')
      /\ \A e : Once(Lane, e) => Once(Lane', e) /\ (e = w => e \notin ToSet(Lane'))
  BY <1>3, ReadLane
<1>5. w # Controller!Completion /\ shell.st # "complete"
  BY <1>4 DEF Inv, NoCompletions
<1>6. CASE Controller!ShellReadsKey(w)
  <2>1. UNCHANGED shell /\ w \in {Controller!Report, Controller!Text}
    BY <1>6, <1>5 DEF Controller!ShellReadsKey
  <2>2. LaneKept
    BY <2>1, <1>4, WriteKinds DEF LaneKept
  <2>3. \A c \in InBand : /\ Runs(c)' => Runs(c)
                          /\ c \in generators'
                               <=> c \in generators \/ (Runs(c) /\ ~Runs(c)')
    BY <2>1, <1>3 DEF Runs
  <2>4. QED
    BY <2>1, <2>2, <2>3, <1>1, <1>3, <1>5, QuietPlaces
<1>7. CASE Controller!ShellExecutes(w)
  <2>1. /\ shell.st = "edit" /\ Controller!IsCommand(w)
        /\ shell' = Controller!Running(w.kind, w.id)
    BY <1>7 DEF Controller!ShellExecutes, Controller!BeginCommand
  <2>2. shell'.st # "complete" /\ \A c \in InBand : ~Runs(c)
    BY <2>1 DEF Runs, Controller!Running
  <2>3. \A c \in InBand : Runs(c)' <=> w.kind = "inband" /\ w.id = c
    BY <2>1 DEF Runs, Controller!Running
  <2>4. CASE w.kind # "inband"
    <3>1. w \notin Tracked
      BY <2>4, <1>5, WriteKinds DEF Tracked
    <3>2. LaneKept
      BY <3>1, <1>4 DEF LaneKept
    <3>3. QED
      BY <3>2, <2>2, <2>3, <2>4, <1>1, <1>3, QuietPlaces
  <2>5. CASE w.kind = "inband"
    <3> DEFINE d == w.id
    <3>1. d \in InBand /\ w = Controller!InBandWrite(d)
      BY <2>5, WriteKinds
    <3> HIDE DEF d
    <3>2. InLane(d) /\ ~InLane(d)' /\ Runs(d)'
      BY <3>1, <2>3, <2>5, <1>4 DEF InLane, Inv, OnePlace, d
    <3>3. \A c \in InBand : c # d => (InLane(c)' <=> InLane(c)) /\ ~Runs(c)'
      BY <3>1, <2>3, <1>4, WriteKinds DEF InLane, d
    <3>4. \A c \in InBand : Once(Lane', Controller!InBandWrite(c))
      BY <1>4 DEF Inv, OnePlace
    <3>5. UNCHANGED <<running, queue, fut, thread, executed, refused>>
      BY <1>1 DEF executorVars, taskVars
    <3>6. \A c \in InBand : Sent(c)' <=> Sent(c)
      BY <1>3 DEF Sent
    <3>7. OnePlace'
      <4>1. SUFFICES ASSUME NEW c \in InBand
                     PROVE  /\ Once(fromExecutor', Executor!Execute(c))
                            /\ Once(Lane', Controller!InBandWrite(c))
                            /\ Sent(c)' => ~InLane(c)' /\ ~Runs(c)' /\ c \notin generators'
                            /\ InLane(c)' => ~Runs(c)' /\ c \notin generators'
                            /\ Runs(c)' => c \notin generators'
        BY DEF OnePlace
      <4>2. /\ Once(fromExecutor', Executor!Execute(c))
            /\ Once(Lane', Controller!InBandWrite(c))
            /\ Sent(c) => ~InLane(c) /\ c \notin generators
            /\ InLane(c) => c \notin generators
        BY <1>3, <3>4 DEF Inv, OnePlace
      <4>3. CASE c = d
        BY <4>2, <4>3, <3>2, <3>6, <1>3
      <4>4. CASE c # d
        BY <4>2, <4>4, <3>3, <3>6, <1>3
      <4>5. QED
        BY <4>3, <4>4
    <3>8. AllIssued'
      BY <3>1, <3>2, <3>3, <3>5, <3>6, <1>3 DEF Inv, AllIssued, Seen
    <3>9. Submitted'
      BY <3>5, <1>3 DEF Inv, Submitted
    <3>10. NoCompletions'
      BY <2>2, <1>4 DEF Inv, NoCompletions
    <3>11. Downstream' = Downstream
      BY <3>1, <3>2, <3>3, <2>2, <1>3, DownstreamIs
    <3>12. QED
      BY <3>7, <3>8, <3>9, <3>10, <3>11, <1>1, <1>3
         DEF Executor!vars, executorVars, taskVars
  <2>6. QED
    BY <2>4, <2>5
<1>8. QED
  BY <1>2, <1>6, <1>7

(* A command that answers is nowhere else.                                 *)
LEMMA AnswerPlaces ==
  ASSUME Inv, Ctl!TypeOK', NEW c \in InBand, GeneratorAnswers(c)
  PROVE  /\ OnePlace' /\ AllIssued' /\ Submitted' /\ NoCompletions'
         /\ Executor!ShellAnswers(c)
<1>1. /\ c \in generators /\ generators' = generators \ {c}
      /\ executed' = Append(executed, c)
      /\ UNCHANGED <<running, queue, fut, reply, thread, main, refused, nClears>>
      /\ UNCHANGED <<writes, toShell, shell, fromExecutor, issued>>
  BY DEF GeneratorAnswers, Controller!GeneratorAnswers, taskVars,
         Controller!queueVars
<1>2. /\ \A d \in InBand : /\ InLane(d)' <=> InLane(d)
                           /\ Runs(d)' <=> Runs(d)
                           /\ Sent(d)' <=> Sent(d)
      /\ Lane' = Lane
  BY <1>1 DEF InLane, Runs, Sent, Lane
<1>3. ~InLane(c) /\ ~Runs(c)
  BY <1>1 DEF Inv, OnePlace
<1>4. ToSet(executed') = ToSet(executed) \cup {c}
  BY <1>1, TypesOf, AppendOnce
<1>5. OnePlace'
  BY <1>1, <1>2 DEF Inv, OnePlace
<1>6. AllIssued'
  BY <1>1, <1>2, <1>4 DEF Inv, AllIssued, Seen
<1>7. Submitted' /\ NoCompletions'
  BY <1>1, <1>2 DEF Inv, Submitted, NoCompletions
<1>8. c \in Downstream /\ Downstream' = Downstream \ {c}
  BY <1>1, <1>2, <1>3, DownstreamIs
<1>9. QED
  BY <1>1, <1>5, <1>6, <1>7, <1>8 DEF Executor!ShellAnswers

(* The user's command drops what was queued, and nothing else.             *)
LEMMA SubmitPlaces ==
  ASSUME Inv, Ctl!TypeOK', NEW c \in Cmds, Submit(c)
  PROVE  /\ OnePlace' /\ AllIssued' /\ Submitted' /\ NoCompletions'
         /\ Executor!UserCommand
<1> DEFINE u == Controller!UserWrite(c)
<1>1. /\ running' = None /\ queue' = <<>>
      /\ UNCHANGED <<fut, thread, executed, refused>>
      /\ UNCHANGED <<fromExecutor, issued, shell, generators>>
  BY DEF Submit, Executor!ClearAll, Controller!Submit
<1>2. \/ writes' = <<>> /\ toShell' = Append(toShell, u)
      \/ writes' = <<u>> /\ toShell' = toShell
  BY DEF Submit, Controller!Submit
<1> HIDE DEF u
<1>3. u \in Controller!Writes /\ u \notin Tracked
  BY WriteKinds DEF u
<1>4. Lane' = Append(toShell, u)
  <2>1. toShell \in Seq(Controller!Writes)
    BY TypesOf
  <2>2. /\ Append(toShell, u) \in Seq(Controller!Writes)
        /\ Append(toShell, u) = toShell \o <<u>>
    BY <2>1, <1>3, AppendOnce, AppendIsConcat
  <2>3. Append(toShell, u) \o <<>> = Append(toShell, u)
    BY <2>2, ConcatEmptySeq
  <2>4. QED
    BY <1>2, <2>2, <2>3 DEF Lane
<1>5. /\ ToSet(Lane') = ToSet(toShell) \cup {u}
      /\ \A e : Once(toShell, e) /\ (e = u => e \notin ToSet(toShell)) => Once(Lane', e)
  BY <1>3, <1>4, TypesOf, AppendOnce
<1>6. \A e \in Tracked : /\ e \in ToSet(Lane') => e \in ToSet(Lane)
                         /\ Once(Lane, e) => Once(Lane', e)
  BY <1>3, <1>5, LaneIs
<1>7. \A d \in InBand : /\ InLane(d)' => InLane(d)
                        /\ Runs(d)' <=> Runs(d)
                        /\ Sent(d)' <=> Sent(d)
                        /\ Once(Lane, Controller!InBandWrite(d))
                             => Once(Lane', Controller!InBandWrite(d))
  BY <1>1, <1>6, WriteKinds DEF InLane, Runs, Sent
<1>8. OnePlace'
  BY <1>1, <1>7 DEF Inv, OnePlace
<1>9. AllIssued'
  BY <1>1, <1>7, ConstantsAssumption DEF Inv, AllIssued, Seen
<1>10. Submitted'
  BY <1>1, NoneOnce DEF Inv, Submitted
<1>11. NoCompletions'
  BY <1>1, <1>6 DEF Inv, NoCompletions, Tracked
<1>12. Downstream' \in SUBSET Downstream
  BY <1>1, <1>7, DownstreamIs
<1>13. QED
  BY <1>8, <1>9, <1>10, <1>11, <1>12 DEF Submit, Executor!UserCommand

LEMMA TakesPlaces ==
  ASSUME Inv, Ctl!TypeOK', ControllerTakes
  PROVE  /\ OnePlace' /\ AllIssued' /\ Submitted' /\ NoCompletions'
         /\ Executor!ControllerExecute \/ Executor!ControllerCancel
<1>1. /\ fromExecutor # <<>> /\ fromExecutor' = Tail(fromExecutor)
      /\ UNCHANGED <<running, queue, fut, reply, thread, main, executed, nClears>>
      /\ UNCHANGED <<issued, shell, generators>>
  BY DEF ControllerTakes, Controller!HandleExecutor, taskVars
<1>2. PICK m \in Executor!Events :
        /\ m = Head(fromExecutor)
        /\ ToSet(fromExecutor) = {m} \cup ToSet(fromExecutor')
        /\ \A x : Once(fromExecutor, x) => Once(fromExecutor', x)
        /\ Once(fromExecutor, m) => m \notin ToSet(fromExecutor')
  BY <1>1, TypesOf, TailOnce
<1>3. PICK c \in InBand : c = m.id /\ m.op \in {"execute", "cancel"}
  BY DEF Executor!Events
<1> DEFINE W == Controller!Writes
           e == Controller!InBandWrite(c)
<1>4. writes \in Seq(W) /\ toShell \in Seq(W) /\ e \in W /\ e \in Tracked
  BY TypesOf, WriteKinds
<1>5. m.op = "execute" => m = Executor!Execute(c)
  BY <1>3 DEF Executor!Events, Executor!Execute
<1> HIDE DEF W, e
<1>6. \A d \in InBand : /\ Sent(d)' => Sent(d)
                        /\ Runs(d)' <=> Runs(d)
                        /\ Once(fromExecutor', Executor!Execute(d))
  BY <1>1, <1>2 DEF Sent, Runs, Inv, OnePlace
<1>7. shell'.st # "complete" /\ Submitted'
  BY <1>1 DEF Inv, NoCompletions, Submitted
<1>8. CASE m.op = "execute"
  <2>1. Sent(c) /\ ~Sent(c)' /\ c \in issued
    BY <1>2, <1>3, <1>5, <1>8 DEF Sent, Inv, OnePlace, AllIssued, Seen
  <2>2. ~InLane(c) /\ ~Runs(c) /\ c \notin generators
    BY <2>1, <1>3 DEF Inv, OnePlace
  <2>3. CASE userExecuting
    <3>1. refused' = Append(refused, c) /\ UNCHANGED <<writes, toShell>>
      BY <1>2, <1>3, <1>8, <2>3 DEF ControllerTakes, Controller!HandleExecutor,
                        Controller!QueueInBand, Controller!queueVars
    <3>2. Lane' = Lane /\ \A d \in InBand : InLane(d)' <=> InLane(d)
      BY <3>1 DEF Lane, InLane
    <3>3. ToSet(refused') = ToSet(refused) \cup {c}
      BY <3>1, <1>3, TypesOf, AppendOnce
    <3>4. OnePlace'
      BY <3>2, <1>1, <1>6 DEF Inv, OnePlace
    <3>5. AllIssued'
      BY <3>2, <3>3, <2>1, <1>1, <1>6 DEF Inv, AllIssued, Seen
    <3>6. NoCompletions'
      BY <3>2, <1>7 DEF Inv, NoCompletions
    <3>7. Downstream' = Downstream
      BY <3>2, <1>1, <1>6, DownstreamIs
    <3>8. Executor!ControllerExecute
      BY <3>1, <3>7, <1>1, <1>2, <1>3, <1>8 DEF Executor!ControllerExecute
    <3>9. QED
      BY <3>4, <3>5, <3>6, <3>8, <1>7
  <2>4. CASE ~userExecuting
    <3> DEFINE q == Append(writes, e)
               text == <<>>
    <3>1. /\ refused' = refused
          /\ Controller!Flush(q, text, active, due, native)
      BY <1>2, <1>3, <1>8, <2>4 DEF ControllerTakes, Controller!HandleExecutor, e,
                        Controller!QueueInBand
    <3>2. /\ q \in Seq(W) /\ ToSet(q) = ToSet(writes) \cup {e}
          /\ \A x : Once(writes, x) /\ (x = e => x \notin ToSet(writes)) => Once(q, x)
      BY <1>4, AppendOnce
    <3>3. text \in Seq(W) /\ ToSet(text) = {} /\ \A x : Once(text, x)
      BY NoneOnce
    <3> HIDE DEF q, text
    <3>4. /\ ToSet(Lane') = ToSet(toShell) \cup ToSet(text) \cup ToSet(q)
          /\ \A x : /\ Once(toShell, x) /\ Once(text, x) /\ Once(q, x)
                    /\ ~(x \in ToSet(toShell) /\ x \in ToSet(q))
                    /\ ~(x \in ToSet(toShell) /\ x \in ToSet(text))
                    /\ ~(x \in ToSet(text) /\ x \in ToSet(q))
                    => Once(Lane', x)
      BY <3>1, <3>2, <3>3, <1>4, FlushLane
    <3>5. ToSet(Lane) = ToSet(toShell) \cup ToSet(writes)
      BY LaneIs
    <3>6. ToSet(Lane') = ToSet(Lane) \cup {e}
      BY <3>2, <3>3, <3>4, <3>5
    <3>7. e \notin ToSet(Lane)
      BY <2>2 DEF InLane, e
    <3>8. ASSUME NEW x, Once(Lane, x) PROVE Once(Lane', x)
      <4>1. /\ Once(toShell, x) /\ Once(writes, x)
            /\ ~(x \in ToSet(toShell) /\ x \in ToSet(writes))
        BY <3>8, LaneIs
      <4>2. Once(q, x) /\ ~(x \in ToSet(toShell) /\ x \in ToSet(q))
        BY <4>1, <3>2, <3>5, <3>7
      <4>3. QED
        BY <4>1, <4>2, <3>3, <3>4
    <3>9. InLane(c)' /\ \A d \in InBand : d # c => (InLane(d)' <=> InLane(d))
      BY <3>6, <1>3, WriteKinds DEF InLane, e
    <3>10. OnePlace'
      <4>1. SUFFICES ASSUME NEW d \in InBand
                     PROVE  /\ Once(fromExecutor', Executor!Execute(d))
                            /\ Once(Lane', Controller!InBandWrite(d))
                            /\ Sent(d)' => ~InLane(d)' /\ ~Runs(d)' /\ d \notin generators'
                            /\ InLane(d)' => ~Runs(d)' /\ d \notin generators'
                            /\ Runs(d)' => d \notin generators'
        BY DEF OnePlace
      <4>2. /\ Once(fromExecutor', Executor!Execute(d))
            /\ Once(Lane', Controller!InBandWrite(d))
            /\ Sent(d)' => Sent(d)
            /\ Runs(d)' <=> Runs(d)
            /\ generators' = generators
            /\ Runs(d) => d \notin generators
        BY <1>1, <1>6, <3>8 DEF Inv, OnePlace
      <4>3. CASE d = c
        BY <4>2, <4>3, <2>1, <2>2
      <4>4. CASE d # c
        BY <4>2, <4>4, <3>9 DEF Inv, OnePlace
      <4>5. QED
        BY <4>3, <4>4
    <3>11. AllIssued'
      BY <3>1, <3>9, <2>1, <1>1, <1>6 DEF Inv, AllIssued, Seen
    <3>12. NoCompletions'
      BY <3>6, <1>3, <1>7, WriteKinds DEF Inv, NoCompletions, e
    <3>13. Downstream' = Downstream \cup {c}
      BY <3>9, <1>1, <1>3, <1>6, DownstreamIs
    <3>14. Executor!ControllerExecute
      BY <3>1, <3>13, <1>1, <1>2, <1>3, <1>8 DEF Executor!ControllerExecute
    <3>15. QED
      BY <3>10, <3>11, <3>12, <3>14, <1>7
  <2>5. QED
    BY <2>3, <2>4
<1>9. CASE m.op = "cancel"
  <2>1. /\ refused' = refused /\ toShell' = toShell
        /\ writes' = Controller!Without(writes, e)
    BY <1>2, <1>3, <1>9 DEF ControllerTakes, Controller!HandleExecutor, e,
                Controller!CancelInBand
  <2>2. /\ writes' \in Seq(W)
        /\ ToSet(writes') \subseteq ToSet(writes)
        /\ ToSet(writes) \subseteq ToSet(writes') \cup {e}
        /\ \A x : Once(writes, x) => Once(writes', x)
        /\ Once(writes, e) => e \notin ToSet(writes')
    <3>1. CASE e \in ToSet(writes)
      <4> DEFINE i == CHOOSE j \in DOMAIN writes : writes[j] = e
      <4>1. i \in DOMAIN writes /\ writes[i] = e
        BY <3>1 DEF ToSet
      <4>2. writes' = RemoveAt(writes, i)
        BY <3>1, <2>1 DEF Controller!Without, Controller!ToSet, ToSet,
                          Controller!RemoveAt, RemoveAt
      <4> HIDE DEF i
      <4>3. QED
        BY <4>1, <4>2, <1>4, RemovedOnce
    <3>2. CASE e \notin ToSet(writes)
      BY <3>2, <2>1, <1>4 DEF Controller!Without, Controller!ToSet, ToSet
    <3>3. QED
      BY <3>1, <3>2
  <2>3. /\ ToSet(Lane') = ToSet(toShell) \cup ToSet(writes')
        /\ \A x : Once(Lane', x) <=> /\ Once(toShell, x) /\ Once(writes', x)
                                     /\ ~(x \in ToSet(toShell) /\ x \in ToSet(writes'))
    BY <2>1, <2>2, <1>4, JoinedOnce DEF Lane
  <2>4. ToSet(Lane') \subseteq ToSet(Lane) /\ ToSet(Lane) \subseteq ToSet(Lane') \cup {e}
    BY <2>2, <2>3, LaneIs
  <2>5. \A x : Once(Lane, x) => Once(Lane', x)
    BY <2>2, <2>3, LaneIs
  <2>6. \A d \in InBand : /\ InLane(d)' => InLane(d)
                          /\ d # c => (InLane(d)' <=> InLane(d))
    BY <2>4, <1>3, WriteKinds DEF InLane, e
  <2>7. OnePlace'
    BY <2>5, <2>6, <1>1, <1>6 DEF Inv, OnePlace
  <2>8. AllIssued'
    BY <2>1, <2>6, <1>1, <1>6 DEF Inv, AllIssued, Seen
  <2>9. NoCompletions'
    BY <2>4, <1>7 DEF Inv, NoCompletions
  <2>10. Downstream' \in {Downstream, Downstream \ {c}}
    <3>1. \A d \in InBand : d \in Downstream' => d \in Downstream
      BY <2>6, <1>1, <1>6, DownstreamIs
    <3>2. \A d \in InBand : d # c => (d \in Downstream' <=> d \in Downstream)
      BY <2>6, <1>1, <1>6, DownstreamIs
    <3>3. Downstream \in SUBSET InBand /\ Downstream' \in SUBSET InBand
      BY DEF Downstream
    <3>4. CASE c \in Downstream'
      BY <3>1, <3>2, <3>3, <3>4
    <3>5. CASE c \notin Downstream'
      BY <3>1, <3>2, <3>3, <3>5
    <3>6. QED
      BY <3>4, <3>5
  <2>11. Executor!ControllerCancel
    BY <2>1, <2>10, <1>1, <1>2, <1>3, <1>9 DEF Executor!ControllerCancel
  <2>12. QED
    BY <2>7, <2>8, <2>9, <2>11, <1>7
<1>10. QED
  BY <1>3, <1>8, <1>9

-----------------------------------------------------------------------------
(* The executor's own steps.                                               *)
LEMMA SamePlaces ==
  ASSUME UNCHANGED controllerVars
  PROVE  /\ UNCHANGED <<writes, toShell, shell, generators>>
         /\ Lane' = Lane
         /\ \A c \in InBand : (InLane(c)' <=> InLane(c)) /\ (Runs(c)' <=> Runs(c))
BY DEF controllerVars, Lane, InLane, Runs

LEMMA IssueKinds ==
  ASSUME NEW c \in InBand, NEW d
  PROVE  /\ Executor!Execute(c) \in Executor!Events
         /\ Executor!Cancel(c) \in Executor!Events
         /\ Executor!Execute(c) = Executor!Execute(d) => c = d
         /\ Executor!Execute(d) # Executor!Cancel(c)
BY DEF Executor!Execute, Executor!Cancel, Executor!Events

LEMMA ExecutePlaces ==
  ASSUME Inv, Executor!ExecuteInternal, NoteIssued,
         UNCHANGED <<controllerVars, executed, refused, fut>>
  PROVE  /\ OnePlace' /\ AllIssued'
         /\ \A c \in InBand : /\ Once(queue', c)
                              /\ c \in ToSet(queue') => c \notin issued' /\ fut[c] # "new"
                              /\ c \in issued' => fut[c] # "new"
<1>1. /\ UNCHANGED <<writes, toShell, shell, generators>> /\ Lane' = Lane
      /\ \A c \in InBand : (InLane(c)' <=> InLane(c)) /\ (Runs(c)' <=> Runs(c))
  BY SamePlaces
<1>2. CASE running = None /\ queue # <<>>
  <2>1. PICK c \in InBand :
          /\ c \in ToSet(queue) /\ running' = c /\ queue' = Tail(queue)
          /\ ToSet(queue) = {c} \cup ToSet(queue')
          /\ \A d : Once(queue, d) => Once(queue', d)
          /\ Once(queue, c) => c \notin ToSet(queue')
          /\ fromExecutor' = Append(fromExecutor, Executor!Execute(c))
    BY <1>2, TypesOf, TailOnce DEF Executor!ExecuteInternal
  <2>2. c \notin issued /\ ~Seen(c) /\ fut[c] # "new" /\ c \notin ToSet(queue')
    BY <2>1 DEF Inv, Submitted, AllIssued
  <2>3. issued' = issued \cup {c}
    BY <2>1, <1>2, ConstantsAssumption DEF NoteIssued
  <2>4. /\ ToSet(fromExecutor') = ToSet(fromExecutor) \cup {Executor!Execute(c)}
        /\ \A e : /\ Once(fromExecutor, e)
                  /\ e = Executor!Execute(c) => e \notin ToSet(fromExecutor)
                  => Once(fromExecutor', e)
    BY <2>1, TypesOf, IssueKinds, AppendOnce
  <2>5. \A d \in InBand : Sent(d)' <=> Sent(d) \/ d = c
    BY <2>4, IssueKinds DEF Sent
  <2>6. OnePlace'
    <3>1. SUFFICES ASSUME NEW d \in InBand
                   PROVE  /\ Once(fromExecutor', Executor!Execute(d))
                          /\ Once(Lane', Controller!InBandWrite(d))
                          /\ Sent(d)' => ~InLane(d)' /\ ~Runs(d)' /\ d \notin generators'
                          /\ InLane(d)' => ~Runs(d)' /\ d \notin generators'
                          /\ Runs(d)' => d \notin generators'
      BY DEF OnePlace
    <3>2. Once(fromExecutor', Executor!Execute(d))
      <4>1. Once(fromExecutor, Executor!Execute(d))
        BY DEF Inv, OnePlace
      <4>2. Executor!Execute(d) = Executor!Execute(c)
              => Executor!Execute(d) \notin ToSet(fromExecutor)
        BY <2>2 DEF Seen, Sent
      <4>3. QED
        BY <4>1, <4>2, <2>4
    <3>3. CASE d = c
      BY <3>2, <3>3, <2>2, <1>1 DEF Inv, OnePlace, Seen
    <3>4. CASE d # c
      BY <3>2, <3>4, <2>5, <1>1 DEF Inv, OnePlace
    <3>5. QED
      BY <3>3, <3>4
  <2>7. AllIssued'
    BY <2>1, <2>3, <2>5, <1>1 DEF Inv, AllIssued, Seen
  <2>8. QED
    BY <2>1, <2>2, <2>3, <2>6, <2>7 DEF Inv, Submitted
<1>3. CASE ~(running = None /\ queue # <<>>)
  <2>1. UNCHANGED <<running, queue, fromExecutor>>
    BY <1>3 DEF Executor!ExecuteInternal
  <2>2. issued' = issued /\ \A c \in InBand : Sent(c)' <=> Sent(c)
    BY <2>1 DEF NoteIssued, Sent
  <2>3. OnePlace'
    BY <2>1, <2>2, <1>1 DEF Inv, OnePlace
  <2>4. AllIssued'
    BY <2>1, <2>2, <1>1 DEF Inv, AllIssued, Seen
  <2>5. QED
    BY <2>1, <2>2, <2>3, <2>4 DEF Inv, Submitted
<1>4. QED
  BY <1>2, <1>3

LEMMA TaskPlaces ==
  ASSUME Inv, NEW c \in InBand, Task(c)
  PROVE  OnePlace' /\ AllIssued' /\ Submitted' /\ NoCompletions'
<1>1. Executor!Task(c) /\ NoteIssued /\ UNCHANGED controllerVars
  BY DEF Task, ExecutorStep
<1>2. /\ UNCHANGED <<writes, toShell, shell, generators>> /\ Lane' = Lane
      /\ \A d \in InBand : (InLane(d)' <=> InLane(d)) /\ (Runs(d)' <=> Runs(d))
  BY <1>1, SamePlaces
<1>3. NoCompletions'
  BY <1>2 DEF Inv, NoCompletions
<1>4. /\ fut \in [InBand -> Executor!FutStates]
      /\ thread \in [InBand -> Executor!ThreadStates]
  BY TypesOf
<1>5. running' \in {running, None} => issued' = issued
  BY <1>1 DEF NoteIssued
<1>6. ASSUME UNCHANGED <<executed, refused>>, running' \in {running, None},
             \A d \in InBand : /\ Sent(d)' <=> Sent(d)
                               /\ Once(fromExecutor', Executor!Execute(d))
      PROVE  OnePlace' /\ AllIssued'
  <2>1. OnePlace'
    BY <1>6, <1>2 DEF Inv, OnePlace
  <2>2. AllIssued'
    BY <1>5, <1>6, <1>2, ConstantsAssumption DEF Inv, AllIssued, Seen
  <2>3. QED
    BY <2>1, <2>2
<1>7. ASSUME UNCHANGED fromExecutor
      PROVE  \A d \in InBand : /\ Sent(d)' <=> Sent(d)
                               /\ Once(fromExecutor', Executor!Execute(d))
  BY <1>7 DEF Inv, OnePlace, Sent
<1>8. CASE Executor!Enqueue(c)
  <2>1. /\ fut[c] = "new" /\ fut' = [fut EXCEPT ![c] = "waiting"]
        /\ queue' = Append(queue, c) /\ thread' = [thread EXCEPT ![c] = "execute"]
        /\ UNCHANGED <<running, fromExecutor, executed, refused>>
    BY <1>8 DEF Executor!Enqueue
  <2>2. c \notin ToSet(queue) /\ c \notin issued
    BY <2>1 DEF Inv, Submitted
  <2>3. /\ ToSet(queue') = ToSet(queue) \cup {c}
        /\ \A d \in InBand : Once(queue', d)
    BY <2>1, <2>2, TypesOf, AppendOnce DEF Inv, Submitted
  <2>4. Submitted'
    BY <2>1, <2>2, <2>3, <1>4, <1>5 DEF Inv, Submitted
  <2>5. QED
    BY <2>1, <2>4, <1>3, <1>6, <1>7
<1>9. CASE Executor!ThreadExecute(c)
  <2>1. /\ Executor!ExecuteInternal /\ thread' = [thread EXCEPT ![c] = "idle"]
        /\ UNCHANGED <<executed, refused, fut>>
    BY <1>9 DEF Executor!ThreadExecute
  <2>2. /\ OnePlace' /\ AllIssued'
        /\ \A d \in InBand : /\ Once(queue', d)
                             /\ d \in ToSet(queue') => d \notin issued' /\ fut[d] # "new"
                             /\ d \in issued' => fut[d] # "new"
    BY <2>1, <1>1, ExecutePlaces
  <2>3. \A d \in InBand : thread'[d] \in {"check", "take"} => fut[d] = "dropped"
    BY <2>1, <1>4 DEF Inv, Submitted
  <2>4. QED
    BY <2>1, <2>2, <2>3, <1>3 DEF Submitted
<1>10. CASE Executor!Receive(c) \/ Executor!ReceiveError(c)
  <2>1. /\ fut[c] = "waiting" /\ thread[c] = "idle"
        /\ fut' \in {[fut EXCEPT ![c] = "done"], [fut EXCEPT ![c] = "failed"]}
        /\ UNCHANGED <<running, queue, thread, fromExecutor, executed, refused>>
    BY <1>10 DEF Executor!Receive, Executor!ReceiveError
  <2>2. Submitted'
    BY <2>1, <1>4, <1>5 DEF Inv, Submitted
  <2>3. QED
    BY <2>1, <2>2, <1>3, <1>6, <1>7
<1>11. CASE Executor!Drop(c)
  <2>1. /\ fut' = [fut EXCEPT ![c] = "dropped"]
        /\ fromExecutor' = Append(fromExecutor, Executor!Cancel(c))
        /\ thread' = [thread EXCEPT ![c] = "check"]
        /\ UNCHANGED <<running, queue, executed, refused>>
    BY <1>11 DEF Executor!Drop
  <2>2. /\ ToSet(fromExecutor') = ToSet(fromExecutor) \cup {Executor!Cancel(c)}
        /\ \A e : /\ Once(fromExecutor, e)
                  /\ e = Executor!Cancel(c) => e \notin ToSet(fromExecutor)
                  => Once(fromExecutor', e)
    <3> DEFINE m == Executor!Cancel(c)
    <3>1. fromExecutor \in Seq(Executor!Events) /\ m \in Executor!Events
      BY TypesOf, IssueKinds
    <3> HIDE DEF m
    <3>2. /\ ToSet(Append(fromExecutor, m)) = ToSet(fromExecutor) \cup {m}
          /\ \A e : Once(fromExecutor, e) /\ (e = m => e \notin ToSet(fromExecutor))
                      => Once(Append(fromExecutor, m), e)
      BY <3>1, AppendOnce
    <3>3. QED
      BY <2>1, <3>2 DEF m
  <2>3. \A d \in InBand : /\ Sent(d)' <=> Sent(d)
                          /\ Once(fromExecutor', Executor!Execute(d))
    BY <2>2, IssueKinds DEF Inv, OnePlace, Sent
  <2>4. Submitted'
    BY <2>1, <1>4, <1>5 DEF Inv, Submitted
  <2>5. QED
    BY <2>1, <2>3, <2>4, <1>3, <1>6
<1>12. CASE Executor!CheckRunning(c)
  <2>1. /\ thread[c] = "check"
        /\ thread' \in {[thread EXCEPT ![c] = "take"], [thread EXCEPT ![c] = "retain"]}
        /\ UNCHANGED <<running, queue, fut, fromExecutor, executed, refused>>
    BY <1>12 DEF Executor!CheckRunning
  <2>2. Submitted'
    BY <2>1, <1>4, <1>5 DEF Inv, Submitted
  <2>3. QED
    BY <2>1, <2>2, <1>3, <1>6, <1>7
<1>13. CASE Executor!TakeRunning(c)
  <2>1. /\ running' = None /\ thread' = [thread EXCEPT ![c] = "taken"]
        /\ UNCHANGED <<queue, fut, fromExecutor, executed, refused>>
    BY <1>13 DEF Executor!TakeRunning
  <2>2. Submitted'
    BY <2>1, <1>4, <1>5 DEF Inv, Submitted
  <2>3. QED
    BY <2>1, <2>2, <1>3, <1>6, <1>7
<1>14. CASE Executor!RetainPending(c)
  <2>1. /\ queue' = Executor!Without(queue, c)
        /\ thread' = [thread EXCEPT ![c] = Executor!AfterRetain(thread[c])]
        /\ UNCHANGED <<running, fut, fromExecutor, executed, refused>>
    BY <1>14 DEF Executor!RetainPending
  <2>2. /\ ToSet(queue') \subseteq ToSet(queue)
        /\ \A d : Once(queue, d) => Once(queue', d)
    <3>1. CASE c \in ToSet(queue)
      <4> DEFINE i == CHOOSE j \in DOMAIN queue : queue[j] = c
      <4>1. i \in DOMAIN queue
        BY <3>1 DEF ToSet
      <4>2. queue' = RemoveAt(queue, i)
        BY <3>1, <2>1 DEF Executor!Without, Executor!ToSet, ToSet,
                          Executor!RemoveAt, RemoveAt
      <4> HIDE DEF i
      <4>3. QED
        BY <4>1, <4>2, TypesOf, RemovedOnce
    <3>2. CASE c \notin ToSet(queue)
      BY <3>2, <2>1 DEF Executor!Without, Executor!ToSet, ToSet
    <3>3. QED
      BY <3>1, <3>2
  <2>3. \A d \in InBand : thread'[d] \in {"check", "take"} => fut[d] = "dropped"
    BY <2>1, <1>4 DEF Executor!AfterRetain, Inv, Submitted
  <2>4. Submitted'
    BY <2>1, <2>2, <2>3, <1>5 DEF Inv, Submitted
  <2>5. QED
    BY <2>1, <2>4, <1>3, <1>6, <1>7
<1>15. QED
  BY <1>1, <1>8, <1>9, <1>10, <1>11, <1>12, <1>13, <1>14 DEF Executor!Task

LEMMA HandlerPlaces ==
  ASSUME Inv, HandleExecuted \/ HandleRefused \/ MainExecute
  PROVE  OnePlace' /\ AllIssued' /\ Submitted' /\ NoCompletions'
<1>1. NoteIssued /\ UNCHANGED <<controllerVars, fut, thread>>
  BY DEF HandleExecuted, HandleRefused, MainExecute, ExecutorStep,
         Executor!HandleExecuted, Executor!HandleRefused, Executor!MainExecute
<1>2. /\ UNCHANGED <<writes, toShell, shell, generators>> /\ Lane' = Lane
      /\ \A c \in InBand : (InLane(c)' <=> InLane(c)) /\ (Runs(c)' <=> Runs(c))
  BY <1>1, SamePlaces
<1>3. NoCompletions'
  BY <1>2 DEF Inv, NoCompletions
<1>4. CASE HandleExecuted \/ HandleRefused
  <2>1. /\ UNCHANGED <<fromExecutor, queue>> /\ running' \in {running, None}
        /\ ToSet(executed') \subseteq ToSet(executed)
        /\ ToSet(refused') \subseteq ToSet(refused)
    <3>1. CASE HandleExecuted
      BY <3>1, TypesOf, TailOnce
         DEF HandleExecuted, ExecutorStep, Executor!HandleExecuted, Executor!TakeIfOwn
    <3>2. CASE HandleRefused
      BY <3>2, TypesOf, TailOnce
         DEF HandleRefused, ExecutorStep, Executor!HandleRefused
    <3>3. QED
      BY <1>4, <3>1, <3>2
  <2>2. issued' = issued
    BY <2>1, <1>1 DEF NoteIssued
  <2>3. \A c \in InBand : Sent(c)' <=> Sent(c)
    BY <2>1 DEF Sent
  <2>4. OnePlace'
    BY <2>1, <2>3, <1>2 DEF Inv, OnePlace
  <2>5. AllIssued'
    BY <2>1, <2>2, <2>3, <1>2, ConstantsAssumption DEF Inv, AllIssued, Seen
  <2>6. Submitted'
    BY <2>1, <2>2, <1>1 DEF Inv, Submitted
  <2>7. QED
    BY <2>4, <2>5, <2>6, <1>3
<1>5. CASE MainExecute
  <2>1. Executor!ExecuteInternal /\ UNCHANGED <<executed, refused>>
    BY <1>5 DEF MainExecute, ExecutorStep, Executor!MainExecute
  <2>2. /\ OnePlace' /\ AllIssued'
        /\ \A c \in InBand : /\ Once(queue', c)
                             /\ c \in ToSet(queue') => c \notin issued' /\ fut[c] # "new"
                             /\ c \in issued' => fut[c] # "new"
    BY <2>1, <1>1, ExecutePlaces
  <2>3. Submitted'
    BY <2>2, <1>1 DEF Inv, Submitted
  <2>4. QED
    BY <2>2, <2>3, <1>3
<1>6. QED
  BY <1>4, <1>5

-----------------------------------------------------------------------------
LEMMA ExeAssumption == Exe!CommandsAssumption
BY ConstantsAssumption DEF Exe!CommandsAssumption

LEMMA InvInit == Init => Inv /\ Controller!Init /\ Executor!Init
<1> SUFFICES ASSUME Init PROVE Inv /\ Controller!Init /\ Executor!Init
  OBVIOUS
<1>1. /\ Controller!Init
      /\ running = None /\ queue = <<>>
      /\ fut = [c \in InBand |-> "new"] /\ thread = [c \in InBand |-> "idle"]
      /\ executed = <<>> /\ refused = <<>>
  BY DEF Init
<1>2. /\ writes = <<>> /\ toShell = <<>> /\ fromExecutor = <<>>
      /\ issued = {} /\ generators = {} /\ shell = Controller!Idle("edit")
  BY <1>1 DEF Controller!Init
<1>3. /\ ToSet(Lane) = {} /\ \A e : Once(Lane, e)
  <2>1. Lane = <<>>
    BY <1>2 DEF Lane
  <2>2. QED
    BY <2>1, NoneOnce
<1>4. /\ ToSet(fromExecutor) = {} /\ \A e : Once(fromExecutor, e)
      /\ ToSet(executed) = {} /\ ToSet(refused) = {}
      /\ ToSet(queue) = {} /\ \A e : Once(queue, e)
  BY <1>1, <1>2, NoneOnce
<1>5. shell.st = "edit" /\ \A c \in InBand : ~Sent(c) /\ ~InLane(c) /\ ~Runs(c)
  BY <1>2, <1>3, <1>4 DEF Sent, InLane, Runs, Controller!Idle, Controller!Running
<1>6. OnePlace /\ AllIssued
  BY <1>1, <1>2, <1>3, <1>4, <1>5, ConstantsAssumption DEF OnePlace, AllIssued, Seen
<1>7. Submitted /\ NoCompletions
  BY <1>1, <1>2, <1>3, <1>4, <1>5 DEF Submitted, NoCompletions
<1>8. Downstream = {}
  <2>1. ToSet(writes \o toShell) = {}
    BY <1>2, NoneOnce
  <2>2. QED
    BY <2>1, <1>2, <1>5 DEF Downstream, Runs
<1>9. Executor!Init
  BY <1>2, <1>8 DEF Init, Executor!Init
<1>10. Exe!TypeOK
  BY <1>9, ExecutorNext, ExeAssumption, Exe!TypeInit
<1>11. Ctl!TypeOK /\ Ctl!TurnKept
  BY <1>1, ControllerInit, CtlAssumption, Ctl!TypeInit, Ctl!TurnInit DEF Ctl!TurnKept
<1>12. QED
  BY <1>1, <1>6, <1>7, <1>9, <1>10, <1>11 DEF Inv

(* One step: it is one of the controller's or none of its own, one of the  *)
(* executor's or none, and keeps the invariant.                            *)
LEMMA InvStep ==
  Inv /\ [Next]_vars
    => /\ Inv'
       /\ [Controller!Next]_(Controller!vars)
       /\ [Executor!Next]_(Executor!vars)
<1> SUFFICES ASSUME Inv, [Next]_vars
             PROVE  /\ Inv' /\ [Controller!Next]_(Controller!vars)
                    /\ [Executor!Next]_(Executor!vars)
  OBVIOUS
<1>1. [Controller!Next]_(Controller!vars)
  BY ControllerStep
<1>2. [Ctl!Next]_(Ctl!vars)
  BY <1>1, ControllerNext
<1>3. Ctl!TypeOK'
  BY <1>2, CtlAssumption, Ctl!TypeStep DEF Inv
<1>4. Ctl!TurnKept'
  BY <1>2, CtlAssumption, Ctl!TurnStep, Ctl!TypedStays DEF Inv, Ctl!TurnKept
<1>5. /\ OnePlace' /\ AllIssued' /\ Submitted' /\ NoCompletions'
      /\ [Executor!Next]_(Executor!vars)
  <2>1. CASE HandleExecuted \/ HandleRefused \/ MainExecute
    <3>1. Executor!Main
      BY <2>1 DEF HandleExecuted, HandleRefused, MainExecute, ExecutorStep, Executor!Main
    <3>2. QED
      BY <2>1, <3>1, HandlerPlaces DEF Executor!Next
  <2>2. ASSUME NEW c \in InBand, Task(c)
        PROVE  /\ OnePlace' /\ AllIssued' /\ Submitted' /\ NoCompletions'
               /\ [Executor!Next]_(Executor!vars)
    <3>1. Executor!Task(c)
      BY <2>2 DEF Task, ExecutorStep
    <3>2. QED
      BY <2>2, <3>1, TaskPlaces DEF Executor!Next
  <2>3. ASSUME NEW c \in InBand, GeneratorAnswers(c)
        PROVE  /\ OnePlace' /\ AllIssued' /\ Submitted' /\ NoCompletions'
               /\ [Executor!Next]_(Executor!vars)
    BY <2>3, <1>3, AnswerPlaces DEF Executor!Next, Executor!Environment
  <2>4. CASE ControllerTakes
    BY <2>4, <1>3, TakesPlaces DEF Executor!Next, Executor!Environment
  <2>5. CASE MainStep
    BY <2>5, <1>3, MainPlaces
  <2>6. CASE ShellReads
    BY <2>6, <1>3, ReadsPlaces
  <2>7. CASE OtherStep
    BY <2>7, <1>3, OtherPlaces
  <2>8. ASSUME NEW c \in Cmds, Submit(c)
        PROVE  /\ OnePlace' /\ AllIssued' /\ Submitted' /\ NoCompletions'
               /\ [Executor!Next]_(Executor!vars)
    BY <2>8, <1>3, SubmitPlaces DEF Executor!Next, Executor!Main
  <2>9. CASE UNCHANGED vars
    <3>1. /\ UNCHANGED <<controllerVars, executorVars, fromExecutor, issued>>
          /\ UNCHANGED <<running, queue, fut, thread, executed, refused>>
      BY <2>9 DEF vars, executorVars, taskVars
    <3>2. /\ UNCHANGED <<writes, toShell, shell, generators>> /\ Lane' = Lane
          /\ \A c \in InBand : (InLane(c)' <=> InLane(c)) /\ (Runs(c)' <=> Runs(c))
      BY <3>1, SamePlaces
    <3>3. \A c \in InBand : Sent(c)' <=> Sent(c)
      BY <3>1 DEF Sent
    <3>4. OnePlace' /\ AllIssued'
      BY <3>1, <3>2, <3>3 DEF Inv, OnePlace, AllIssued, Seen
    <3>5. Submitted' /\ NoCompletions'
      BY <3>1, <3>2 DEF Inv, Submitted, NoCompletions
    <3>6. UNCHANGED Executor!vars
      BY <3>1, <3>2 DEF Executor!vars, executorVars, taskVars, Downstream
    <3>7. QED
      BY <3>4, <3>5, <3>6
  <2>10. QED
    BY <2>1, <2>2, <2>3, <2>4, <2>5, <2>6, <2>7, <2>8, <2>9 DEF Next
<1>6. [Exe!Next]_(Exe!vars)
  BY <1>5, ExecutorNext
<1>7. Exe!TypeOK'
  BY <1>6, ExeAssumption, Exe!TypeStep DEF Inv
<1>8. QED
  BY <1>1, <1>3, <1>4, <1>5, <1>7 DEF Inv

(* The real executor is a user the controller expects, for any commands:   *)
(* it issues one command at a time, never the same twice, gives up only on *)
(* what it cancelled, and forgets all when the user submits (TerminalInput *)
(* with in_band_command_executor.rs in the place of PtyController's        *)
(* description of it).                                                     *)
THEOREM ExecutorIsExpected == Spec => ControllerSpec
<1>1. Spec => [][Controller!Next]_(Controller!vars)
  BY InvInit, InvStep, PTL DEF Spec
<1>2. Spec => Controller!Init
  BY InvInit, PTL DEF Spec
<1>3. QED
  BY <1>1, <1>2, PTL DEF ControllerSpec, Controller!Spec

(* The real controller and shell are an environment the executor expects:  *)
(* a command that was sent is refused, or kept until it answers, is        *)
(* cancelled or the user submits one; no program reads it and none answers *)
(* twice (pty_controller.rs in the place of InBandExecutor's description). *)
THEOREM ControllerIsExpected == Spec => ExecutorSpec
<1>1. Spec => [][Executor!Next]_(Executor!vars)
  BY InvInit, InvStep, PTL DEF Spec
<1>2. Spec => Executor!Init
  BY InvInit, PTL DEF Spec
<1>3. QED
  BY <1>1, <1>2, PTL DEF ExecutorSpec

-----------------------------------------------------------------------------
(* What was proved of the controller for any executor, and of the executor *)
(* for any controller, holds of the two together.  Nobody requests         *)
(* completions here, so that the pty is the controller's own, and nothing  *)
(* is typed ahead.                                                         *)
Together ==
  /\ Inv
  /\ Ctl!OneTurn /\ Ctl!FlightInv /\ Ctl!WaitInv
  /\ Exe!IInv /\ Exe!RepliesAreOwn /\ Exe!NeverStalls

LEMMA NothingTypedHere ==
  ASSUME Ctl!TypeOK
  PROVE  Ctl!NothingTyped
BY DEF Ctl!TypeOK, Ctl!NothingTyped

LEMMA TogetherInit == Init => Together
<1>1. SUFFICES ASSUME Init PROVE Together
  OBVIOUS
<1>2. Inv /\ Ctl!Init /\ Exe!Init
  BY <1>1, InvInit, ControllerInit, ExecutorNext
<1>3. Ctl!OneTurn /\ Ctl!FlightInv /\ Ctl!WaitInv
  BY <1>2, CtlAssumption, Ctl!TurnInit, Ctl!FlightInit, Ctl!WaitInit
<1>4. Exe!RepliesAreOwn /\ Exe!NeverStalls
  BY <1>2 DEF Exe!Init, Exe!RepliesAreOwn, Exe!NeverStalls
<1>5. Exe!IInv
  BY <1>2, ExeAssumption, Exe!OutstandingInit
<1>6. QED
  BY <1>2, <1>3, <1>4, <1>5 DEF Together

LEMMA TogetherStep == Together /\ [Next]_vars => Together'
<1>1. SUFFICES ASSUME Together, [Next]_vars PROVE Together'
  OBVIOUS
<1>2. Inv /\ Inv' /\ [Ctl!Next]_(Ctl!vars) /\ [Exe!Next]_(Exe!vars)
  BY <1>1, InvStep, ControllerNext, ExecutorNext DEF Together
<1>3. /\ Ctl!TypeOK /\ Ctl!NothingTyped /\ Ctl!TurnKept /\ Exe!TypeOK
      /\ Ctl!PromptIsExclusive
  BY <1>2, NothingTypedHere DEF Inv, NoCompletions, Ctl!PromptIsExclusive
<1>4. Ctl!TypeOK' /\ Ctl!NothingTyped'
  BY <1>2, NothingTypedHere, PTL DEF Inv
<1>5. Ctl!OneTurn' /\ Ctl!FlightInv' /\ Ctl!WaitInv'
  BY <1>1, <1>2, <1>3, <1>4, CtlAssumption, Ctl!TurnStep, Ctl!FlightStep,
     Ctl!WaitStep DEF Together
<1>6. Exe!IInv' /\ Exe!RepliesAreOwn' /\ Exe!NeverStalls'
  BY <1>1, <1>2, <1>3, ExeAssumption, Exe!OutstandingStep, Exe!RepliesStep,
     Exe!NeverStallsStep DEF Together
<1>7. QED
  BY <1>1, <1>2, <1>5, <1>6 DEF Together

(* With executor, controller and shell together, for any commands of the   *)
(* user and of background tasks and any delays: no command is typed into   *)
(* another, the count of in-band commands in flight is exact, a caller     *)
(* gets only its own output, queued commands always have a thread that     *)
(* will start them, and the one the executor waits for is known to the     *)
(* controller or the shell, or is about to be answered or cancelled.       *)
THEOREM PartsTogether ==
  Spec => [](/\ Ctl!OneCommandAtATime /\ Ctl!InFlightIsExact
             /\ Ctl!NobodyWaitsForDropped
             /\ Exe!RepliesAreOwn /\ Exe!NeverStalls /\ Exe!RunnerIsOutstanding)
<1>1. ASSUME Together
      PROVE  /\ Ctl!OneCommandAtATime /\ Ctl!InFlightIsExact
             /\ Ctl!NobodyWaitsForDropped
             /\ Exe!RepliesAreOwn /\ Exe!NeverStalls /\ Exe!RunnerIsOutstanding
  <2>1. Ctl!TypeOK /\ Ctl!TurnKept
    BY <1>1 DEF Together, Inv
  <2>2. Ctl!OneCommandAtATime /\ Ctl!NobodyWaitsForDropped
    BY <1>1, <2>1, CtlAssumption, Ctl!TurnAloneSuffices, Ctl!WaitSuffices
       DEF Together
  <2>3. Ctl!InFlightIsExact
    BY <1>1, <2>1, CtlAssumption, Ctl!FlightIsCount
       DEF Together, Ctl!InFlightIsExact, Ctl!InBandRuns
  <2>4. QED
    BY <1>1, <2>2, <2>3 DEF Together, Exe!IInv
<1>2. QED
  BY <1>1, TogetherInit, TogetherStep, PTL DEF Spec
=============================================================================
