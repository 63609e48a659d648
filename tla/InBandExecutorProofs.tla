------------------------ MODULE InBandExecutorProofs ------------------------
(***************************************************************************)
(* What InBandExecutor promises, for any set of commands: its types, that  *)
(* replies are not mixed up, that the queue never stalls, and that the     *)
(* running command is always in somebody's hands.                          *)
(***************************************************************************)
EXTENDS InBandExecutor, TLAPS

(* What a queue holds after a send, after a receive, and without an id.    *)
LEMMA AppendSet ==
  ASSUME NEW S, NEW s \in Seq(S), NEW e \in S
  PROVE  /\ Append(s, e) \in Seq(S)
         /\ ToSet(Append(s, e)) = ToSet(s) \cup {e}
<1>1. Len(Append(s, e)) = Len(s) + 1 /\ Append(s, e)[Len(s) + 1] = e
  OBVIOUS
<1>2. \A i \in 1..Len(s) : Append(s, e)[i] = s[i]
  OBVIOUS
<1>3. DOMAIN s = 1..Len(s) /\ DOMAIN Append(s, e) = 1..(Len(s) + 1)
  OBVIOUS
<1>4. Len(s) \in Nat
  OBVIOUS
<1>5. ASSUME NEW x \in ToSet(s) \cup {e} PROVE x \in ToSet(Append(s, e))
  BY <1>1, <1>2, <1>3, <1>4, <1>5 DEF ToSet
<1>6. ASSUME NEW x \in ToSet(Append(s, e)) PROVE x \in ToSet(s) \cup {e}
  BY <1>1, <1>2, <1>3, <1>4, <1>6 DEF ToSet
<1>7. QED
  BY <1>5, <1>6

LEMMA TailSet ==
  ASSUME NEW S, NEW s \in Seq(S), s # <<>>
  PROVE  /\ Head(s) \in S /\ Tail(s) \in Seq(S)
         /\ ToSet(s) = ToSet(Tail(s)) \cup {Head(s)}
<1>1. Len(Tail(s)) = Len(s) - 1 /\ Len(s) \in Nat \ {0} /\ Head(s) = s[1]
  OBVIOUS
<1>2. \A i \in 1..Len(Tail(s)) : Tail(s)[i] = s[i + 1]
  OBVIOUS
<1>3. DOMAIN s = 1..Len(s) /\ DOMAIN Tail(s) = 1..Len(Tail(s))
  OBVIOUS
<1>5. ASSUME NEW x \in ToSet(s) PROVE x \in ToSet(Tail(s)) \cup {Head(s)}
  <2>1. PICK i \in 1..Len(s) : s[i] = x
    BY <1>3, <1>5 DEF ToSet
  <2>2. CASE i = 1
    BY <2>1, <2>2, <1>1
  <2>3. CASE i # 1
    <3>1. i - 1 \in 1..Len(Tail(s)) /\ Tail(s)[i - 1] = x
      BY <2>1, <2>3, <1>1, <1>2
    <3>2. QED
      BY <3>1, <1>3 DEF ToSet
  <2>4. QED
    BY <2>2, <2>3
<1>6. ASSUME NEW x \in ToSet(Tail(s)) \cup {Head(s)} PROVE x \in ToSet(s)
  BY <1>1, <1>2, <1>3, <1>6 DEF ToSet
<1>7. QED
  BY <1>5, <1>6

LEMMA WithoutType ==
  ASSUME NEW S, NEW s \in Seq(S), NEW c
  PROVE  Without(s, c) \in Seq(S)
<1>1. CASE c \in ToSet(s)
  <2> DEFINE i == CHOOSE j \in DOMAIN s : s[j] = c
  <2>1. i \in 1..Len(s)
    BY <1>1 DEF ToSet
  <2> HIDE DEF i
  <2>2. SubSeq(s, 1, i - 1) \in Seq(S) /\ SubSeq(s, i + 1, Len(s)) \in Seq(S)
    BY <2>1
  <2>3. RemoveAt(s, i) \in Seq(S)
    BY <2>2 DEF RemoveAt
  <2>4. QED
    BY <1>1, <2>3 DEF Without, i
<1>2. CASE c \notin ToSet(s)
  BY <1>2 DEF Without
<1>3. QED
  BY <1>1, <1>2

-----------------------------------------------------------------------------
(* TypeOK: every step keeps every variable in its set.                     *)
LEMMA ExecuteInternalType ==
  ASSUME TypeOK, ExecuteInternal
  PROVE  /\ running' \in Commands \cup {None}
         /\ pending' \in Seq(Commands)
         /\ toController' \in Seq(Events)
<1>1. CASE running = None /\ pending # <<>>
  <2>1. Head(pending) \in Commands /\ Tail(pending) \in Seq(Commands)
    BY <1>1, TailSet DEF TypeOK
  <2>2. Execute(Head(pending)) \in Events
    BY <2>1 DEF Execute, Events
  <2>3. Append(toController, Execute(Head(pending))) \in Seq(Events)
    BY <2>2 DEF TypeOK
  <2>4. QED
    BY <1>1, <2>1, <2>3 DEF TypeOK, ExecuteInternal
<1>2. CASE ~(running = None /\ pending # <<>>)
  BY <1>2 DEF TypeOK, ExecuteInternal
<1>3. QED
  BY <1>1, <1>2

LEMMA TypeInit == Init => TypeOK
  BY CommandsAssumption DEF Init, TypeOK, FutStates, ThreadStates

LEMMA TaskType ==
  ASSUME TypeOK, NEW c \in Commands, Task(c)
  PROVE  TypeOK'
<1> USE DEF TypeOK, FutStates, ThreadStates
<1>1. CASE Enqueue(c)
  BY <1>1, AppendSet DEF Enqueue
<1>2. CASE ThreadExecute(c)
  BY <1>2, ExecuteInternalType DEF ThreadExecute
<1>3. CASE Receive(c)
  BY <1>3 DEF Receive
<1>4. CASE ReceiveError(c)
  BY <1>4 DEF ReceiveError
<1>5. CASE Drop(c)
  <2>1. Cancel(c) \in Events
    BY DEF Cancel, Events
  <2>2. QED
    BY <1>5, <2>1 DEF Drop
<1>6. CASE CheckRunning(c)
  BY <1>6 DEF CheckRunning
<1>7. CASE TakeRunning(c)
  BY <1>7 DEF TakeRunning
<1>8. CASE RetainPending(c)
  BY <1>8, WithoutType DEF RetainPending, AfterRetain
<1>9. QED
  BY <1>1, <1>2, <1>3, <1>4, <1>5, <1>6, <1>7, <1>8 DEF Task

LEMMA MainType ==
  ASSUME TypeOK, Main
  PROVE  TypeOK'
<1> USE DEF TypeOK
<1>1. CASE HandleExecuted
  <2>1. Head(executed) \in Commands /\ executed' \in Seq(Commands)
    BY <1>1, TailSet DEF HandleExecuted
  <2>2. QED
    BY <1>1, <2>1 DEF HandleExecuted, TakeIfOwn, Answer
<1>2. CASE HandleRefused
  <2>1. Head(refused) \in Commands /\ refused' \in Seq(Commands)
    BY <1>2, TailSet DEF HandleRefused
  <2>2. QED
    BY <1>2, <2>1 DEF HandleRefused, Answer
<1>3. CASE MainExecute
  BY <1>3, ExecuteInternalType DEF MainExecute
<1>4. CASE UserCommand
  BY <1>4, CommandsAssumption DEF UserCommand, ClearAll
<1>5. QED
  BY <1>1, <1>2, <1>3, <1>4 DEF Main

LEMMA EnvironmentType ==
  ASSUME TypeOK, Environment
  PROVE  TypeOK'
<1> USE DEF TypeOK
<1>1. CASE ControllerExecute
  <2>1. Head(toController) \in Events /\ Tail(toController) \in Seq(Events)
    BY <1>1, TailSet DEF ControllerExecute
  <2>2. Head(toController).id \in Commands
    BY <2>1 DEF Events
  <2>3. /\ Append(refused, Head(toController).id) \in Seq(Commands)
        /\ downstream \cup {Head(toController).id} \in SUBSET Commands
    BY <2>2
  <2>4. QED
    BY <1>1, <2>1, <2>3 DEF ControllerExecute
<1>2. CASE ControllerCancel
  <2>1. Tail(toController) \in Seq(Events)
    BY <1>2, TailSet DEF ControllerCancel
  <2>2. QED
    BY <1>2, <2>1 DEF ControllerCancel
<1>3. ASSUME NEW c \in Commands, ShellAnswers(c) PROVE TypeOK'
  BY <1>3, AppendSet DEF ShellAnswers
<1>4. QED
  BY <1>1, <1>2, <1>3 DEF Environment

LEMMA TypeStep == TypeOK /\ [Next]_vars => TypeOK'
<1> SUFFICES ASSUME TypeOK, [Next]_vars PROVE TypeOK'
  OBVIOUS
<1>1. CASE Next
  BY <1>1, TaskType, MainType, EnvironmentType DEF Next
<1>2. CASE UNCHANGED vars
  BY <1>2 DEF vars, TypeOK
<1>3. QED
  BY <1>1, <1>2

(* Every variable stays in its set, for any set of commands: in particular *)
(* the queues only ever hold ids that were submitted.                      *)
THEOREM TypeCorrect == Spec => []TypeOK
  BY TypeInit, TypeStep, PTL DEF Spec
-----------------------------------------------------------------------------
(* RepliesAreOwn: only TakeIfOwn and HandleRefused reply, each to the      *)
(* command that is both the running one and the one the event names.       *)
LEMMA RepliesStep == TypeOK /\ RepliesAreOwn /\ [Next]_vars => RepliesAreOwn'
<1> SUFFICES ASSUME TypeOK, RepliesAreOwn, [Next]_vars
             PROVE  RepliesAreOwn'
  OBVIOUS
<1> USE DEF RepliesAreOwn
<1>1. CASE HandleExecuted
  BY <1>1 DEF HandleExecuted, TakeIfOwn, Answer, TypeOK
<1>2. CASE HandleRefused
  BY <1>2 DEF HandleRefused, Answer, TypeOK
<1>3. ASSUME reply' = reply PROVE RepliesAreOwn'
  BY <1>3
<1>4. ASSUME NEW c \in Commands, Task(c) PROVE reply' = reply
  BY <1>4 DEF Task, Enqueue, ThreadExecute, Receive, ReceiveError, Drop,
              CheckRunning, TakeRunning, RetainPending
<1>5. ASSUME Environment PROVE reply' = reply
  BY <1>5 DEF Environment, ControllerExecute, ControllerCancel, ShellAnswers
<1>6. ASSUME MainExecute \/ UserCommand \/ UNCHANGED vars PROVE reply' = reply
  BY <1>6 DEF MainExecute, UserCommand, ClearAll, vars
<1>7. QED
  BY <1>1, <1>2, <1>3, <1>4, <1>5, <1>6 DEF Next, Main

(* Whatever is cancelled, refused or cleared, and however late an output   *)
(* arrives, a caller gets its own output, a refusal, or nothing.           *)
THEOREM OwnReplies == Spec => []RepliesAreOwn
<1>1. Init => RepliesAreOwn
  BY DEF Init, RepliesAreOwn
<1>2. QED
  BY <1>1, TypeCorrect, RepliesStep, PTL DEF Spec

-----------------------------------------------------------------------------
(* NeverStalls: an action that empties the slot, or queues a command, puts *)
(* its own thread on the way to execute_command_internal, and a thread     *)
(* leaves that way only by running it.                                     *)
LEMMA ExecuteInternalServes ==
  ASSUME TypeOK, ExecuteInternal
  PROVE  pending' = <<>> \/ running' # None
<1>1. CASE running = None /\ pending # <<>>
  BY <1>1, TailSet, CommandsAssumption DEF ExecuteInternal, TypeOK
<1>2. CASE ~(running = None /\ pending # <<>>)
  BY <1>2 DEF ExecuteInternal
<1>3. QED
  BY <1>1, <1>2

LEMMA NeverStallsStep == TypeOK /\ NeverStalls /\ [Next]_vars => NeverStalls'
<1> SUFFICES ASSUME TypeOK, NeverStalls, [Next]_vars
             PROVE  NeverStalls'
  OBVIOUS
<1> USE DEF NeverStalls, Restarting
<1>1. ASSUME NEW c \in Commands, Task(c) PROVE NeverStalls'
  <2>1. CASE Enqueue(c)
    BY <2>1 DEF Enqueue, TypeOK
  <2>2. CASE ThreadExecute(c)
    BY <2>2, ExecuteInternalServes DEF ThreadExecute
  <2>3. CASE Receive(c)
    BY <2>3 DEF Receive
  <2>4. CASE ReceiveError(c)
    BY <2>4 DEF ReceiveError
  <2>5. CASE Drop(c)
    BY <2>5 DEF Drop, TypeOK
  <2>6. CASE CheckRunning(c)
    BY <2>6 DEF CheckRunning, TypeOK
  <2>7. CASE TakeRunning(c)
    BY <2>7 DEF TakeRunning, TypeOK
  <2>8. CASE RetainPending(c)
    <3>1. CASE thread[c] = "taken"
      BY <2>8, <3>1 DEF RetainPending, AfterRetain, TypeOK
    <3>2. CASE thread[c] = "retain"
      <4>1. pending = <<>> => pending' = <<>>
        BY <2>8 DEF RetainPending, Without, ToSet
      <4>2. QED
        BY <2>8, <3>2, <4>1 DEF RetainPending, AfterRetain, TypeOK
    <3>3. QED
      BY <2>8, <3>1, <3>2 DEF RetainPending
  <2>9. QED
    BY <1>1, <2>1, <2>2, <2>3, <2>4, <2>5, <2>6, <2>7, <2>8 DEF Task
<1>2. CASE Main
  <2>1. CASE HandleExecuted
    BY <2>1 DEF HandleExecuted
  <2>2. CASE HandleRefused
    BY <2>2 DEF HandleRefused
  <2>3. CASE MainExecute
    BY <2>3, ExecuteInternalServes DEF MainExecute
  <2>4. CASE UserCommand
    BY <2>4 DEF UserCommand, ClearAll
  <2>5. QED
    BY <1>2, <2>1, <2>2, <2>3, <2>4 DEF Main
<1>3. CASE Environment
  BY <1>3 DEF Environment, ControllerExecute, ControllerCancel, ShellAnswers
<1>4. CASE UNCHANGED vars
  BY <1>4 DEF vars
<1>5. QED
  BY <1>1, <1>2, <1>3, <1>4 DEF Next

(* Pending commands are never left with nobody who will start them, though *)
(* cancel_command's two looks at running_command may empty the slot for    *)
(* another's command.                                                      *)
THEOREM QueueNeverStalls == Spec => []NeverStalls
<1>1. Init => NeverStalls
  BY DEF Init, NeverStalls
<1>2. QED
  BY <1>1, TypeCorrect, NeverStallsStep, PTL DEF Spec
-----------------------------------------------------------------------------
(* RunnerIsOutstanding needs ExecuteFollowsCancel, for the one step that   *)
(* takes a command from the controller (ControllerCancel).                 *)
IInv == TypeOK /\ RunnerIsOutstanding /\ ExecuteFollowsCancel

(* The channel shrinks at its head only: places move down by one.          *)
LEMMA FollowsTail ==
  ASSUME TypeOK, ExecuteFollowsCancel, toController # <<>>,
         toController' = Tail(toController), UNCHANGED <<running, thread>>
  PROVE  ExecuteFollowsCancel'
<1>1. /\ DOMAIN toController = 1..Len(toController)
      /\ DOMAIN toController' = 1..(Len(toController) - 1)
      /\ Len(toController) \in Nat
      /\ \A i \in DOMAIN toController' : toController'[i] = toController[i + 1]
  BY DEF TypeOK
<1>2. ASSUME NEW c \in Commands, NEW i \in DOMAIN toController',
             toController'[i] = Cancel(c), running = c,
             thread[c] \notin {"check", "take"}
      PROVE  \E j \in DOMAIN toController' :
                j > i /\ toController'[j] = Execute(c)
  <2>1. i + 1 \in DOMAIN toController /\ toController[i + 1] = Cancel(c)
    BY <1>1, <1>2
  <2>2. PICK j \in DOMAIN toController : j > i + 1 /\ toController[j] = Execute(c)
    BY <1>2, <2>1 DEF ExecuteFollowsCancel
  <2>3. /\ j - 1 \in DOMAIN toController' /\ j - 1 > i
        /\ toController'[j - 1] = Execute(c)
    BY <1>1, <2>2
  <2>4. QED
    BY <2>3
<1>3. QED
  BY <1>2 DEF ExecuteFollowsCancel

(* It grows at its end: by the Execute of the new running command, ...     *)
LEMMA FollowsExecute ==
  ASSUME TypeOK, ExecuteFollowsCancel, ExecuteInternal,
         \A c \in Commands :
           thread[c] \in {"check", "take"} => thread'[c] = thread[c]
  PROVE  ExecuteFollowsCancel'
<1>1. CASE running = None /\ pending # <<>>
  <2> DEFINE h == Head(pending)
  <2>1. running' = h /\ toController' = Append(toController, Execute(h))
    BY <1>1 DEF ExecuteInternal
  <2>2. /\ DOMAIN toController' = 1..(Len(toController) + 1)
        /\ Len(toController) \in Nat
        /\ toController'[Len(toController) + 1] = Execute(h)
    BY <2>1 DEF TypeOK
  <2>3. \A c \in Commands : Execute(h) # Cancel(c)
    BY DEF Execute, Cancel
  <2> HIDE DEF h
  <2>4. ASSUME NEW c \in Commands, NEW i \in DOMAIN toController',
               toController'[i] = Cancel(c), running' = c
        PROVE  \E j \in DOMAIN toController' :
                  j > i /\ toController'[j] = Execute(c)
    <3>1. i < Len(toController) + 1
      BY <2>2, <2>3, <2>4
    <3>2. QED
      BY <2>1, <2>2, <2>4, <3>1
  <2>5. QED
    BY <2>4 DEF ExecuteFollowsCancel
<1>2. CASE ~(running = None /\ pending # <<>>)
  BY <1>2 DEF ExecuteInternal, ExecuteFollowsCancel
<1>3. QED
  BY <1>1, <1>2

(* ... or by a Cancel whose thread goes on to check.                       *)
LEMMA FollowsDrop ==
  ASSUME TypeOK, ExecuteFollowsCancel, NEW c \in Commands, Drop(c)
  PROVE  ExecuteFollowsCancel'
<1>1. /\ toController' = Append(toController, Cancel(c))
      /\ running' = running
  BY DEF Drop
<1>2. /\ DOMAIN toController' = 1..(Len(toController) + 1)
      /\ DOMAIN toController = 1..Len(toController)
      /\ Len(toController) \in Nat
      /\ toController'[Len(toController) + 1] = Cancel(c)
      /\ \A i \in DOMAIN toController : toController'[i] = toController[i]
  BY <1>1 DEF TypeOK
<1>3. \A d \in Commands : thread[d] \in {"check", "take"} =>
                            thread'[d] \in {"check", "take"}
  BY DEF TypeOK, Drop
<1>4. thread'[c] = "check"
  BY DEF TypeOK, Drop
<1>5. ASSUME NEW d \in Commands, NEW i \in DOMAIN toController',
             toController'[i] = Cancel(d), running' = d
      PROVE  \/ thread'[d] \in {"check", "take"}
             \/ \E j \in DOMAIN toController' :
                   j > i /\ toController'[j] = Execute(d)
  <2>1. CASE i = Len(toController) + 1
    <3>1. d = c
      BY <2>1, <1>2, <1>5 DEF Cancel
    <3>2. QED
      BY <3>1, <1>4
  <2>2. CASE i # Len(toController) + 1
    <3>1. i \in DOMAIN toController /\ toController[i] = Cancel(d)
      BY <2>2, <1>2, <1>5
    <3>2. \/ thread[d] \in {"check", "take"}
          \/ \E j \in DOMAIN toController :
                j > i /\ toController[j] = Execute(d)
      BY <1>1, <1>5, <3>1 DEF ExecuteFollowsCancel
    <3>3. QED
      BY <1>2, <1>3, <3>2
  <2>3. QED
    BY <2>1, <2>2
<1>6. QED
  BY <1>5 DEF ExecuteFollowsCancel

(* A step that leaves the channel alone and starts no command: a thread    *)
(* stops cancelling only when its command is not the running one.          *)
LEMMA FollowsFrame ==
  ASSUME TypeOK, ExecuteFollowsCancel, toController' = toController,
         running' \in {running, None},
         \A c \in Commands :
           thread[c] \in {"check", "take"} /\ running' = c =>
             thread'[c] \in {"check", "take"}
  PROVE  ExecuteFollowsCancel'
  BY CommandsAssumption DEF ExecuteFollowsCancel
LEMMA FollowsStep ==
  TypeOK /\ ExecuteFollowsCancel /\ [Next]_vars => ExecuteFollowsCancel'
<1> SUFFICES ASSUME TypeOK, ExecuteFollowsCancel, [Next]_vars
             PROVE  ExecuteFollowsCancel'
  OBVIOUS
<1>1. ASSUME NEW c \in Commands, Task(c) PROVE ExecuteFollowsCancel'
  <2>1. CASE ThreadExecute(c)
    BY <2>1, FollowsExecute DEF ThreadExecute, TypeOK
  <2>2. CASE Drop(c)
    BY <2>2, FollowsDrop
  <2>3. CASE Enqueue(c)
    BY <2>3, FollowsFrame DEF Enqueue, TypeOK
  <2>4. CASE Receive(c) \/ ReceiveError(c)
    BY <2>4, FollowsFrame DEF Receive, ReceiveError
  <2>5. CASE CheckRunning(c)
    BY <2>5, FollowsFrame DEF CheckRunning, TypeOK
  <2>6. CASE TakeRunning(c)
    BY <2>6, FollowsFrame, CommandsAssumption DEF TakeRunning, TypeOK
  <2>7. CASE RetainPending(c)
    BY <2>7, FollowsFrame DEF RetainPending, TypeOK
  <2>8. QED
    BY <1>1, <2>1, <2>2, <2>3, <2>4, <2>5, <2>6, <2>7 DEF Task
<1>2. CASE MainExecute
  BY <1>2, FollowsExecute DEF MainExecute
<1>3. CASE HandleExecuted \/ HandleRefused \/ UserCommand
  BY <1>3, FollowsFrame
  DEF HandleExecuted, TakeIfOwn, HandleRefused, UserCommand, ClearAll
<1>4. CASE ControllerExecute \/ ControllerCancel
  BY <1>4, FollowsTail DEF ControllerExecute, ControllerCancel
<1>5. ASSUME NEW c \in Commands, ShellAnswers(c) PROVE ExecuteFollowsCancel'
  BY <1>5, FollowsFrame DEF ShellAnswers
<1>6. CASE UNCHANGED vars
  BY <1>6, FollowsFrame DEF vars
<1>7. QED
  BY <1>1, <1>2, <1>3, <1>4, <1>5, <1>6 DEF Next, Main, Environment

(* As long as a cancellation of the running command is under way to the    *)
(* controller, its Execute comes later in the same channel, or the thread  *)
(* that sent the cancellation is about to look at the slot and free it     *)
(* (drop of ExecuteCommandFuture), for any number of tasks.                *)
THEOREM ExecutesFollowCancels == Spec => []ExecuteFollowsCancel
<1>1. Init => ExecuteFollowsCancel
  BY DEF Init, ExecuteFollowsCancel
<1>2. QED
  BY <1>1, FollowsStep, TypeCorrect, PTL DEF Spec

(* A command that is made the running one is on its way to the controller. *)
LEMMA OutstandingExecute ==
  ASSUME TypeOK, RunnerIsOutstanding, ExecuteInternal,
         UNCHANGED <<downstream, executed, refused>>,
         \A c \in Commands :
           thread[c] \in {"check", "take"} => thread'[c] = thread[c]
  PROVE  RunnerIsOutstanding'
<1>1. CASE running = None /\ pending # <<>>
  <2>1. /\ running' = Head(pending) /\ Head(pending) \in Commands
        /\ toController' = Append(toController, Execute(Head(pending)))
    BY <1>1, TailSet DEF ExecuteInternal, TypeOK
  <2>2. Execute(Head(pending)) \in Events
    BY <2>1 DEF Execute, Events
  <2>3. Execute(Head(pending)) \in ToSet(toController')
    BY <2>1, <2>2, AppendSet DEF TypeOK
  <2>4. QED
    BY <2>1, <2>3 DEF RunnerIsOutstanding
<1>2. CASE ~(running = None /\ pending # <<>>)
  BY <1>2 DEF ExecuteInternal, RunnerIsOutstanding
<1>3. QED
  BY <1>1, <1>2

LEMMA OutstandingTask ==
  ASSUME IInv, NEW c \in Commands, Task(c)
  PROVE  RunnerIsOutstanding'
<1> USE DEF IInv
<1>1. CASE ThreadExecute(c)
  BY <1>1, OutstandingExecute DEF ThreadExecute, TypeOK
<1>2. CASE Drop(c)
  <2>1. Cancel(c) \in Events
    BY DEF Cancel, Events
  <2>2. ToSet(toController') = ToSet(toController) \cup {Cancel(c)}
    BY <1>2, <2>1, AppendSet DEF Drop, TypeOK
  <2>3. \A d \in Commands : thread[d] \in {"check", "take"} =>
                            thread'[d] = thread[d]
    BY <1>2 DEF Drop, TypeOK
  <2>4. QED
    BY <1>2, <2>2, <2>3 DEF Drop, RunnerIsOutstanding
<1>3. CASE Enqueue(c) \/ Receive(c) \/ ReceiveError(c)
  <2>1. CASE thread' = thread
    BY <1>3, <2>1 DEF Enqueue, Receive, ReceiveError, RunnerIsOutstanding
  <2>2. CASE Enqueue(c)
    BY <2>2 DEF Enqueue, RunnerIsOutstanding, TypeOK
  <2>3. QED
    BY <1>3, <2>1, <2>2 DEF Receive, ReceiveError
<1>4. CASE CheckRunning(c)
  BY <1>4 DEF CheckRunning, RunnerIsOutstanding, TypeOK
<1>5. CASE TakeRunning(c)
  BY <1>5, CommandsAssumption DEF TakeRunning, RunnerIsOutstanding
<1>6. CASE RetainPending(c)
  BY <1>6 DEF RetainPending, RunnerIsOutstanding, TypeOK
<1>7. QED
  BY <1>1, <1>2, <1>3, <1>4, <1>5, <1>6 DEF Task

LEMMA OutstandingMain ==
  ASSUME IInv, Main
  PROVE  RunnerIsOutstanding'
<1> USE DEF IInv
<1>1. CASE HandleExecuted
  <2>1. ToSet(executed) = ToSet(executed') \cup {Head(executed)}
    BY <1>1, TailSet DEF HandleExecuted, TypeOK
  <2>2. QED
    BY <1>1, <2>1, CommandsAssumption
    DEF HandleExecuted, TakeIfOwn, RunnerIsOutstanding
<1>2. CASE HandleRefused
  <2>1. ToSet(refused) = ToSet(refused') \cup {Head(refused)}
    BY <1>2, TailSet DEF HandleRefused, TypeOK
  <2>2. QED
    BY <1>2, <2>1, CommandsAssumption DEF HandleRefused, RunnerIsOutstanding
<1>3. CASE MainExecute
  BY <1>3, OutstandingExecute DEF MainExecute
<1>4. CASE UserCommand
  BY <1>4, CommandsAssumption DEF UserCommand, ClearAll, RunnerIsOutstanding
<1>5. QED
  BY <1>1, <1>2, <1>3, <1>4 DEF Main

LEMMA OutstandingEnvironment ==
  ASSUME IInv, Environment
  PROVE  RunnerIsOutstanding'
<1> USE DEF IInv
<1>1. CASE ControllerExecute
  <2> DEFINE e == Head(toController)
  <2>1. /\ e \in Events /\ e.op = "execute"
        /\ ToSet(toController) = ToSet(toController') \cup {e}
    BY <1>1, TailSet DEF ControllerExecute, TypeOK
  <2>2. \A d \in Commands : e = Execute(d) => e.id = d
    BY DEF Execute
  <2>3. ToSet(Append(refused, e.id)) = ToSet(refused) \cup {e.id}
    BY <2>1, AppendSet DEF Events, TypeOK
  <2>4. \/ downstream' = downstream \cup {e.id} /\ refused' = refused
        \/ downstream' = downstream /\ refused' = Append(refused, e.id)
    BY <1>1 DEF ControllerExecute
  <2>5. UNCHANGED <<running, executed, thread>>
    BY <1>1 DEF ControllerExecute
  <2> HIDE DEF e
  <2>6. QED
    BY <2>1, <2>2, <2>3, <2>4, <2>5 DEF RunnerIsOutstanding
<1>2. CASE ControllerCancel
  <2> DEFINE e == Head(toController)
  <2>1. /\ e \in Events /\ e.op = "cancel"
        /\ ToSet(toController) = ToSet(toController') \cup {e}
    BY <1>2, TailSet DEF ControllerCancel, TypeOK
  <2>2. e = Cancel(e.id) /\ e.id \in Commands
    BY <2>1 DEF Cancel, Events
  <2>3. \A d \in Commands : e # Execute(d)
    BY <2>1 DEF Execute
  <2>4. /\ DOMAIN toController = 1..Len(toController) /\ Len(toController) \in Nat
        /\ 1 \in DOMAIN toController /\ toController[1] = e
    BY <1>2 DEF ControllerCancel, TypeOK
  <2>5. /\ UNCHANGED <<running, executed, refused, thread>>
        /\ downstream \ {e.id} \subseteq downstream'
    BY <1>2 DEF ControllerCancel
  <2> HIDE DEF e
  <2>6. ASSUME running = e.id, thread[e.id] \notin {"check", "take"}
        PROVE  Execute(e.id) \in ToSet(toController')
    <3>1. PICK j \in DOMAIN toController :
                 j > 1 /\ toController[j] = Execute(e.id)
      BY <2>2, <2>4, <2>6 DEF ExecuteFollowsCancel
    <3>2. Execute(e.id) \in ToSet(toController)
      BY <3>1 DEF ToSet
    <3>3. QED
      BY <2>1, <2>2, <2>3, <3>2
  <2>7. QED
    BY <2>1, <2>2, <2>3, <2>5, <2>6 DEF RunnerIsOutstanding
<1>3. ASSUME NEW c \in Commands, ShellAnswers(c) PROVE RunnerIsOutstanding'
  <2>1. ToSet(executed') = ToSet(executed) \cup {c}
    BY <1>3, AppendSet DEF ShellAnswers, TypeOK
  <2>2. QED
    BY <1>3, <2>1 DEF ShellAnswers, RunnerIsOutstanding
<1>4. QED
  BY <1>1, <1>2, <1>3 DEF Environment

LEMMA OutstandingInit == Init => IInv
BY TypeInit, CommandsAssumption
   DEF IInv, Init, RunnerIsOutstanding, ExecuteFollowsCancel

LEMMA OutstandingStep == IInv /\ [Next]_vars => IInv'
<1> SUFFICES ASSUME IInv, [Next]_vars PROVE IInv'
  OBVIOUS
<1>1. TypeOK' /\ ExecuteFollowsCancel'
  BY TypeStep, FollowsStep DEF IInv
<1>2. CASE Next
  BY <1>1, <1>2, OutstandingTask, OutstandingMain, OutstandingEnvironment
     DEF Next, IInv
<1>3. CASE UNCHANGED vars
  BY <1>1, <1>3 DEF IInv, vars, RunnerIsOutstanding
<1>4. QED
  BY <1>2, <1>3

(* The executor never waits for a command that nobody works on, for any    *)
(* number of tasks: a command the controller drops on a CancelCommand has  *)
(* a thread about to free its slot, or is sent once more.                  *)
THEOREM RunnerNeverForgotten == Spec => []RunnerIsOutstanding
<1>1. IInv => RunnerIsOutstanding
  BY DEF IInv
<1>2. QED
  BY <1>1, OutstandingInit, OutstandingStep, PTL DEF Spec
=============================================================================
