------------------------- MODULE PtyControllerProofs -------------------------
(***************************************************************************)
(* What PtyController promises for any commands, in-band commands and      *)
(* completion requests: types, that commands never overlap, and that the   *)
(* count of in-band commands in flight is right as long as the pty is the  *)
(* controller's own during a completion.                                   *)
(***************************************************************************)
EXTENDS PtyController, TLAPS, SequenceTheorems, FiniteSetTheorems,
        WellFoundedInduction

-----------------------------------------------------------------------------
(* What Batch sends is a prefix of the queue in which only the last write  *)
(* may be a command.                                                       *)
LEMMA LeastElement ==
  ASSUME NEW I \in SUBSET Nat, I # {}
  PROVE  Min(I) \in I /\ \A k \in I : Min(I) <= k
<1> DEFINE R == {p \in Nat \X Nat : p[1] < p[2]}
<1>1. IsWellFoundedOn(R, Nat)
  BY NatLessThanWellFounded DEF OpToRel
<1>2. PICK m \in I : \A k \in I : <<k, m>> \notin R
  <2> HIDE DEF R
  <2>1. QED
    BY <1>1, WFMin, Zenon
<1>3. ASSUME NEW k \in I PROVE m <= k
  <2>1. <<k, m>> \in Nat \X Nat /\ <<k, m>>[1] = k /\ <<k, m>>[2] = m
    OBVIOUS
  <2>2. ~(k < m)
    BY <2>1, <1>2
  <2>3. QED
    BY <2>2
<1>4. QED
  BY <1>3 DEF Min

LEMMA BatchPrefix ==
  ASSUME NEW S, NEW q \in Seq(S)
  PROVE  \E n \in 0..Len(q) :
           /\ Batch(q) = SubSeq(q, 1, n)
           /\ \A i \in 1..n : i # n => ~StopsTheQueue(q[i])
           /\ n = 0 => q = <<>>
           /\ ~StopsTheQueue(q[n]) => n = Len(q)
<1>1. Len(q) \in Nat /\ SubSeq(q, 1, Len(q)) = q /\ (Len(q) = 0 => q = <<>>)
  BY SubSeqFull
<1>2. CASE Stops(q) = {}
  <2>1. Batch(q) = q /\ \A i \in 1..Len(q) : ~StopsTheQueue(q[i])
    BY <1>2 DEF Batch, Stops
  <2>2. WITNESS Len(q) \in 0..Len(q)
  <2>3. QED
    BY <2>1, <1>1
<1>3. CASE Stops(q) # {}
  <2> DEFINE n == Min(Stops(q))
  <2>1. Stops(q) \in SUBSET Nat /\ Stops(q) \in SUBSET (1..Len(q))
    BY DEF Stops
  <2>2. n \in Stops(q) /\ \A k \in Stops(q) : n <= k
    BY <1>3, <2>1, LeastElement
  <2>3. Batch(q) = SubSeq(q, 1, n)
    BY <1>3 DEF Batch
  <2> HIDE DEF n
  <2>4. n \in 1..Len(q) /\ StopsTheQueue(q[n])
    BY <2>1, <2>2 DEF Stops
  <2>5. \A i \in 1..n : i # n => ~StopsTheQueue(q[i])
    BY <2>2, <2>4 DEF Stops
  <2>6. n \in 0..Len(q) /\ n # 0
    BY <2>4, <1>1
  <2>7. QED
    BY <2>3, <2>4, <2>5, <2>6
<1>4. QED
  BY <1>2, <1>3

-----------------------------------------------------------------------------
(* TypeOK: every step keeps every variable in its set.                     *)
Queueable == Writes \ {Text}

LEMMA WithoutType ==
  ASSUME NEW S, NEW q \in Seq(S), NEW w
  PROVE  Without(q, w) \in Seq(S)
<1>1. CASE w \in ToSet(q)
  <2> DEFINE i == CHOOSE j \in DOMAIN q : q[j] = w
  <2>1. i \in 1..Len(q)
    BY <1>1 DEF ToSet
  <2> HIDE DEF i
  <2>2. SubSeq(q, 1, i - 1) \in Seq(S) /\ SubSeq(q, i + 1, Len(q)) \in Seq(S)
    BY <2>1
  <2>3. RemoveAt(q, i) \in Seq(S)
    BY <2>2 DEF RemoveAt
  <2>4. QED
    BY <1>1, <2>3 DEF Without, i
<1>2. CASE w \notin ToSet(q)
  BY <1>2 DEF Without
<1>3. QED
  BY <1>1, <1>2

LEMMA WriteKinds ==
  /\ Report \in Queueable /\ Completion \in Queueable /\ Text \in Writes
  /\ \A c \in Cmds : UserWrite(c) \in Queueable
  /\ \A c \in InBand : InBandWrite(c) \in Queueable
  /\ \A w \in Writes : w.kind = "inband" => w.id \in InBand
  /\ \A w \in Writes : w.kind = "command" => w.id \in Cmds
  /\ ~IsCommand(Report) /\ ~IsCommand(Completion) /\ ~IsCommand(Text)
  /\ \A c : IsCommand(UserWrite(c)) /\ IsCommand(InBandWrite(c))
<1> USE DEF Queueable, Writes, Report, Completion, Text, UserWrite,
            InBandWrite, Write, IsCommand
<1>1. Report \in Queueable /\ Completion \in Queueable /\ Text \in Writes
  OBVIOUS
<1>2. \A c \in Cmds : UserWrite(c) \in Queueable
  OBVIOUS
<1>3. \A c \in InBand : InBandWrite(c) \in Queueable
  OBVIOUS
<1>4. \A w \in Writes : w.kind = "inband" => w.id \in InBand
  OBVIOUS
<1>5. \A w \in Writes : w.kind = "command" => w.id \in Cmds
  OBVIOUS
<1>6. ~IsCommand(Report) /\ ~IsCommand(Completion) /\ ~IsCommand(Text)
  OBVIOUS
<1>7. \A c : IsCommand(UserWrite(c)) /\ IsCommand(InBandWrite(c))
  OBVIOUS
<1>8. QED
  BY <1>1, <1>2, <1>3, <1>4, <1>5, <1>6, <1>7

LEMMA BlockChange ==
  ASSUME NEW b \in Blocks
  PROVE  /\ \A i \in BOOLEAN :
              [b EXCEPT !.inBand = i, !.started = TRUE] \in Blocks
         /\ \A c \in Cmds : [b EXCEPT !.started = TRUE, !.owner = c] \in Blocks
BY DEF Blocks

LEMMA FlushType ==
  ASSUME TypeOK, NEW q \in Seq(Queueable), NEW text \in Seq(Writes),
         NEW act \in BOOLEAN, NEW expired \in Nat,
         NEW nat \in {"none", "prompt", "results"},
         Flush(q, text, act, expired, nat)
  PROVE  /\ pending' \in Seq(Queueable)
         /\ toShell' \in Seq(Writes)
         /\ native' \in {"none", "prompt", "results"}
         /\ active' \in BOOLEAN /\ armed' \in BOOLEAN /\ due' \in Nat
         /\ blk' \in Blocks
         /\ inFlight' \in Nat
<1> DEFINE batch == IF CanWrite(act, nat) THEN Batch(q) ELSE <<>>
           last == IF batch = <<>> THEN Report ELSE Last(batch)
<1>1. PICK n \in 0..Len(q) : Batch(q) = SubSeq(q, 1, n)
  BY BatchPrefix
<1>2. batch \in Seq(Queueable)
  BY <1>1, SubSeqProperties
<1>3. batch \in Seq(Writes)
  BY <1>2, SeqMonotonic DEF Queueable
<1>4. Len(batch) \in Nat
  BY <1>2
<1>5. WriteEffects(last, act, expired, nat)
  BY DEF Flush
<1>6. pending' = SubSeq(q, Len(batch) + 1, Len(q)) /\ toShell' = toShell \o text \o batch
  BY DEF Flush
<1> HIDE DEF batch, last
<1>7. pending' \in Seq(Queueable)
  BY <1>4, <1>6, SubSeqProperties, ElementOfSeq
<1>8. toShell' \in Seq(Writes)
  BY <1>3, <1>6 DEF TypeOK
<1>9. active' \in BOOLEAN /\ armed' \in BOOLEAN /\ due' \in Nat
  <2>1. CASE IsCommand(last)
    BY <1>5, <2>1 DEF WriteEffects, SetInactive
  <2>2. CASE ~IsCommand(last)
    BY <1>5, <2>2 DEF WriteEffects, TypeOK
  <2>3. QED
    BY <2>1, <2>2
<1>10. native' \in {"none", "prompt", "results"}
  BY <1>5 DEF WriteEffects
<1>11. /\ blk' \in Blocks
       /\ inFlight' \in Nat
  <2>1. CASE last.kind = "inband"
    <3>1. /\ blk' = [blk EXCEPT !.inBand = TRUE, !.started = TRUE]
          /\ inFlight' = inFlight + 1
      BY <1>5, <2>1 DEF WriteEffects
    <3>2. inFlight' \in Nat
      BY <3>1 DEF TypeOK
    <3>3. blk' \in Blocks
      BY <3>1, BlockChange DEF TypeOK
    <3>4. QED
      BY <3>2, <3>3
  <2>2. CASE last.kind # "inband"
    BY <1>5, <2>2 DEF WriteEffects, blockVars, TypeOK
  <2>3. QED
    BY <2>1, <2>2
<1>12. QED
  BY <1>7, <1>8, <1>9, <1>10, <1>11

LEMMA PromptHooksType == PromptHooks \in Seq(Hooks)
<1>1. <<"precmd", "endPrompt">> \in Seq(Hooks) /\ <<"precmd">> \in Seq(Hooks)
  BY DEF Hooks
<1>2. QED
  BY <1>1 DEF PromptHooks

LEMMA EventsType ==
  ASSUME NEW s \in Seq(Hooks), NEW h \in Hooks
  PROVE  Append(s, h) \in Seq(Hooks) /\ s \o PromptHooks \in Seq(Hooks)
<1>1. Append(s, h) \in Seq(Hooks)
  OBVIOUS
<1>2. QED
  BY <1>1, PromptHooksType

LEMMA TimerType ==
  ASSUME TypeOK, StartTimer
  PROVE  active' \in BOOLEAN /\ armed' \in BOOLEAN /\ due' \in Nat
<1>1. CASE active
  BY <1>1 DEF StartTimer, TypeOK
<1>2. CASE ~active
  BY <1>2 DEF StartTimer, MarkActiveAfterDelay, TypeOK
<1>3. QED
  BY <1>1, <1>2

LEMMA HandleEventType ==
  ASSUME TypeOK, HandleEvent
  PROVE  TypeOK'
<1> USE DEF TypeOK
<1>0. events' \in Seq(Hooks)
  BY DEF HandleEvent
<1> USE <1>0 DEF HandleEvent, executorVars, inputVars, queueVars, blockVars,
                 editorVars
<1>1. CASE HandlePreexec
  BY <1>1 DEF HandlePreexec, SetInactive
<1>2. CASE HandlePrecmd
  <2>1. active' \in BOOLEAN /\ armed' \in BOOLEAN /\ due' \in Nat
    <3>1. CASE Zsh
      BY <1>2, <3>1 DEF HandlePrecmd
    <3>2. CASE ~Zsh
      BY <1>2, <3>2, TimerType DEF HandlePrecmd
    <3>3. QED
      BY <3>1, <3>2
  <2>2. zshPrecmd' \in BOOLEAN
    BY <1>2 DEF HandlePrecmd
  <2>3. QED
    BY <1>2, <2>1, <2>2 DEF HandlePrecmd
<1>3. CASE HandleEndPrompt
  <2>1. CASE Zsh /\ zshPrecmd
    <3>1. active' \in BOOLEAN /\ armed' \in BOOLEAN /\ due' \in Nat
      BY <1>3, <2>1, TimerType DEF HandleEndPrompt
    <3>2. zshPrecmd' = FALSE
      BY <1>3, <2>1 DEF HandleEndPrompt
    <3>3. QED
      BY <1>3, <3>1, <3>2 DEF HandleEndPrompt
  <2>2. CASE ~(Zsh /\ zshPrecmd)
    BY <1>3, <2>2 DEF HandleEndPrompt
  <2>3. QED
    BY <2>1, <2>2
<1>4. CASE HandleUserFinished
  BY <1>4 DEF HandleUserFinished
<1>5. CASE HandleSendPrompt
  <2>1. CASE native = "prompt"
    <3>1. Flush(pending, <<Text>>, active, due, "results")
      BY <1>5, <2>1 DEF HandleSendPrompt
    <3>2. pending \in Seq(Queueable) /\ <<Text>> \in Seq(Writes)
      BY WriteKinds DEF Queueable
    <3>3. QED
      BY <1>5, <3>1, <3>2, FlushType DEF HandleSendPrompt, Queueable
  <2>2. CASE native # "prompt"
    BY <1>5, <2>2 DEF HandleSendPrompt
  <2>3. QED
    BY <2>1, <2>2
<1>6. CASE HandleCompleted
  BY <1>6 DEF HandleCompleted
<1>7. QED
  BY <1>1, <1>2, <1>3, <1>4, <1>5, <1>6

LEMMA ExecutorType ==
  ASSUME TypeOK, NEW c \in InBand,
         Issue(c) \/ SendCancel(c) \/ GiveUp \/ HandleExecutor
  PROVE  TypeOK'
<1> DEFINE Msgs == [op : {"execute", "cancel"}, id : InBand]
<1> USE DEF TypeOK, executorVars, inputVars, queueVars, blockVars, editorVars,
            shellVars
<1>1. CASE Issue(c)
  <2>1. Execute(c) \in Msgs
    BY DEF Execute
  <2>2. fromExecutor' \in Seq(Msgs)
    BY <1>1, <2>1 DEF Issue
  <2>3. QED
    BY <1>1, <2>2 DEF Issue
<1>2. CASE SendCancel(c)
  <2>1. Cancel(c) \in Msgs
    BY DEF Cancel
  <2>2. fromExecutor' \in Seq(Msgs)
    BY <1>2, <2>1 DEF SendCancel
  <2>3. QED
    BY <1>2, <2>2 DEF SendCancel
<1>3. CASE HandleExecutor
  <2> DEFINE m == Head(fromExecutor)
  <2>0. fromExecutor # <<>> /\ fromExecutor' = Tail(fromExecutor)
    BY <1>3 DEF HandleExecutor
  <2>a. fromExecutor \in Seq(Msgs)
    OBVIOUS
  <2>b. fromExecutor' \in Seq(Msgs) /\ m \in Msgs
    BY <2>0, <2>a, HeadTailProperties
  <2>1. fromExecutor' \in Seq(Msgs) /\ m.id \in InBand
    BY <2>b
  <2>2. pending \in Seq(Queueable)
    BY DEF Queueable
  <2>3. CASE QueueInBand(m.id) /\ userExecuting
    <3>1. /\ waiting' = waiting \ {m.id}
          /\ UNCHANGED <<queueVars, editorVars, blockVars, toShell>>
      BY <2>3 DEF QueueInBand
    <3>2. QED
      BY <1>3, <2>1, <3>1 DEF HandleExecutor
  <2>4. CASE QueueInBand(m.id) /\ ~userExecuting
    <3>1. Flush(Append(pending, InBandWrite(m.id)), <<>>, active, due, native)
      BY <2>4 DEF QueueInBand
    <3>2. Append(pending, InBandWrite(m.id)) \in Seq(Queueable)
      BY <2>1, <2>2, WriteKinds
    <3>3. <<>> \in Seq(Writes)
      OBVIOUS
    <3>4. UNCHANGED <<waiting, userExecuting, zshPrecmd>>
      BY <2>4 DEF QueueInBand
    <3>5. UNCHANGED <<issued, cancelled, shell, generators, ran, inputVars,
                      events>>
      BY <1>3 DEF HandleExecutor
    <3>6. QED
      BY <2>1, <3>1, <3>2, <3>3, <3>4, <3>5, FlushType DEF Queueable
  <2>5. CASE CancelInBand(m.id)
    <3>1. pending' \in Seq(Queueable)
      BY <2>2, <2>5, WithoutType DEF CancelInBand
    <3>2. QED
      BY <1>3, <2>1, <2>5, <3>1 DEF HandleExecutor, CancelInBand, Queueable
  <2>6. QED
    BY <1>3, <2>3, <2>4, <2>5 DEF HandleExecutor
<1>4. CASE GiveUp
  BY <1>4 DEF GiveUp
<1>5. QED
  BY <1>1, <1>2, <1>3, <1>4

LEMMA SubmitType ==
  ASSUME TypeOK, NEW c \in Cmds, Submit(c)
  PROVE  TypeOK'
<1> USE DEF TypeOK
<1>1. UserWrite(c) \in Queueable /\ UserWrite(c) \in Writes
  BY WriteKinds DEF Queueable
<1>2. blk' \in Blocks
  BY BlockChange DEF Submit
<1>3. /\ pending' \in Seq(Queueable) /\ toShell' \in Seq(Writes)
      /\ active' \in BOOLEAN /\ armed' \in BOOLEAN /\ due' \in Nat
  <2>1. CASE CanWrite(active, native)
    <3>1. /\ pending' = <<>> /\ toShell' = Append(toShell, UserWrite(c))
          /\ active' = FALSE /\ armed' = FALSE /\ due' = due
      BY <2>1 DEF Submit, SetInactive
    <3>2. pending' \in Seq(Queueable) /\ toShell' \in Seq(Writes)
      BY <1>1, <3>1
    <3>3. QED
      BY <3>1, <3>2
  <2>2. CASE ~CanWrite(active, native)
    <3>1. /\ pending' = <<UserWrite(c)>>
          /\ UNCHANGED <<toShell, active, armed, due>>
      BY <2>2 DEF Submit
    <3>2. QED
      BY <1>1, <3>1
  <2>3. QED
    BY <2>1, <2>2
<1>4. userExecuting' = TRUE /\ latest' = c
  BY DEF Submit
<1>5. waiting' \subseteq issued
  BY DEF Submit
<1>6. QED
  BY <1>2, <1>3, <1>4, <1>5 DEF Submit, Queueable

LEMMA RequestType ==
  ASSUME TypeOK, RequestCompletions
  PROVE  TypeOK'
<1> DEFINE q == Append(Without(pending, Completion), Completion)
<1>1. Flush(q, <<>>, active, due, native)
  BY DEF RequestCompletions
<1>2. q \in Seq(Queueable)
  BY WriteKinds, WithoutType DEF TypeOK, Queueable
<1>3. <<>> \in Seq(Writes)
  OBVIOUS
<1>4. nRequests' \in 0..MaxRequests
  BY ConstantsAssumption DEF RequestCompletions, TypeOK
<1> HIDE DEF q
<1>5. QED
  BY <1>1, <1>2, <1>3, <1>4, FlushType
     DEF RequestCompletions, TypeOK, executorVars, Queueable

LEMMA TimerStepType ==
  ASSUME TypeOK, TimerExpires \/ MarkActive
  PROVE  TypeOK'
<1> USE DEF TypeOK, executorVars, inputVars, queueVars, blockVars, shellVars
<1>1. CASE TimerExpires
  <2>1. armed' = FALSE /\ due' \in Nat
    BY <1>1 DEF TimerExpires
  <2>2. QED
    BY <1>1, <2>1 DEF TimerExpires
<1>2. CASE MarkActive
  <2>1. due - 1 \in Nat
    BY <1>2 DEF MarkActive
  <2>0. Flush(<<Report>> \o pending, <<>>, TRUE, due - 1, native)
    BY <1>2 DEF MarkActive
  <2>2. <<Report>> \o pending \in Seq(Queueable) /\ <<>> \in Seq(Writes)
    BY WriteKinds DEF Queueable
  <2>3. QED
    BY <1>2, <2>0, <2>1, <2>2, FlushType DEF MarkActive, Queueable
<1>3. QED
  BY <1>1, <1>2

LEMMA BeginType ==
  ASSUME TypeOK, NEW kind, NEW c, BeginCommand(kind, c),
         Running(kind, c) \in Shells, kind = "command" => c \in Cmds
  PROVE  /\ shell' \in Shells /\ blk' \in Blocks /\ events' \in Seq(Hooks)
         /\ ran' \in [Cmds -> Cmds \cup {None, NotRun}]
<1> USE DEF TypeOK
<1>1. shell' \in Shells
  BY DEF BeginCommand
<1>2. blk' \in Blocks
  <2>1. (kind = "inband") \in BOOLEAN
    OBVIOUS
  <2>2. QED
    BY <2>1, BlockChange DEF BeginCommand
<1>3. events' \in Seq(Hooks)
  <2>1. "preexec" \in Hooks
    BY DEF Hooks
  <2>2. QED
    BY <2>1, EventsType DEF BeginCommand
<1>4. ran' \in [Cmds -> Cmds \cup {None, NotRun}]
  <2>1. (IF blk.started THEN blk.owner ELSE None) \in Cmds \cup {None}
    BY DEF Blocks
  <2>2. QED
    BY <2>1 DEF BeginCommand
<1>5. QED
  BY <1>1, <1>2, <1>3, <1>4

LEMMA ShellType ==
  ASSUME TypeOK, ShellSteps \/ ShellTyped \/ ProgramReads
  PROVE  TypeOK'
<1> USE DEF TypeOK, executorVars, inputVars, queueVars, blockVars, editorVars
<1>1. ASSUME NEW w \in Writes, ShellExecutes(w)
      PROVE  TypeOK'
  <2>1. toShell # <<>> /\ toShell' = Tail(toShell) /\ IsCommand(w)
    BY <1>1 DEF ShellExecutes, ShellReads
  <2>2. toShell' \in Seq(Writes)
    BY <2>1
  <2>3. Running(w.kind, w.id) \in Shells /\ (w.kind = "command" => w.id \in Cmds)
    BY <2>1, WriteKinds DEF IsCommand, Shells
  <2>4. BeginCommand(w.kind, w.id)
    BY <1>1 DEF ShellExecutes
  <2>5. QED
    BY <1>1, <2>2, <2>3, <2>4, BeginType DEF ShellExecutes, BeginCommand
<1>2. CASE ShellTyped
  <2>1. Running(Typed, None) \in Shells /\ Typed # "command"
    BY DEF Shells, Typed
  <2>2. BeginCommand(Typed, None)
    BY <1>2 DEF ShellTyped
  <2>3. nTyped' \in 0..MaxTyped
    BY <1>2, ConstantsAssumption DEF ShellTyped
  <2>4. QED
    BY <1>2, <2>1, <2>2, <2>3, BeginType DEF ShellTyped, BeginCommand
<1>3. ASSUME NEW w \in Writes, ShellReadsKey(w)
      PROVE  TypeOK'
  <2>1. toShell' \in Seq(Writes)
    BY <1>3 DEF ShellReadsKey, ShellReads
  <2>2. shell' \in Shells
    BY <1>3 DEF ShellReadsKey, Shells
  <2>3. "sendPrompt" \in Hooks /\ "completed" \in Hooks
    BY DEF Hooks
  <2>4. events' \in Seq(Hooks)
    BY <1>3, <2>3, EventsType DEF ShellReadsKey
  <2>5. QED
    BY <1>3, <2>1, <2>2, <2>4 DEF ShellReadsKey
<1>4. CASE ProgramReads
  BY <1>4 DEF ProgramReads
<1>5. CASE ShellFinishes
  <2>1. shell' \in Shells
    BY <1>5 DEF ShellFinishes, Shells
  <2>2. blk' \in Blocks
    BY <1>5 DEF ShellFinishes, FreshBlock, Blocks
  <2>3. inFlight' \in Nat
    BY <1>5 DEF ShellFinishes, InFlightAfterFinish
  <2>4. "userFinished" \in Hooks
    BY DEF Hooks
  <2>5. events' \in Seq(Hooks)
    BY <1>5, <2>4, EventsType DEF ShellFinishes
  <2>6. shell.kind = "inband" => shell.id \in InBand
    BY DEF Shells, Idle, Running, Typed
  <2>7. generators' \subseteq InBand
    BY <1>5, <2>6 DEF ShellFinishes
  <2>8. QED
    BY <1>5, <2>1, <2>2, <2>3, <2>5, <2>7 DEF ShellFinishes
<1>6. CASE ShellPrompts
  <2>1. shell' \in Shells
    BY <1>6 DEF ShellPrompts, Shells
  <2>2. events' \in Seq(Hooks)
    BY <1>6, EventsType DEF ShellPrompts, Hooks
  <2>3. QED
    BY <1>6, <2>1, <2>2 DEF ShellPrompts
<1>7. ASSUME NEW c \in InBand, GeneratorAnswers(c)
      PROVE  TypeOK'
  BY <1>7 DEF GeneratorAnswers
<1>8. QED
  BY <1>1, <1>2, <1>3, <1>4, <1>5, <1>6, <1>7 DEF ShellSteps

LEMMA TypeInit == Init => TypeOK
<1> SUFFICES ASSUME Init PROVE TypeOK
  OBVIOUS
<1>1. events \in Seq(Hooks)
  BY PromptHooksType DEF Init
<1>2. FreshBlock \in Blocks /\ Idle("edit") \in Shells
  BY DEF FreshBlock, Blocks, Shells
<1>3. /\ blk \in Blocks /\ shell \in Shells
      /\ native \in {"none", "prompt", "results"}
  BY <1>2 DEF Init
<1>4. /\ pending \in Seq(Writes \ {Text}) /\ toShell \in Seq(Writes)
      /\ fromExecutor \in Seq([op : {"execute", "cancel"}, id : InBand])
  BY DEF Init
<1>5. userExecuting \in BOOLEAN /\ active \in BOOLEAN /\ armed \in BOOLEAN /\ zshPrecmd \in BOOLEAN
  BY DEF Init
<1>6. due \in Nat /\ inFlight \in Nat /\ nRequests \in 0..MaxRequests /\ nTyped \in 0..MaxTyped
  BY ConstantsAssumption DEF Init
<1>7. /\ waiting \in SUBSET issued /\ issued \in SUBSET InBand
      /\ cancelled \in SUBSET InBand /\ generators \in SUBSET InBand
      /\ latest \in Cmds \cup {None}
      /\ ran \in [Cmds -> Cmds \cup {None, NotRun}]
  BY DEF Init
<1>8. QED
  BY <1>1, <1>3, <1>4, <1>5, <1>6, <1>7 DEF TypeOK

LEMMA TypeStep ==
  ASSUME TypeOK, [Next]_vars
  PROVE  TypeOK'
<1>1. CASE HandleEvent
  BY <1>1, HandleEventType
<1>2. CASE TimerExpires \/ MarkActive
  BY <1>2, TimerStepType
<1>3. ASSUME NEW c \in InBand, Issue(c) \/ SendCancel(c)
      PROVE  TypeOK'
  BY <1>3, ExecutorType
<1>4. CASE ShellSteps \/ ShellTyped \/ ProgramReads
  BY <1>4, ShellType
<1>5. ASSUME NEW c \in Cmds, Submit(c)
      PROVE  TypeOK'
  BY <1>5, SubmitType
<1>6. CASE RequestCompletions
  BY <1>6, RequestType
<1>7. CASE UNCHANGED vars
  BY <1>7 DEF TypeOK, vars, queueVars, editorVars, blockVars, shellVars,
              executorVars, inputVars
<1>8. CASE HandleExecutor \/ GiveUp
  <2>1. PICK c \in InBand : TRUE
    BY <1>8 DEF HandleExecutor, GiveUp, TypeOK
  <2>2. QED
    BY <1>8, <2>1, ExecutorType
<1>9. QED
  BY <1>1, <1>2, <1>3, <1>4, <1>5, <1>6, <1>7, <1>8 DEF Next, Users

(* Types: the queue never holds the text to complete, ids stay what they   *)
(* are, and the counters stay natural numbers (PtyController).             *)
THEOREM TypeCorrect == Spec => []TypeOK
BY TypeInit, TypeStep, PTL DEF Spec

-----------------------------------------------------------------------------
(* Sequences with at most one element of a set.                            *)
Some(s, C) == \E i \in DOMAIN s : s[i] \in C
AtMostOne(s, C) == \A i, j \in DOMAIN s : s[i] \in C /\ s[j] \in C => i = j

LEMMA TailOfOne ==
  ASSUME NEW S, NEW s \in Seq(S), NEW C, s # <<>>
  PROVE  /\ Some(Tail(s), C) => Some(s, C)
         /\ AtMostOne(s, C) => AtMostOne(Tail(s), C)
         /\ Head(s) \in C => Some(s, C)
         /\ Head(s) \in C /\ AtMostOne(s, C) => ~Some(Tail(s), C)
<1>1. /\ DOMAIN s = 1..Len(s) /\ DOMAIN Tail(s) = 1..(Len(s) - 1)
      /\ Len(s) \in Nat \ {0} /\ Head(s) = s[1]
      /\ \A i \in 1..(Len(s) - 1) : Tail(s)[i] = s[i + 1]
  BY HeadTailProperties, EmptySeq
<1>2. \A i \in DOMAIN Tail(s) : i + 1 \in DOMAIN s /\ Tail(s)[i] = s[i + 1] /\ i + 1 # 1
  BY <1>1
<1>3. Some(Tail(s), C) => Some(s, C)
  BY <1>2 DEF Some
<1>4. ASSUME AtMostOne(s, C) PROVE AtMostOne(Tail(s), C)
  <2>1. SUFFICES ASSUME NEW i \in DOMAIN Tail(s), NEW j \in DOMAIN Tail(s),
                        Tail(s)[i] \in C, Tail(s)[j] \in C
                 PROVE  i = j
    BY DEF AtMostOne
  <2>2. i + 1 = j + 1
    BY <1>2, <1>4, <2>1 DEF AtMostOne
  <2>3. QED
    BY <1>1, <2>2
<1>5. Head(s) \in C => Some(s, C)
  BY <1>1 DEF Some
<1>6. Head(s) \in C /\ AtMostOne(s, C) => ~Some(Tail(s), C)
  BY <1>1, <1>2 DEF Some, AtMostOne
<1>7. QED
  BY <1>3, <1>4, <1>5, <1>6

LEMMA ConcatOfOne ==
  ASSUME NEW S, NEW s \in Seq(S), NEW t \in Seq(S), NEW C
  PROVE  /\ Some(s \o t, C) => Some(s, C) \/ Some(t, C)
         /\ AtMostOne(s, C) /\ AtMostOne(t, C) /\ ~(Some(s, C) /\ Some(t, C))
              => AtMostOne(s \o t, C)
<1>1. /\ DOMAIN s = 1..Len(s) /\ DOMAIN t = 1..Len(t)
      /\ DOMAIN (s \o t) = 1..(Len(s) + Len(t))
      /\ Len(s) \in Nat /\ Len(t) \in Nat
  BY ConcatProperties, LenProperties
<1>2. \A i \in DOMAIN (s \o t) :
        \/ i \in DOMAIN s /\ (s \o t)[i] = s[i]
        \/ i - Len(s) \in DOMAIN t /\ (s \o t)[i] = t[i - Len(s)]
  BY <1>1, ConcatProperties
<1>3. Some(s \o t, C) => Some(s, C) \/ Some(t, C)
  BY <1>2 DEF Some
<1>4. ASSUME AtMostOne(s, C), AtMostOne(t, C), ~(Some(s, C) /\ Some(t, C))
      PROVE  AtMostOne(s \o t, C)
  <2>1. SUFFICES ASSUME NEW i \in DOMAIN (s \o t), NEW j \in DOMAIN (s \o t),
                        (s \o t)[i] \in C, (s \o t)[j] \in C
                 PROVE  i = j
    BY DEF AtMostOne
  <2>2. CASE Some(s, C)
    <3>1. /\ i \in DOMAIN s /\ s[i] \in C
          /\ j \in DOMAIN s /\ s[j] \in C
      BY <1>2, <1>4, <2>1, <2>2 DEF Some
    <3>2. QED
      BY <1>4, <3>1 DEF AtMostOne
  <2>3. CASE ~Some(s, C)
    <3>1. /\ i - Len(s) \in DOMAIN t /\ t[i - Len(s)] \in C
          /\ j - Len(s) \in DOMAIN t /\ t[j - Len(s)] \in C
      BY <1>2, <2>1, <2>3 DEF Some
    <3>2. i - Len(s) = j - Len(s)
      BY <1>4, <3>1 DEF AtMostOne
    <3>3. QED
      BY <1>1, <3>2
  <2>4. QED
    BY <2>2, <2>3
<1>5. QED
  BY <1>3, <1>4

LEMMA SingletonOfOne ==
  ASSUME NEW C, NEW e
  PROVE  AtMostOne(<<e>>, C) /\ (Some(<<e>>, C) <=> e \in C)
BY DEF AtMostOne, Some

LEMMA EmptyOfOne ==
  ASSUME NEW C
  PROVE  AtMostOne(<<>>, C) /\ ~Some(<<>>, C)
BY DEF AtMostOne, Some

LEMMA AppendOfOne ==
  ASSUME NEW S, NEW s \in Seq(S), NEW e \in S, NEW C
  PROVE  /\ Some(Append(s, e), C) => Some(s, C) \/ e \in C
         /\ AtMostOne(s, C) /\ ~(Some(s, C) /\ e \in C)
              => AtMostOne(Append(s, e), C)
<1>1. Append(s, e) = s \o <<e>> /\ <<e>> \in Seq(S)
  OBVIOUS
<1>2. AtMostOne(<<e>>, C) /\ (Some(<<e>>, C) <=> e \in C)
  BY SingletonOfOne
<1>3. /\ Some(s \o <<e>>, C) => Some(s, C) \/ Some(<<e>>, C)
      /\ AtMostOne(s, C) /\ AtMostOne(<<e>>, C)
           /\ ~(Some(s, C) /\ Some(<<e>>, C)) => AtMostOne(s \o <<e>>, C)
  BY <1>1, ConcatOfOne
<1>4. QED
  BY <1>1, <1>2, <1>3

-----------------------------------------------------------------------------
(* The turn to write: it is with a command on its way to the shell, with   *)
(* the shell that runs one, with the hook that tells the prompt, with the  *)
(* timer, or with the line editor taken to be active.  At most one of      *)
(* these holds, and each at most once.                                     *)
ArmHook == IF Zsh THEN "endPrompt" ELSE "precmd"
Commands == {w \in Writes : IsCommand(w)}
CommandSent == Some(toShell, Commands)
ShellBusy == shell.st \in {"run", "prompt"}
PromptTold == Some(events, {ArmHook})
TimerRuns == armed \/ due > 0
OneTimer == due \in {0, 1} /\ (armed => due = 0)

OneTurn ==
  /\ CommandSent => ~ShellBusy /\ ~PromptTold /\ ~TimerRuns /\ ~active
  /\ ShellBusy => ~PromptTold /\ ~TimerRuns /\ ~active
  /\ PromptTold => ~TimerRuns /\ ~active
  /\ TimerRuns => ~active
  /\ AtMostOne(toShell, Commands) /\ AtMostOne(events, {ArmHook}) /\ OneTimer

(* Only the last write of a batch may be a command.                        *)
LEMMA BatchOfOne ==
  ASSUME NEW q \in Seq(Queueable)
  PROVE  /\ Batch(q) \in Seq(Writes) /\ AtMostOne(Batch(q), Commands)
         /\ Some(Batch(q), Commands) => Batch(q) # <<>> /\ IsCommand(Last(Batch(q)))
<1>1. PICK n \in 0..Len(q) :
         /\ Batch(q) = SubSeq(q, 1, n)
         /\ \A i \in 1..n : i # n => ~StopsTheQueue(q[i])
  BY BatchPrefix
<1>2. /\ Batch(q) \in Seq(Queueable) /\ Len(Batch(q)) = n
      /\ \A i \in 1..n : Batch(q)[i] = q[i]
  BY <1>1, SubSeqProperties, ElementOfSeq
<1>3. DOMAIN Batch(q) = 1..n
  BY <1>2
<1>4. Batch(q) \in Seq(Writes)
  BY <1>2, SeqMonotonic DEF Queueable
<1>5. \A i \in 1..n : Batch(q)[i] \in Commands => i = n
  BY <1>1, <1>2 DEF Commands, StopsTheQueue
<1>6. AtMostOne(Batch(q), Commands)
  BY <1>3, <1>5 DEF AtMostOne
<1>7. Some(Batch(q), Commands) => Batch(q) # <<>> /\ IsCommand(Last(Batch(q)))
  BY <1>2, <1>3, <1>5 DEF Some, Last, Commands
<1>8. QED
  BY <1>4, <1>6, <1>7

(* What a flush does to the turn: it sends no command and leaves the line  *)
(* editor alone, or the line editor was active and no longer is.           *)
FlushesNoCommand(act, expired) ==
  /\ CommandSent' => CommandSent
  /\ AtMostOne(toShell, Commands) => AtMostOne(toShell', Commands)
  /\ active' = act /\ armed' = armed /\ due' = expired

FlushesOneCommand(act, expired) ==
  /\ act
  /\ ~CommandSent => AtMostOne(toShell', Commands)
  /\ active' = FALSE /\ armed' = FALSE /\ due' = expired

LEMMA FlushTurn ==
  ASSUME TypeOK, NEW q \in Seq(Queueable), NEW text \in {<<>>, <<Text>>},
         NEW act, NEW expired, NEW nat,
         Flush(q, text, act, expired, nat)
  PROVE  FlushesNoCommand(act, expired) \/ FlushesOneCommand(act, expired)
<1> DEFINE batch == IF CanWrite(act, nat) THEN Batch(q) ELSE <<>>
           last == IF batch = <<>> THEN Report ELSE Last(batch)
<1>1. /\ WriteEffects(last, act, expired, nat)
      /\ toShell' = toShell \o text \o batch
  BY DEF Flush
<1>2. /\ batch \in Seq(Writes) /\ AtMostOne(batch, Commands)
      /\ Some(batch, Commands) => IsCommand(last)
      /\ batch # <<>> => CanWrite(act, nat)
  <2>1. CASE CanWrite(act, nat)
    BY <2>1, BatchOfOne
  <2>2. CASE ~CanWrite(act, nat)
    <3>1. batch = <<>>
      BY <2>2
    <3>2. /\ <<>> \in Seq(Writes) /\ AtMostOne(<<>>, Commands)
          /\ ~Some(<<>>, Commands)
      BY EmptyOfOne
    <3> HIDE DEF batch
    <3>3. QED
      BY <3>1, <3>2
  <2>3. QED
    BY <2>1, <2>2
<1>3. batch = <<>> => last = Report
  OBVIOUS
<1> HIDE DEF batch, last
<1>4. /\ toShell \in Seq(Writes) /\ text \in Seq(Writes)
      /\ ~Some(text, Commands) /\ AtMostOne(text, Commands)
  <2>1. Text \in Writes /\ Text \notin Commands
    BY WriteKinds DEF Commands
  <2>2. CASE text = <<>>
    BY <2>2, EmptyOfOne DEF TypeOK
  <2>3. CASE text = <<Text>>
    BY <2>1, <2>3, SingletonOfOne DEF TypeOK
  <2>4. QED
    BY <2>2, <2>3
<1>5. /\ toShell \o text \in Seq(Writes)
      /\ Some(toShell \o text, Commands) => CommandSent
      /\ AtMostOne(toShell, Commands) => AtMostOne(toShell \o text, Commands)
  BY <1>4, ConcatOfOne, ConcatProperties DEF CommandSent
<1>6. CASE IsCommand(last)
  <2>1. batch # <<>>
    BY <1>3, <1>6, WriteKinds
  <2>2. act
    BY <1>2, <2>1 DEF CanWrite
  <2>3. active' = FALSE /\ armed' = FALSE /\ due' = expired
    BY <1>1, <1>6 DEF WriteEffects, SetInactive
  <2>4. ASSUME ~CommandSent PROVE AtMostOne(toShell', Commands)
    <3>1. ~Some(toShell \o text, Commands)
      BY <1>5, <2>4
    <3>2. AtMostOne(toShell \o text, Commands)
      BY <3>1 DEF AtMostOne, Some
    <3>3. QED
      BY <1>1, <1>2, <1>5, <3>1, <3>2, ConcatOfOne
  <2>5. QED
    BY <2>2, <2>3, <2>4 DEF FlushesOneCommand
<1>7. CASE ~IsCommand(last)
  <2>1. active' = act /\ armed' = armed /\ due' = expired
    BY <1>1, <1>7 DEF WriteEffects
  <2>2. ~Some(batch, Commands)
    BY <1>2, <1>7
  <2>3. Some(toShell', Commands) => CommandSent
    BY <1>1, <1>2, <1>5, <2>2, ConcatOfOne
  <2>4. AtMostOne(toShell, Commands) => AtMostOne(toShell', Commands)
    BY <1>1, <1>2, <1>5, <2>2, ConcatOfOne
  <2>5. QED
    BY <2>1, <2>3, <2>4 DEF FlushesNoCommand, CommandSent
<1>8. QED
  BY <1>6, <1>7

-----------------------------------------------------------------------------
(* A flush leaves the turn with one, given who had it.                     *)
LEMMA FlushKeepsTurn ==
  ASSUME TypeOK, OneTurn, NEW q \in Seq(Queueable),
         NEW text \in {<<>>, <<Text>>}, NEW nat,
         Flush(q, text, active, due, nat),
         UNCHANGED shell,
         PromptTold' => PromptTold, AtMostOne(events', {ArmHook})
  PROVE  OneTurn'
<1>1. CASE FlushesNoCommand(active, due)
  BY <1>1 DEF FlushesNoCommand, OneTurn, OneTimer, TimerRuns, ShellBusy
<1>2. CASE FlushesOneCommand(active, due)
  <2>1. active /\ ~CommandSent /\ ~ShellBusy /\ ~PromptTold /\ ~TimerRuns
    BY <1>2 DEF OneTurn, FlushesOneCommand
  <2>2. due' = 0 /\ armed' = FALSE /\ active' = FALSE
    BY <1>2, <2>1 DEF FlushesOneCommand, TimerRuns, TypeOK
  <2>3. ~ShellBusy' /\ ~PromptTold' /\ ~TimerRuns' /\ OneTimer'
    BY <2>1, <2>2 DEF ShellBusy, TimerRuns, OneTimer
  <2>4. AtMostOne(toShell', Commands)
    BY <1>2, <2>1 DEF FlushesOneCommand
  <2>5. QED
    BY <2>2, <2>3, <2>4 DEF OneTurn
<1>3. QED
  BY <1>1, <1>2, FlushTurn

(* A step that sends no command, tells no prompt, and at most takes the    *)
(* turn from the timer or the line editor.                                 *)
LEMMA QuietStep ==
  ASSUME OneTurn,
         CommandSent' => CommandSent, AtMostOne(toShell', Commands),
         PromptTold' => PromptTold, AtMostOne(events', {ArmHook}),
         ShellBusy' => ShellBusy,
         \/ UNCHANGED <<active, armed, due>>
         \/ ~active' /\ ~armed' /\ due' = due
  PROVE  OneTurn'
<1>1. CASE UNCHANGED <<active, armed, due>>
  BY <1>1 DEF OneTurn, OneTimer, TimerRuns
<1>2. CASE ~active' /\ ~armed' /\ due' = due
  <2>1. OneTimer' /\ (TimerRuns' => TimerRuns)
    BY <1>2 DEF OneTurn, OneTimer, TimerRuns
  <2>2. QED
    BY <1>2, <2>1 DEF OneTurn
<1>3. QED
  BY <1>1, <1>2

(* The timer that a prompt starts takes the turn from it.                  *)
LEMMA TimerTakesTurn ==
  ASSUME OneTurn, StartTimer, PromptTold, ~PromptTold',
         AtMostOne(events', {ArmHook}), UNCHANGED <<toShell, shell>>
  PROVE  OneTurn'
<1>1. ~active /\ ~armed /\ due = 0 /\ ~CommandSent /\ ~ShellBusy
  BY DEF OneTurn, TimerRuns, OneTimer
<1>2. active' = active /\ armed' = TRUE /\ due' = 0
  BY <1>1 DEF StartTimer, MarkActiveAfterDelay
<1>3. OneTimer' /\ ~active' /\ ~CommandSent' /\ ~ShellBusy'
  BY <1>1, <1>2 DEF OneTimer, CommandSent, ShellBusy
<1>4. AtMostOne(toShell', Commands)
  BY DEF OneTurn
<1>5. QED
  BY <1>3, <1>4 DEF OneTurn

LEMMA EventTurn ==
  ASSUME TypeOK, OneTurn, HandleEvent
  PROVE  OneTurn'
<1> DEFINE A == {ArmHook}
<1>1. events \in Seq(Hooks) /\ events # <<>> /\ events' = Tail(events) /\ UNCHANGED shell
  BY DEF HandleEvent, TypeOK
<1>2. /\ PromptTold' => PromptTold
      /\ AtMostOne(events', A)
      /\ Head(events) \in A => PromptTold /\ ~PromptTold'
  BY <1>1, TailOfOne DEF PromptTold, OneTurn
<1>3. AtMostOne(toShell, Commands) /\ due \in {0, 1}
  BY DEF OneTurn, OneTimer
<1>4. CASE HandlePreexec
  <2>1. UNCHANGED toShell /\ ~active' /\ ~armed' /\ due' = due
    BY <1>4 DEF HandlePreexec, SetInactive
  <2>2. QED
    BY <1>1, <1>2, <1>3, <2>1, QuietStep DEF CommandSent, ShellBusy
<1>5. CASE Head(events) = "precmd" /\ HandlePrecmd
  <2>1. CASE Zsh
    <3>1. UNCHANGED <<active, armed, due, toShell>>
      BY <1>5, <2>1 DEF HandlePrecmd
    <3>2. QED
      BY <1>1, <1>2, <1>3, <3>1, QuietStep DEF CommandSent, ShellBusy
  <2>2. CASE ~Zsh
    <3>1. Head(events) \in A
      BY <1>5, <2>2 DEF ArmHook
    <3>2. StartTimer /\ UNCHANGED toShell
      BY <1>5, <2>2 DEF HandlePrecmd
    <3>3. QED
      BY <1>1, <1>2, <3>1, <3>2, TimerTakesTurn
  <2>3. QED
    BY <2>1, <2>2
<1>6. CASE Head(events) = "endPrompt" /\ HandleEndPrompt
  <2>1. CASE Zsh /\ zshPrecmd
    <3>1. Head(events) \in A
      BY <1>6, <2>1 DEF ArmHook
    <3>2. StartTimer /\ UNCHANGED toShell
      BY <1>6, <2>1 DEF HandleEndPrompt
    <3>3. QED
      BY <1>1, <1>2, <3>1, <3>2, TimerTakesTurn
  <2>2. CASE ~(Zsh /\ zshPrecmd)
    <3>1. UNCHANGED <<active, armed, due, toShell>>
      BY <1>6, <2>2 DEF HandleEndPrompt
    <3>2. QED
      BY <1>1, <1>2, <1>3, <3>1, QuietStep DEF CommandSent, ShellBusy
  <2>3. QED
    BY <2>1, <2>2
<1>7. CASE HandleSendPrompt /\ native = "prompt"
  <2>1. Flush(pending, <<Text>>, active, due, "results")
    BY <1>7 DEF HandleSendPrompt
  <2>2. pending \in Seq(Queueable)
    BY DEF TypeOK, Queueable
  <2>3. QED
    BY <1>1, <1>2, <2>1, <2>2, FlushKeepsTurn
<1>8. CASE \/ HandleSendPrompt /\ native # "prompt"
           \/ HandleUserFinished \/ HandleCompleted
  <2>1. UNCHANGED <<active, armed, due, toShell>>
    BY <1>8 DEF HandleSendPrompt, HandleUserFinished, HandleCompleted, editorVars
  <2>2. QED
    BY <1>1, <1>2, <1>3, <2>1, QuietStep DEF CommandSent, ShellBusy
<1>9. QED
  BY <1>4, <1>5, <1>6, <1>7, <1>8 DEF HandleEvent

LEMMA TimerTurn ==
  ASSUME TypeOK, OneTurn, TimerExpires \/ MarkActive
  PROVE  OneTurn'
<1> USE DEF CommandSent, PromptTold, ShellBusy
<1>1. CASE TimerExpires
  <2>1. /\ armed /\ due = 0
        /\ armed' = FALSE /\ due' = 1
        /\ UNCHANGED <<active, events, toShell, shell>>
    BY <1>1 DEF TimerExpires, OneTurn, OneTimer, shellVars
  <2>2. TimerRuns /\ OneTimer'
    BY <2>1 DEF TimerRuns, OneTimer
  <2>3. QED
    BY <2>1, <2>2 DEF OneTurn
<1>2. CASE MarkActive
  <2>1. Flush(<<Report>> \o pending, <<>>, TRUE, due - 1, native)
    BY <1>2 DEF MarkActive
  <2>2. /\ due = 1 /\ ~armed /\ TimerRuns
        /\ UNCHANGED <<events, shell>>
    BY <1>2 DEF MarkActive, OneTurn, OneTimer, TimerRuns
  <2>3. ~CommandSent /\ ~ShellBusy /\ ~PromptTold
    BY <2>2 DEF OneTurn
  <2>4. <<Report>> \o pending \in Seq(Queueable)
    BY WriteKinds DEF TypeOK, Queueable
  <2>5. /\ ~armed' /\ due' = 0
        /\ active' => ~CommandSent'
        /\ AtMostOne(toShell', Commands)
    <3>1. CASE FlushesNoCommand(TRUE, due - 1)
      BY <2>2, <2>3, <3>1 DEF FlushesNoCommand, OneTurn
    <3>2. CASE FlushesOneCommand(TRUE, due - 1)
      BY <2>2, <2>3, <3>2 DEF FlushesOneCommand
    <3>3. QED
      BY <2>1, <2>4, <3>1, <3>2, FlushTurn
  <2>6. ~TimerRuns' /\ OneTimer'
    BY <2>5 DEF TimerRuns, OneTimer
  <2>7. QED
    BY <2>2, <2>3, <2>5, <2>6 DEF OneTurn
<1>3. QED
  BY <1>1, <1>2

LEMMA ExecutorTurn ==
  ASSUME TypeOK, OneTurn, HandleExecutor
  PROVE  OneTurn'
<1> DEFINE m == Head(fromExecutor)
<1>0. m.id \in InBand
  <2>1. /\ fromExecutor \in Seq([op : {"execute", "cancel"}, id : InBand])
        /\ fromExecutor # <<>>
    BY DEF HandleExecutor, TypeOK
  <2>2. m \in [op : {"execute", "cancel"}, id : InBand]
    BY <2>1, HeadTailProperties
  <2>3. QED
    BY <2>2
<1>1. UNCHANGED <<shell, events>> /\ (QueueInBand(m.id) \/ CancelInBand(m.id))
  BY DEF HandleExecutor
<1>2. CASE QueueInBand(m.id) /\ ~userExecuting
  <2>1. Flush(Append(pending, InBandWrite(m.id)), <<>>, active, due, native)
    BY <1>2 DEF QueueInBand
  <2>2. Append(pending, InBandWrite(m.id)) \in Seq(Queueable)
    BY <1>0, WriteKinds DEF TypeOK, Queueable
  <2>3. PromptTold' => PromptTold /\ AtMostOne(events', {ArmHook})
    BY <1>1 DEF PromptTold, OneTurn
  <2>4. QED
    BY <1>1, <2>1, <2>2, <2>3, FlushKeepsTurn DEF PromptTold, OneTurn
<1>3. CASE (QueueInBand(m.id) /\ userExecuting) \/ CancelInBand(m.id)
  <2>1. UNCHANGED <<active, armed, due, toShell>>
    BY <1>3 DEF QueueInBand, CancelInBand, editorVars
  <2>2. QED
    BY <1>1, <2>1, QuietStep DEF CommandSent, PromptTold, ShellBusy, OneTurn
<1>4. QED
  BY <1>1, <1>2, <1>3

LEMMA RequestTurn ==
  ASSUME TypeOK, OneTurn, RequestCompletions
  PROVE  OneTurn'
<1> DEFINE q == Append(Without(pending, Completion), Completion)
<1>1. Flush(q, <<>>, active, due, native) /\ UNCHANGED <<shell, events>>
  BY DEF RequestCompletions
<1>2. q \in Seq(Queueable)
  BY WriteKinds, WithoutType DEF TypeOK, Queueable
<1> HIDE DEF q
<1>3. QED
  BY <1>1, <1>2, FlushKeepsTurn DEF PromptTold, OneTurn

LEMMA SubmitTurn ==
  ASSUME TypeOK, OneTurn, NEW c \in Cmds, Submit(c)
  PROVE  OneTurn'
<1> USE DEF PromptTold, ShellBusy
<1>1. UNCHANGED <<shell, events>>
  BY DEF Submit
<1>2. CASE CanWrite(active, native)
  <2>1. /\ toShell' = Append(toShell, UserWrite(c))
        /\ active' = FALSE /\ armed' = FALSE /\ due' = due
    BY <1>2 DEF Submit, SetInactive
  <2>2. active /\ ~CommandSent /\ ~ShellBusy /\ ~PromptTold /\ ~TimerRuns
    BY <1>2 DEF CanWrite, OneTurn
  <2>3. due' = 0
    BY <2>1, <2>2 DEF TimerRuns, TypeOK
  <2>4. ~TimerRuns' /\ OneTimer'
    BY <2>1, <2>3 DEF TimerRuns, OneTimer
  <2>5. UserWrite(c) \in Writes /\ toShell \in Seq(Writes)
    BY WriteKinds DEF Queueable, TypeOK
  <2>6. AtMostOne(toShell', Commands)
    BY <2>1, <2>2, <2>5, AppendOfOne DEF CommandSent, OneTurn
  <2>7. QED
    BY <1>1, <2>1, <2>2, <2>4, <2>6 DEF OneTurn
<1>3. CASE ~CanWrite(active, native)
  <2>1. UNCHANGED <<toShell, active, armed, due>>
    BY <1>3 DEF Submit
  <2>2. QED
    BY <1>1, <2>1, QuietStep DEF CommandSent, OneTurn
<1>4. QED
  BY <1>2, <1>3

(* The shell takes the turn from the command it reads, and hands it to the *)
(* prompt it prints.                                                       *)
LEMMA ExecutesTurn ==
  ASSUME TypeOK, OneTurn, NEW w \in Writes, ShellExecutes(w)
  PROVE  OneTurn'
<1>1. /\ toShell # <<>> /\ toShell' = Tail(toShell) /\ Head(toShell) = w
      /\ w \in Commands
      /\ shell' = Running(w.kind, w.id)
      /\ events' = Append(events, "preexec")
      /\ UNCHANGED <<active, armed, due>>
  BY DEF ShellExecutes, ShellReads, BeginCommand, Commands, editorVars
<1>2. toShell \in Seq(Writes) /\ events \in Seq(Hooks) /\ "preexec" \in Hooks
  BY DEF TypeOK, Hooks
<1>3. AtMostOne(toShell, Commands) /\ AtMostOne(events, {ArmHook})
  BY DEF OneTurn
<1>4. CommandSent /\ ~CommandSent' /\ AtMostOne(toShell', Commands)
  BY <1>1, <1>2, <1>3, TailOfOne DEF CommandSent
<1>5. ~ShellBusy /\ ~PromptTold /\ ~TimerRuns /\ ~active
  BY <1>4 DEF OneTurn
<1>6. "preexec" \notin {ArmHook}
  BY DEF ArmHook
<1>7. ~PromptTold' /\ AtMostOne(events', {ArmHook})
  BY <1>1, <1>2, <1>3, <1>5, <1>6, AppendOfOne DEF PromptTold
<1>8. ~TimerRuns' /\ ~active' /\ OneTimer'
  BY <1>1, <1>5 DEF TimerRuns, OneTimer, OneTurn
<1>9. QED
  BY <1>4, <1>7, <1>8 DEF OneTurn

LEMMA FinishesTurn ==
  ASSUME TypeOK, OneTurn, ShellFinishes
  PROVE  OneTurn'
<1>1. /\ ShellBusy
      /\ events' \in {events, Append(events, "userFinished")}
      /\ UNCHANGED <<toShell, active, armed, due>>
  BY DEF ShellFinishes, ShellBusy, editorVars
<1>2. events \in Seq(Hooks) /\ "userFinished" \in Hooks
  BY DEF TypeOK, Hooks
<1>3. "userFinished" \notin {ArmHook}
  BY DEF ArmHook
<1>4. (PromptTold' => PromptTold) /\ AtMostOne(events', {ArmHook})
  BY <1>1, <1>2, <1>3, AppendOfOne DEF PromptTold, OneTurn
<1>5. QED
  BY <1>1, <1>4, QuietStep DEF CommandSent, OneTurn

LEMMA HooksOfOne == AtMostOne(PromptHooks, {ArmHook})
BY DEF AtMostOne, PromptHooks, ArmHook

LEMMA PromptsTurn ==
  ASSUME TypeOK, OneTurn, ShellPrompts
  PROVE  OneTurn'
<1>1. /\ ShellBusy /\ ~ShellBusy'
      /\ events' = events \o PromptHooks
      /\ UNCHANGED <<toShell, active, armed, due>>
  BY DEF ShellPrompts, ShellBusy, editorVars, Idle
<1>2. ~CommandSent /\ ~PromptTold /\ ~TimerRuns /\ ~active
  BY <1>1 DEF OneTurn
<1>3. AtMostOne(PromptHooks, {ArmHook})
  BY HooksOfOne
<1>4. AtMostOne(events', {ArmHook})
  BY <1>1, <1>2, <1>3, ConcatOfOne, PromptHooksType DEF PromptTold, OneTurn, TypeOK
<1>5. ~CommandSent' /\ ~TimerRuns' /\ ~active' /\ OneTimer'
  BY <1>1, <1>2 DEF CommandSent, TimerRuns, OneTimer, OneTurn
<1>6. AtMostOne(toShell', Commands)
  BY <1>1 DEF OneTurn
<1>7. QED
  BY <1>1, <1>4, <1>5, <1>6 DEF OneTurn

LEMMA ReadsTurn ==
  ASSUME TypeOK, OneTurn, NEW w \in Writes, ShellReadsKey(w) \/ ProgramReads
  PROVE  OneTurn'
<1>1. /\ toShell # <<>> /\ toShell' = Tail(toShell)
      /\ UNCHANGED <<active, armed, due>>
  BY DEF ShellReadsKey, ShellReads, ProgramReads, editorVars
<1>2. toShell \in Seq(Writes) /\ events \in Seq(Hooks)
  BY DEF TypeOK
<1>3. (CommandSent' => CommandSent) /\ AtMostOne(toShell', Commands)
  BY <1>1, <1>2, TailOfOne DEF CommandSent, OneTurn
<1>4. PICK h \in {"sendPrompt", "completed"} :
        events' \in {events, Append(events, h)}
  BY DEF ShellReadsKey, ProgramReads
<1>5. h \in Hooks /\ h \notin {ArmHook}
  BY DEF Hooks, ArmHook
<1>6. (PromptTold' => PromptTold) /\ AtMostOne(events', {ArmHook})
  BY <1>2, <1>4, <1>5, AppendOfOne DEF PromptTold, OneTurn
<1>7. ShellBusy' => ShellBusy
  BY DEF ShellReadsKey, ProgramReads, ShellBusy, Idle
<1>8. QED
  BY <1>1, <1>3, <1>6, <1>7, QuietStep

(* The inductive invariant: until something is typed ahead, the turn to    *)
(* write is with one.                                                      *)
TurnKept == NothingTyped => OneTurn

LEMMA TurnInit == Init => OneTurn
<1>1. SUFFICES ASSUME Init PROVE OneTurn
  OBVIOUS
<1>2. /\ toShell = <<>> /\ shell.st = "edit" /\ events = PromptHooks
      /\ ~active /\ ~armed /\ due = 0
  <2>1. /\ toShell = <<>> /\ shell = Idle("edit") /\ events = PromptHooks
        /\ active = FALSE /\ armed = FALSE /\ due = 0
    BY <1>1 DEF Init
  <2>2. QED
    BY <2>1 DEF Idle
<1>3. ~CommandSent /\ AtMostOne(toShell, Commands)
  BY <1>2, EmptyOfOne DEF CommandSent
<1>4. ~ShellBusy /\ ~TimerRuns /\ ~active /\ OneTimer
  BY <1>2 DEF ShellBusy, TimerRuns, OneTimer
<1>5. AtMostOne(events, {ArmHook})
  BY <1>2, HooksOfOne
<1>6. QED
  BY <1>3, <1>4, <1>5 DEF OneTurn

LEMMA TurnStep ==
  ASSUME TypeOK, OneTurn, NothingTyped', [Next]_vars
  PROVE  OneTurn'
<1>1. CASE HandleEvent
  BY <1>1, EventTurn
<1>2. CASE TimerExpires \/ MarkActive
  BY <1>2, TimerTurn
<1>3. CASE HandleExecutor
  BY <1>3, ExecutorTurn
<1>4. ASSUME NEW w \in Writes, ShellExecutes(w)
      PROVE  OneTurn'
  BY <1>4, ExecutesTurn
<1>5. ASSUME NEW w \in Writes, ShellReadsKey(w) \/ ProgramReads
      PROVE  OneTurn'
  BY <1>5, ReadsTurn
<1>6. CASE ShellFinishes
  BY <1>6, FinishesTurn
<1>7. CASE ShellPrompts
  BY <1>7, PromptsTurn
<1>8. ASSUME NEW c \in InBand,
             GeneratorAnswers(c) \/ Issue(c) \/ SendCancel(c)
      PROVE  OneTurn'
  <2>1. UNCHANGED <<active, armed, due, toShell, shell, events>>
    BY <1>8 DEF GeneratorAnswers, Issue, SendCancel, editorVars, shellVars
  <2>2. QED
    BY <2>1, QuietStep DEF CommandSent, PromptTold, ShellBusy, OneTurn
<1>9. ASSUME NEW c \in Cmds, Submit(c)
      PROVE  OneTurn'
  BY <1>9, SubmitTurn
<1>10. CASE RequestCompletions
  BY <1>10, RequestTurn
<1>11. CASE ShellTyped
  BY <1>11 DEF ShellTyped, NothingTyped, TypeOK
<1>12. CASE GiveUp \/ UNCHANGED vars
  <2>1. UNCHANGED <<active, armed, due, toShell, shell, events>>
    BY <1>12 DEF GiveUp, vars, editorVars, shellVars
  <2>2. QED
    BY <2>1, QuietStep DEF CommandSent, PromptTold, ShellBusy, OneTurn
<1>13. CASE ProgramReads
  <2>1. Report \in Writes
    BY WriteKinds DEF Queueable
  <2>2. QED
    BY <1>13, <2>1, ReadsTurn
<1>14. QED
  BY <1>1, <1>2, <1>3, <1>4, <1>5, <1>6, <1>7, <1>8, <1>9, <1>10, <1>11,
     <1>12, <1>13 DEF Next, ShellSteps, Users

(* What is typed ahead stays typed.                                        *)
LEMMA TypedStays ==
  ASSUME TypeOK, [Next]_vars, NothingTyped'
  PROVE  NothingTyped
<1>1. nTyped' = nTyped \/ nTyped' = nTyped + 1
  <2> USE DEF inputVars
  <2>1. CASE HandleEvent \/ TimerExpires \/ MarkActive \/ HandleExecutor
    BY <2>1 DEF HandleEvent, TimerExpires, MarkActive, HandleExecutor
  <2>2. CASE ShellSteps
    BY <2>2 DEF ShellSteps, ShellExecutes, ShellReadsKey, ShellFinishes,
                ShellPrompts, GeneratorAnswers
  <2>3. CASE Users
    BY <2>3 DEF Users, Issue, SendCancel, GiveUp, Submit, RequestCompletions,
                ShellTyped, ProgramReads
  <2>4. CASE UNCHANGED vars
    BY <2>4 DEF vars
  <2>5. QED
    BY <2>1, <2>2, <2>3, <2>4 DEF Next
<1>2. nTyped \in Nat
  BY ConstantsAssumption DEF TypeOK
<1>3. QED
  BY <1>1, <1>2 DEF NothingTyped

LEMMA TurnAloneSuffices ==
  ASSUME TypeOK, TurnKept
  PROVE  OneCommandAtATime
<1>1. SUFFICES ASSUME NothingTyped, NEW i \in DOMAIN toShell,
                      IsCommand(toShell[i])
               PROVE  /\ shell.st # "run"
                      /\ \A j \in DOMAIN toShell : IsCommand(toShell[j]) => i = j
  BY DEF OneCommandAtATime
<1>2. \A k \in DOMAIN toShell : IsCommand(toShell[k]) => toShell[k] \in Commands
  BY DEF TypeOK, Commands
<1>3. CommandSent
  BY <1>1, <1>2 DEF CommandSent, Some
<1>4. shell.st # "run"
  BY <1>1, <1>3 DEF TurnKept, OneTurn, ShellBusy
<1>5. \A j \in DOMAIN toShell : IsCommand(toShell[j]) => i = j
  BY <1>1, <1>2 DEF TurnKept, OneTurn, AtMostOne
<1>6. QED
  BY <1>4, <1>5

(* Commands never overlap: until one is typed ahead, at most one of the    *)
(* commands written to the pty has not been read, and none while the shell *)
(* runs another, for any commands and completion requests, and though an   *)
(* expired timer is never stopped (LineEditorStatus and the queue of       *)
(* PtyController).                                                         *)
THEOREM CommandsNeverOverlap == Spec => []OneCommandAtATime
<1>1. Init => TurnKept
  BY TurnInit DEF TurnKept
<1>2. TypeOK /\ TurnKept /\ [Next]_vars => TurnKept'
  BY TurnStep, TypedStays DEF TurnKept
<1>3. TypeOK /\ TurnKept => OneCommandAtATime
  BY TurnAloneSuffices
<1>4. QED
  BY <1>1, <1>2, <1>3, TypeCorrect, PTL DEF Spec
-----------------------------------------------------------------------------
(* The count of in-band commands in flight.  As commands do not overlap,   *)
(* it is one while an in-band command is on its way to the shell or its    *)
(* block runs, and else none; the block knows which kind the shell runs.   *)
InBandOnes == {w \in Writes : w.kind = "inband"}
InBandSent == Some(toShell, InBandOnes)
InBandRuns == shell.st = "run" /\ shell.kind = "inband"
FlightInv ==
  /\ InBandSent \/ InBandRuns => inFlight = 1
  /\ ~InBandSent /\ ~InBandRuns => inFlight = 0
  /\ shell.st = "run" => (blk.inBand <=> shell.kind = "inband")

LEMMA SomeOfConcat ==
  ASSUME NEW S, NEW s \in Seq(S), NEW t \in Seq(S), NEW C
  PROVE  Some(s \o t, C) <=> Some(s, C) \/ Some(t, C)
<1>1. /\ DOMAIN s = 1..Len(s) /\ DOMAIN t = 1..Len(t)
      /\ DOMAIN (s \o t) = 1..(Len(s) + Len(t))
      /\ Len(s) \in Nat /\ Len(t) \in Nat
  BY ConcatProperties, LenProperties
<1>2. \A i \in DOMAIN s : i \in DOMAIN (s \o t) /\ (s \o t)[i] = s[i]
  BY <1>1, ConcatProperties
<1>3. \A i \in DOMAIN t : /\ i + Len(s) \in DOMAIN (s \o t)
                          /\ (s \o t)[i + Len(s)] = t[i]
  BY <1>1, ConcatProperties
<1>4. Some(s \o t, C) => Some(s, C) \/ Some(t, C)
  BY ConcatOfOne
<1>5. QED
  BY <1>2, <1>3, <1>4 DEF Some

LEMMA SomeOfTail ==
  ASSUME NEW S, NEW s \in Seq(S), NEW C, s # <<>>
  PROVE  Some(s, C) <=> Head(s) \in C \/ Some(Tail(s), C)
<1>1. /\ DOMAIN s = 1..Len(s) /\ DOMAIN Tail(s) = 1..(Len(s) - 1)
      /\ Len(s) \in Nat \ {0} /\ Head(s) = s[1]
      /\ \A i \in 1..(Len(s) - 1) : Tail(s)[i] = s[i + 1]
  BY HeadTailProperties, EmptySeq
<1>2. \A i \in DOMAIN s : \/ s[i] = Head(s)
                          \/ i - 1 \in DOMAIN Tail(s) /\ Tail(s)[i - 1] = s[i]
  BY <1>1
<1>3. Some(s, C) => Head(s) \in C \/ Some(Tail(s), C)
  BY <1>2 DEF Some
<1>4. QED
  BY <1>3, TailOfOne

LEMMA InBandAreCommands == InBandSent => CommandSent
BY DEF InBandSent, CommandSent, Some, InBandOnes, Commands, IsCommand

LEMMA FlightFrame ==
  ASSUME FlightInv, UNCHANGED <<shell, blk, inFlight>>, InBandSent' <=> InBandSent
  PROVE  FlightInv'
BY DEF FlightInv, InBandRuns

(* A flush sends an in-band command only as the last of its writes, and    *)
(* then counts it.                                                         *)
LEMMA BatchInBand ==
  ASSUME NEW q \in Seq(Queueable)
  PROVE  Some(Batch(q), InBandOnes)
           <=> Batch(q) # <<>> /\ Last(Batch(q)).kind = "inband"
<1> DEFINE b == Batch(q)
<1>1. /\ b \in Seq(Writes) /\ AtMostOne(b, Commands)
      /\ Some(b, Commands) => b # <<>> /\ IsCommand(Last(b))
  BY BatchOfOne
<1> HIDE DEF b
<1>2. DOMAIN b = 1..Len(b) /\ Len(b) \in Nat /\ Last(b) = b[Len(b)]
  BY <1>1 DEF Last
<1>3. \A i \in DOMAIN b : b[i] \in Writes
  BY <1>1
<1>4. ASSUME NEW i \in DOMAIN b, b[i] \in InBandOnes
      PROVE  b # <<>> /\ Last(b).kind = "inband"
  <2>1. b[i] \in Commands
    BY <1>4 DEF InBandOnes, Commands, IsCommand
  <2>2. IsCommand(Last(b)) /\ Len(b) \in DOMAIN b
    BY <1>1, <1>2, <2>1 DEF Some
  <2>3. b[Len(b)] \in Commands
    BY <1>2, <1>3, <2>2 DEF Commands
  <2>4. i = Len(b)
    BY <1>1, <2>1, <2>2, <2>3 DEF AtMostOne
  <2>5. b # <<>>
    BY <1>1, <2>1 DEF Some
  <2>6. QED
    BY <1>2, <1>4, <2>4, <2>5 DEF InBandOnes
<1>5. ASSUME b # <<>>, Last(b).kind = "inband"
      PROVE  Some(b, InBandOnes)
  <2>1. Len(b) \in DOMAIN b
    BY <1>1, <1>2, <1>5, EmptySeq
  <2>2. b[Len(b)] \in InBandOnes
    BY <1>2, <1>3, <1>5, <2>1 DEF InBandOnes
  <2>3. QED
    BY <2>1, <2>2 DEF Some
<1>6. QED
  BY <1>4, <1>5 DEF Some, b

LEMMA FlushCounts ==
  ASSUME TypeOK, NEW q \in Seq(Queueable), NEW text \in {<<>>, <<Text>>},
         NEW act, NEW expired, NEW nat,
         Flush(q, text, act, expired, nat)
  PROVE  \/ (InBandSent' <=> InBandSent) /\ UNCHANGED <<blk, inFlight>>
         \/ act /\ InBandSent' /\ inFlight' = inFlight + 1
<1> DEFINE batch == IF CanWrite(act, nat) THEN Batch(q) ELSE <<>>
           last == IF batch = <<>> THEN Report ELSE Last(batch)
<1>1. /\ WriteEffects(last, act, expired, nat)
      /\ toShell' = toShell \o text \o batch
  BY DEF Flush
<1>2. /\ batch \in Seq(Writes)
      /\ Some(batch, InBandOnes) <=> last.kind = "inband"
      /\ Some(batch, InBandOnes) => act
  <2>0. Report.kind # "inband"
    BY DEF Report, Write
  <2>1. CASE CanWrite(act, nat)
    <3>1. batch = Batch(q)
      BY <2>1
    <3>2. batch \in Seq(Writes)
      BY <3>1, BatchOfOne
    <3>3. Some(batch, InBandOnes)
            <=> batch # <<>> /\ Last(batch).kind = "inband"
      BY <3>1, BatchInBand
    <3>4. batch = <<>> => last = Report
      OBVIOUS
    <3>5. batch # <<>> => last = Last(batch)
      OBVIOUS
    <3>6. act
      BY <2>1 DEF CanWrite
    <3> HIDE DEF batch, last
    <3>7. QED
      BY <2>0, <3>2, <3>3, <3>4, <3>5, <3>6
  <2>2. CASE ~CanWrite(act, nat)
    <3>1. batch = <<>> /\ last = Report
      BY <2>2
    <3> HIDE DEF batch, last
    <3>2. ~Some(batch, InBandOnes) /\ batch \in Seq(Writes)
      BY <3>1, EmptyOfOne
    <3>3. QED
      BY <2>0, <3>1, <3>2
  <2>3. QED
    BY <2>1, <2>2
<1> HIDE DEF batch, last
<1>3. toShell \in Seq(Writes) /\ text \in Seq(Writes) /\ ~Some(text, InBandOnes)
  <2>1. Text \in Writes /\ Text \notin InBandOnes
    BY WriteKinds DEF InBandOnes, Text, Write
  <2>2. CASE text = <<>>
    BY <2>2, EmptyOfOne DEF TypeOK
  <2>3. CASE text = <<Text>>
    BY <2>1, <2>3, SingletonOfOne DEF TypeOK
  <2>4. QED
    BY <2>2, <2>3
<1>4. InBandSent' <=> InBandSent \/ Some(batch, InBandOnes)
  <2>1. toShell \o text \in Seq(Writes)
    BY <1>3, ConcatProperties
  <2>2. Some(toShell \o text, InBandOnes) <=> InBandSent
    BY <1>3, SomeOfConcat DEF InBandSent
  <2>3. Some((toShell \o text) \o batch, InBandOnes)
          <=> Some(toShell \o text, InBandOnes) \/ Some(batch, InBandOnes)
    BY <1>2, <2>1, SomeOfConcat
  <2>4. QED
    BY <1>1, <2>2, <2>3 DEF InBandSent
<1>5. CASE last.kind = "inband"
  BY <1>1, <1>2, <1>4, <1>5 DEF WriteEffects
<1>6. CASE last.kind # "inband"
  BY <1>1, <1>2, <1>4, <1>6 DEF WriteEffects, blockVars
<1>7. QED
  BY <1>5, <1>6

LEMMA FlushFlight ==
  ASSUME TypeOK, FlightInv, NEW q \in Seq(Queueable), NEW text \in {<<>>, <<Text>>},
         NEW act, NEW expired, NEW nat,
         Flush(q, text, act, expired, nat),
         act => ~CommandSent /\ ~ShellBusy, UNCHANGED shell
  PROVE  FlightInv'
<1>1. CASE (InBandSent' <=> InBandSent) /\ UNCHANGED <<blk, inFlight>>
  BY <1>1, FlightFrame
<1>2. CASE act /\ InBandSent' /\ inFlight' = inFlight + 1
  <2>1. ~InBandSent /\ shell.st # "run"
    BY <1>2, InBandAreCommands DEF ShellBusy
  <2>2. inFlight' = 1
    BY <1>2, <2>1 DEF FlightInv, InBandRuns
  <2>3. QED
    BY <1>2, <2>1, <2>2 DEF FlightInv
<1>3. QED
  BY <1>1, <1>2, FlushCounts

(* The steps of the main thread.                                           *)
LEMMA MainFlight ==
  ASSUME TypeOK, OneTurn, FlightInv,
         HandleEvent \/ TimerExpires \/ MarkActive \/ HandleExecutor \/ RequestCompletions
  PROVE  FlightInv'
<1>1. active => ~CommandSent /\ ~ShellBusy
  BY DEF OneTurn
<1>2. pending \in Seq(Queueable)
  BY DEF TypeOK, Queueable
<1>3. CASE HandleEvent
  <2>1. CASE Flush(pending, <<Text>>, active, due, "results") /\ UNCHANGED shell
    BY <1>1, <1>2, <2>1, FlushFlight
  <2>2. CASE UNCHANGED <<shell, blk, inFlight, toShell>>
    BY <2>2, FlightFrame DEF InBandSent
  <2>3. QED
    BY <1>3, <2>1, <2>2
    DEF HandleEvent, HandlePreexec, HandlePrecmd, HandleEndPrompt,
        HandleUserFinished, HandleSendPrompt, HandleCompleted, blockVars
<1>4. CASE TimerExpires
  BY <1>4, FlightFrame DEF TimerExpires, InBandSent, blockVars, shellVars
<1>5. CASE MarkActive
  <2>1. /\ Flush(<<Report>> \o pending, <<>>, TRUE, due - 1, native)
        /\ UNCHANGED shell /\ due > 0
    BY <1>5 DEF MarkActive
  <2>2. ~CommandSent /\ ~ShellBusy
    BY <2>1 DEF OneTurn, TimerRuns
  <2>3. <<Report>> \o pending \in Seq(Queueable)
    BY <1>2, WriteKinds
  <2>4. QED
    BY <2>1, <2>2, <2>3, FlushFlight
<1>6. CASE HandleExecutor
  <2> DEFINE m == Head(fromExecutor)
  <2>1. m.id \in InBand
    <3>1. /\ fromExecutor \in Seq([op : {"execute", "cancel"}, id : InBand])
          /\ fromExecutor # <<>>
      BY <1>6 DEF HandleExecutor, TypeOK
    <3>2. m \in [op : {"execute", "cancel"}, id : InBand]
      BY <3>1, HeadTailProperties
    <3>3. QED
      BY <3>2
  <2>2. UNCHANGED shell /\ (QueueInBand(m.id) \/ CancelInBand(m.id))
    BY <1>6 DEF HandleExecutor
  <2> HIDE DEF m
  <2>3. CASE QueueInBand(m.id) /\ ~userExecuting
    <3>1. Flush(Append(pending, InBandWrite(m.id)), <<>>, active, due, native)
      BY <2>3 DEF QueueInBand
    <3>2. Append(pending, InBandWrite(m.id)) \in Seq(Queueable)
      BY <1>2, <2>1, WriteKinds
    <3>3. QED
      BY <1>1, <2>2, <3>1, <3>2, FlushFlight
  <2>4. CASE (QueueInBand(m.id) /\ userExecuting) \/ CancelInBand(m.id)
    BY <2>2, <2>4, FlightFrame DEF QueueInBand, CancelInBand, InBandSent, blockVars
  <2>5. QED
    BY <2>2, <2>3, <2>4
<1>7. CASE RequestCompletions
  <2> DEFINE q == Append(Without(pending, Completion), Completion)
  <2>1. Flush(q, <<>>, active, due, native) /\ UNCHANGED shell
    BY <1>7 DEF RequestCompletions
  <2>2. q \in Seq(Queueable)
    BY <1>2, WriteKinds, WithoutType
  <2> HIDE DEF q
  <2>3. QED
    BY <1>1, <2>1, <2>2, FlushFlight
<1>8. QED
  BY <1>3, <1>4, <1>5, <1>6, <1>7

LEMMA SubmitFlight ==
  ASSUME TypeOK, FlightInv, NEW c \in Cmds, Submit(c)
  PROVE  FlightInv'
<1>1. UNCHANGED <<shell, inFlight>> /\ blk'.inBand = blk.inBand
  BY DEF Submit, TypeOK, Blocks
<1>2. CASE CanWrite(active, native)
  <2>1. toShell' = Append(toShell, UserWrite(c))
    BY <1>2 DEF Submit
  <2>2. /\ UserWrite(c) \in Writes /\ UserWrite(c) \notin InBandOnes
        /\ toShell \in Seq(Writes)
    BY WriteKinds DEF Queueable, TypeOK, InBandOnes, UserWrite, Write
  <2>3. toShell' = toShell \o <<UserWrite(c)>>
    BY <2>1, <2>2
  <2>4. <<UserWrite(c)>> \in Seq(Writes) /\ ~Some(<<UserWrite(c)>>, InBandOnes)
    BY <2>2, SingletonOfOne
  <2>5. InBandSent' <=> InBandSent
    BY <2>2, <2>3, <2>4, SomeOfConcat DEF InBandSent
  <2>6. InBandRuns' <=> InBandRuns
    BY <1>1 DEF InBandRuns
  <2>7. shell'.st = "run" => (blk'.inBand <=> shell'.kind = "inband")
    BY <1>1 DEF FlightInv
  <2>8. QED
    BY <1>1, <2>5, <2>6, <2>7 DEF FlightInv
<1>3. CASE ~CanWrite(active, native)
  <2>1. UNCHANGED toShell
    BY <1>3 DEF Submit
  <2>2. QED
    BY <1>1, <2>1 DEF FlightInv, InBandRuns, InBandSent
<1>4. QED
  BY <1>2, <1>3

(* The shell reads a command, which then runs, reads anything else, or     *)
(* finishes what it runs.  While it waits for the text to complete it      *)
(* would swallow a command, so that it must be that text which it reads.   *)
LEMMA ExecutesFlight ==
  ASSUME TypeOK, OneTurn, FlightInv, NEW w \in Writes, ShellExecutes(w)
  PROVE  FlightInv'
<1>1. /\ toShell # <<>> /\ toShell' = Tail(toShell) /\ Head(toShell) = w
      /\ w \in Commands /\ shell.st = "edit"
      /\ shell' = Running(w.kind, w.id) /\ inFlight' = inFlight
      /\ blk' = [blk EXCEPT !.inBand = w.kind = "inband", !.started = TRUE]
  BY DEF ShellExecutes, ShellReads, BeginCommand, Commands
<1>2. toShell \in Seq(Writes) /\ AtMostOne(toShell, Commands)
  BY DEF TypeOK, OneTurn
<1>3. ~CommandSent'
  BY <1>1, <1>2, TailOfOne DEF CommandSent
<1>4. ~InBandSent'
  BY <1>3 DEF InBandSent, CommandSent, Some, InBandOnes, Commands, IsCommand
<1>5. ~Some(Tail(toShell), InBandOnes)
  BY <1>1, <1>4 DEF InBandSent
<1>6. InBandSent <=> w.kind = "inband"
  BY <1>1, <1>2, <1>5, SomeOfTail DEF InBandSent, InBandOnes
<1>7. shell'.st = "run" /\ (shell'.kind = "inband" <=> w.kind = "inband")
  BY <1>1 DEF Running
<1>8. blk'.inBand <=> w.kind = "inband"
  BY <1>1 DEF TypeOK, Blocks
<1>9. inFlight = IF w.kind = "inband" THEN 1 ELSE 0
  BY <1>1, <1>6 DEF FlightInv, InBandRuns
<1>10. QED
  BY <1>1, <1>4, <1>7, <1>8, <1>9 DEF FlightInv, InBandRuns

LEMMA ReadsFlight ==
  ASSUME TypeOK, OneTurn, FlightInv, PromptIsExclusive,
         NEW w \in Writes, ShellReadsKey(w) \/ ProgramReads
  PROVE  FlightInv'
<1>1. /\ toShell # <<>> /\ toShell' = Tail(toShell) /\ toShell \in Seq(Writes)
      /\ UNCHANGED <<blk, inFlight>>
  BY DEF ShellReadsKey, ShellReads, ProgramReads, blockVars, TypeOK
<1>2. CASE ProgramReads
  <2>1. UNCHANGED shell /\ ~CommandSent
    BY <1>2 DEF ProgramReads, OneTurn, ShellBusy
  <2>2. ~InBandSent
    BY <2>1, InBandAreCommands
  <2>3. ~InBandSent'
    BY <1>1, <2>2, TailOfOne DEF InBandSent
  <2>4. QED
    BY <1>1, <2>1, <2>2, <2>3, FlightFrame
<1>3. CASE ShellReadsKey(w)
  <2>1. Head(toShell) = w /\ shell.st # "run" /\ shell'.st # "run"
    BY <1>3 DEF ShellReadsKey, ShellReads, Idle
  <2>2. w \in {Report, Completion, Text}
    BY <1>1, <1>3, <2>1 DEF ShellReadsKey, PromptIsExclusive
  <2>3. w \notin InBandOnes
    BY <2>2 DEF InBandOnes, Report, Completion, Text, Write
  <2>4. InBandSent' <=> InBandSent
    BY <1>1, <2>1, <2>3, SomeOfTail DEF InBandSent
  <2>5. QED
    BY <1>1, <2>1, <2>4 DEF FlightInv, InBandRuns
<1>4. QED
  BY <1>2, <1>3

LEMMA FinishesFlight ==
  ASSUME TypeOK, OneTurn, FlightInv, ShellFinishes
  PROVE  FlightInv'
<1>1. /\ shell.st = "run" /\ shell'.st # "run" /\ UNCHANGED toShell
      /\ inFlight' = InFlightAfterFinish
  BY DEF ShellFinishes, Idle
<1>2. ~CommandSent
  BY <1>1 DEF OneTurn, ShellBusy
<1>3. ~InBandSent /\ ~InBandSent'
  BY <1>1, <1>2, InBandAreCommands DEF InBandSent
<1>4. inFlight = IF blk.inBand THEN 1 ELSE 0
  BY <1>1, <1>3 DEF FlightInv, InBandRuns
<1>5. inFlight' = 0
  BY <1>1, <1>4 DEF InFlightAfterFinish
<1>6. QED
  BY <1>1, <1>3, <1>5 DEF FlightInv, InBandRuns

LEMMA FlightStep ==
  ASSUME TypeOK, OneTurn, FlightInv, PromptIsExclusive, NothingTyped',
         [Next]_vars
  PROVE  FlightInv'
<1>1. CASE HandleEvent \/ TimerExpires \/ MarkActive \/ HandleExecutor \/ RequestCompletions
  BY <1>1, MainFlight
<1>2. ASSUME NEW c \in Cmds, Submit(c)
      PROVE  FlightInv'
  BY <1>2, SubmitFlight
<1>3. ASSUME NEW w \in Writes, ShellExecutes(w)
      PROVE  FlightInv'
  BY <1>3, ExecutesFlight
<1>4. ASSUME NEW w \in Writes, ShellReadsKey(w) \/ ProgramReads
      PROVE  FlightInv'
  BY <1>4, ReadsFlight
<1>5. CASE ShellFinishes
  BY <1>5, FinishesFlight
<1>6. CASE ShellPrompts
  <2>1. /\ UNCHANGED <<toShell, blk, inFlight>>
        /\ shell.st # "run" /\ shell'.st # "run"
    BY <1>6 DEF ShellPrompts, Idle, blockVars
  <2>2. QED
    BY <2>1 DEF FlightInv, InBandRuns, InBandSent
<1>7. ASSUME NEW c \in InBand,
             GeneratorAnswers(c) \/ Issue(c) \/ SendCancel(c)
      PROVE  FlightInv'
  BY <1>7, FlightFrame DEF GeneratorAnswers, Issue, SendCancel, InBandSent, blockVars,
                           shellVars
<1>8. CASE GiveUp \/ UNCHANGED vars
  BY <1>8, FlightFrame DEF GiveUp, vars, InBandSent, blockVars, shellVars
<1>9. CASE ShellTyped
  BY <1>9 DEF ShellTyped, NothingTyped, TypeOK
<1>10. CASE ProgramReads
  BY <1>4, <1>10, WriteKinds DEF Queueable
<1>11. QED
  BY <1>1, <1>2, <1>3, <1>4, <1>5, <1>6, <1>7, <1>8, <1>9, <1>10
  DEF Next, ShellSteps, Users

LEMMA FlightInit == Init => FlightInv
<1>1. SUFFICES ASSUME Init PROVE FlightInv
  OBVIOUS
<1>2. toShell = <<>> /\ shell.st = "edit" /\ inFlight = 0
  BY <1>1 DEF Init, Idle
<1>3. ~InBandSent
  BY <1>2, EmptyOfOne DEF InBandSent
<1>4. QED
  BY <1>2, <1>3 DEF FlightInv, InBandRuns

(* At most one in-band command is written, so the set has one element or   *)
(* none.                                                                   *)
LEMMA FlightIsCount ==
  ASSUME TypeOK, OneTurn, FlightInv
  PROVE  inFlight = Cardinality(InBandWritten) + (IF InBandRuns THEN 1 ELSE 0)
<1>1. /\ \A c \in InBand : InBandWrite(c) \in InBandOnes
      /\ \A w \in InBandOnes : w.id \in InBand /\ w = InBandWrite(w.id)
      /\ \A c : InBandWrite(c).id = c
  <2>1. \A c \in InBand : InBandWrite(c) \in InBandOnes
    BY DEF InBandOnes, Writes, InBandWrite, Write
  <2>2. ASSUME NEW w \in InBandOnes PROVE w.id \in InBand /\ w = InBandWrite(w.id)
    <3>1. w \in Writes /\ w.kind = "inband"
      BY DEF InBandOnes
    <3>2. PICK c \in InBand : w = InBandWrite(c)
      BY <3>1 DEF Writes, InBandWrite, Write, UserWrite, Report, Completion, Text
    <3>3. QED
      BY <3>2 DEF InBandWrite, Write
  <2>3. \A c : InBandWrite(c).id = c
    BY DEF InBandWrite, Write
  <2>4. QED
    BY <2>1, <2>2, <2>3
<1>2. \A i \in DOMAIN toShell : toShell[i] \in Writes
  BY DEF TypeOK
<1>3. CASE InBandSent
  <2>1. PICK i \in DOMAIN toShell : toShell[i] \in InBandOnes
    BY <1>3 DEF InBandSent, Some
  <2> DEFINE c == toShell[i].id
  <2>2. c \in InBand /\ toShell[i] = InBandWrite(c)
    BY <1>1, <2>1
  <2>3. ASSUME NEW d \in InBandWritten PROVE d = c
    <3>1. PICK j \in DOMAIN toShell : toShell[j] = InBandWrite(d) /\ d \in InBand
      BY <2>3 DEF InBandWritten, ToSet
    <3>2. toShell[i] \in Commands /\ toShell[j] \in Commands
      BY <1>1, <2>1, <3>1 DEF InBandOnes, Commands, IsCommand
    <3>3. i = j
      BY <3>2 DEF OneTurn, AtMostOne
    <3>4. QED
      BY <1>1, <3>1, <3>3
  <2>4. c \in InBandWritten
    BY <2>2 DEF InBandWritten, ToSet
  <2>5. InBandWritten = {c}
    BY <2>3, <2>4
  <2>6. Cardinality(InBandWritten) = 1
    BY <2>5, FS_Singleton
  <2>7. ~InBandRuns /\ inFlight = 1
    BY <1>3, InBandAreCommands DEF OneTurn, ShellBusy, InBandRuns, FlightInv
  <2>8. QED
    BY <2>6, <2>7
<1>4. CASE ~InBandSent
  <2>1. InBandWritten = {}
    BY <1>1, <1>4 DEF InBandWritten, ToSet, InBandSent, Some
  <2>2. Cardinality(InBandWritten) = 0
    BY <2>1, FS_EmptySet
  <2>3. QED
    BY <1>4, <2>2 DEF FlightInv
<1>5. QED
  BY <1>3, <1>4

(* Until something is typed ahead, in_flight_in_band_command_count is the  *)
(* number of in-band commands written whose block has not completed        *)
(* (blocks.rs), for any commands and requests, as long as the controller   *)
(* keeps the pty to itself when the shell waits for the text to complete.  *)
(* That it always does is not so (a second request can break it), and then *)
(* the count is wrong as well.                                             *)
THEOREM InFlightCounts == Spec /\ []PromptIsExclusive => []InFlightIsExact
<1> DEFINE Inv == NothingTyped => OneTurn /\ FlightInv
<1>1. Init => Inv
  BY TurnInit, FlightInit
<1>2. TypeOK /\ PromptIsExclusive /\ Inv /\ [Next]_vars => Inv'
  <2>1. SUFFICES ASSUME TypeOK, PromptIsExclusive, Inv, [Next]_vars, NothingTyped'
                 PROVE  OneTurn' /\ FlightInv'
    OBVIOUS
  <2>2. OneTurn /\ FlightInv
    BY <2>1, TypedStays
  <2>3. QED
    BY <2>1, <2>2, TurnStep, FlightStep
<1>3. TypeOK /\ Inv => InFlightIsExact
  BY FlightIsCount DEF InFlightIsExact, InBandRuns
<1>4. QED
  BY <1>1, <1>2, <1>3, TypeCorrect, PTL DEF Spec
=============================================================================
