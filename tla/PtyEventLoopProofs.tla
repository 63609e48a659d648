-------------------------- MODULE PtyEventLoopProofs --------------------------
(***************************************************************************)
(* What PtyEventLoop promises for inputs, output and buffers of any size:  *)
(* types, that no wakeup, edge of the pty or redraw is lost, how a pane    *)
(* ends, and that what is typed reaches the kernel in order (OrderedPipe). *)
(***************************************************************************)
EXTENDS PtyEventLoop, TLAPS, SequenceTheorems

-----------------------------------------------------------------------------
(* TypeOK, part by part: most actions leave most parts alone.              *)
PCs == {"register", "poll", "syncTimeout", "events", "drain", "work", "read",
        "lock", "parse", "bump", "readDone", "write", "childExit", "windDown",
        "lastExit", "done"}
Lockers == {"loop", "ui"}
PtyEvents == [readable : BOOLEAN, writable : BOOLEAN, closed : BOOLEAN]
Chunks == [id : Nat, written : Nat]

ChanType ==
  /\ chan \in Seq(Message) /\ sent \in Seq(1..MaxLen)
  /\ waker \in BOOLEAN /\ needsWake \in BOOLEAN /\ wakeEvent \in BOOLEAN
  /\ waking \in SUBSET Senders /\ lastSize \in Nat
MainType == ui \in {"running", "joining"} /\ lockq \in Seq(Lockers)
LoopType ==
  /\ pc \in PCs
  /\ evs \in SUBSET {"channel", "child", "pty"} /\ ptyEvent \in PtyEvents
  /\ canRead \in BOOLEAN /\ canWrite \in BOOLEAN
WriteType == writeList \in Seq(Nat) /\ writing \in Chunks
ReadType ==
  /\ rbuf \in Seq(Items) /\ processed \in Nat
  /\ syncActive \in BOOLEAN /\ syncLen \in Nat /\ dirty \in BOOLEAN
ExitType ==
  exits \in Seq(Reasons) /\ childExited \in BOOLEAN /\ killed \in BOOLEAN
PtyType ==
  /\ out \in Seq(Items) /\ inFree \in 0..InCap /\ ptyIn \in Seq(Nat \X Nat)
  /\ edge \in BOOLEAN /\ sigchld \in BOOLEAN /\ alive \in BOOLEAN
  /\ hup \in BOOLEAN /\ ptySize \in Nat /\ nOut \in Nat
IntrType == nIntr \in Nat

Parts ==
  /\ ChanType /\ MainType /\ LoopType /\ WriteType /\ ReadType /\ ExitType
  /\ PtyType /\ IntrType

LEMMA TypeIsParts == TypeOK <=> Parts
BY DEF TypeOK, Parts, ChanType, MainType, LoopType, WriteType, ReadType,
       ExitType, PtyType, IntrType, PCs, Lockers, PtyEvents, Chunks

LEMMA Frame ==
  /\ ChanType /\ UNCHANGED chanVars => ChanType'
  /\ MainType /\ UNCHANGED <<ui, lockq>> => MainType'
  /\ LoopType /\ UNCHANGED <<pc, evs, ptyEvent, canRead, canWrite>> => LoopType'
  /\ WriteType /\ UNCHANGED writeVars => WriteType'
  /\ ReadType /\ UNCHANGED readVars => ReadType'
  /\ ExitType /\ UNCHANGED exitVars => ExitType'
  /\ PtyType /\ UNCHANGED ptyVars => PtyType'
  /\ IntrType /\ UNCHANGED nIntr => IntrType'
<1>1. ChanType /\ UNCHANGED chanVars => ChanType'
  BY DEF ChanType, chanVars
<1>2. MainType /\ UNCHANGED <<ui, lockq>> => MainType'
  BY DEF MainType
<1>3. LoopType /\ UNCHANGED <<pc, evs, ptyEvent, canRead, canWrite>> => LoopType'
  BY DEF LoopType
<1>4. WriteType /\ UNCHANGED writeVars => WriteType'
  BY DEF WriteType, writeVars
<1>5. ReadType /\ UNCHANGED readVars => ReadType'
  BY DEF ReadType, readVars
<1>6. ExitType /\ UNCHANGED exitVars => ExitType'
  BY DEF ExitType, exitVars
<1>7. PtyType /\ UNCHANGED ptyVars => PtyType'
  BY DEF PtyType, ptyVars
<1>8. IntrType /\ UNCHANGED nIntr => IntrType'
  BY DEF IntrType
<1>9. QED
  BY <1>1, <1>2, <1>3, <1>4, <1>5, <1>6, <1>7, <1>8

LEMMA TypeInit == Init => Parts
<1>1. SUFFICES ASSUME Init PROVE Parts
  OBVIOUS
<1>2. ChanType
  BY <1>1, EmptySeq DEF Init, ChanType
<1>3. MainType /\ IntrType
  BY <1>1, EmptySeq DEF Init, MainType, IntrType
<1>4. ExitType
  BY <1>1, EmptySeq DEF Init, ExitType
<1>5. LoopType
  BY <1>1 DEF Init, LoopType, PCs, PtyEvents, NoEvent
<1>6. WriteType
  BY <1>1, EmptySeq DEF Init, WriteType, Chunks, NoChunk
<1>7. ReadType
  BY <1>1, EmptySeq DEF Init, ReadType
<1>8. out \in Seq(Items) /\ ptyIn \in Seq(Nat \X Nat) /\ inFree \in 0..InCap
  BY <1>1, EmptySeq, ConstantsAssumption DEF Init
<1>9. PtyType
  BY <1>1, <1>8 DEF Init, PtyType
<1>10. QED
  BY <1>2, <1>3, <1>4, <1>5, <1>6, <1>7, <1>9 DEF Parts

-----------------------------------------------------------------------------
(* The senders and the main thread.                                        *)
LEMMA SendType ==
  ASSUME ChanType, NEW s \in Senders, NEW kind \in Kinds, NEW arg \in Nat,
         NEW n \in Nat, Send(s, kind, arg, n), sent' \in Seq(1..MaxLen),
         lastSize' \in Nat
  PROVE  ChanType'
<1>1. [kind |-> kind, arg |-> arg, n |-> n] \in Message
  BY DEF Message
<1>2. chan' \in Seq(Message)
  BY <1>1, AppendProperties DEF Send, ChanType
<1>3. QED
  BY <1>2 DEF Send, ChanType

LEMMA UiSendType == Parts /\ UiSend => Parts'
<1>1. SUFFICES ASSUME Parts, UiSend PROVE Parts'
  OBVIOUS
<1>2. Len(sent) \in Nat /\ "ui" \in Senders /\ lastSize + 1 \in Nat
  BY <1>1 DEF Parts, ChanType, Senders
<1>3. {"input", "resize", "shutdown"} \subseteq Kinds
  BY DEF Kinds
<1>4. CASE SendInput
  <2>1. PICK len \in 1..MaxLen : /\ Send("ui", "input", len, Len(sent) + 1)
                                 /\ sent' = Append(sent, len)
    BY <1>4 DEF SendInput
  <2>2. sent' \in Seq(1..MaxLen) /\ lastSize' \in Nat
    BY <1>1, <1>4, <2>1, AppendProperties DEF Parts, ChanType, SendInput
  <2>3. ChanType'
    BY <1>1, <1>2, <1>3, <2>1, <2>2, ConstantsAssumption, SendType DEF Parts
  <2>4. MainType'
    BY <1>1, <1>4 DEF Parts, MainType, UiSend, SendInput
  <2>5. QED
    BY <1>1, <2>3, <2>4, Frame DEF Parts, UiSend
<1>5. CASE SendResize
  <2>1. ChanType'
    BY <1>1, <1>2, <1>3, <1>5, SendType DEF Parts, ChanType, SendResize
  <2>2. MainType'
    BY <1>1, <1>5 DEF Parts, MainType, UiSend, SendResize
  <2>3. QED
    BY <1>1, <2>1, <2>2, Frame DEF Parts, UiSend
<1>6. CASE SendShutdown
  <2>1. ChanType'
    BY <1>1, <1>2, <1>3, <1>6, SendType DEF Parts, ChanType, SendShutdown
  <2>2. MainType'
    BY <1>1, <1>6 DEF Parts, MainType, UiSend, SendShutdown
  <2>3. QED
    BY <1>1, <2>1, <2>2, Frame DEF Parts, UiSend
<1>7. QED
  BY <1>1, <1>4, <1>5, <1>6 DEF UiSend

LEMMA ChildCallbackType == Parts /\ ChildExitCallback => Parts'
<1>1. SUFFICES ASSUME Parts, ChildExitCallback PROVE Parts'
  OBVIOUS
<1>2. "watcher" \in Senders /\ "childExited" \in Kinds /\ Len(sent) \in Nat
  BY <1>1 DEF Senders, Kinds, Parts, ChanType
<1>3. ChanType'
  BY <1>1, <1>2, SendType DEF Parts, ChanType, ChildExitCallback
<1>4. PtyType'
  BY <1>1 DEF Parts, PtyType, ChildExitCallback
<1>5. MainType'
  BY <1>1, Frame DEF Parts, ChildExitCallback
<1>6. QED
  BY <1>1, <1>3, <1>4, <1>5, Frame DEF Parts, ChildExitCallback

LEMMA WakeType ==
  ASSUME Parts, NEW s \in Senders, Wake(s)
  PROVE  Parts'
<1>1. ChanType'
  BY DEF Parts, ChanType, Wake, WakeReceiver
<1>2. QED
  BY <1>1, Frame DEF Parts, Wake

LEMMA LockType ==
  ASSUME lockq \in Seq(Lockers)
  PROVE  /\ Append(lockq, "ui") \in Seq(Lockers)
         /\ Append(lockq, "loop") \in Seq(Lockers)
         /\ lockq # <<>> => /\ Tail(lockq) \in Seq(Lockers)
                            /\ Append(Tail(lockq), "loop") \in Seq(Lockers)
         /\ <<"loop">> \in Seq(Lockers)
BY DEF Lockers

LEMMA UiLockType == Parts /\ (UiLock \/ UiUnlock) => Parts'
<1>1. SUFFICES ASSUME Parts, UiLock \/ UiUnlock PROVE Parts'
  OBVIOUS
<1>2. MainType'
  BY <1>1, LockType DEF Parts, MainType, UiLock, UiUnlock
<1>3. QED
  BY <1>1, <1>2, Frame DEF Parts, UiLock, UiUnlock

LEMMA ShellType == Parts /\ (ShellStep \/ OtherChildExit) => Parts'
<1>1. SUFFICES ASSUME Parts, ShellStep \/ OtherChildExit PROVE Parts'
  OBVIOUS
<1>2. CASE ShellStep
  <2>1. PtyType /\ UNCHANGED ptyIn /\ UNCHANGED ptySize
    BY <1>1, <1>2 DEF Parts, ShellStep
  <2>2. ShellWrite \/ ShellRead \/ ShellExit
    BY <1>2, Zenon DEF ShellStep
  <2>3. out' \in Seq(Items)
    <3>1. out' = out \/ \E item \in Items : out' = Append(out, item)
      BY <2>2, Zenon DEF ShellWrite, ShellRead, ShellExit
    <3>2. QED
      BY <2>1, <3>1, AppendProperties DEF PtyType
  <2>4. inFree' \in 0..InCap
    BY <2>1, <2>2, ConstantsAssumption
       DEF PtyType, ShellWrite, ShellRead, ShellExit
  <2>5. nOut' \in Nat
    BY <2>1, <2>2 DEF PtyType, ShellWrite, ShellRead, ShellExit
  <2>6. alive' \in BOOLEAN /\ sigchld' \in BOOLEAN /\ hup' \in BOOLEAN
    BY <2>1, <2>2, Zenon DEF PtyType, ShellWrite, ShellRead, ShellExit
  <2>7. edge' \in BOOLEAN
    BY <2>1, <2>2, Zenon DEF PtyType, ShellWrite, ShellRead, ShellExit
  <2>8. PtyType'
    BY <2>1, <2>3, <2>4, <2>5, <2>6, <2>7 DEF PtyType
  <2>9. QED
    BY <1>1, <1>2, <2>8, Frame DEF Parts, ShellStep
<1>3. CASE OtherChildExit
  <2>1. PtyType' /\ IntrType'
    BY <1>1, <1>3 DEF Parts, PtyType, IntrType, OtherChildExit
  <2>2. QED
    BY <1>1, <1>3, <2>1, Frame DEF Parts, OtherChildExit
<1>4. QED
  BY <1>1, <1>2, <1>3

-----------------------------------------------------------------------------
(* The loop: the channel, poll and the events.                             *)
LEMMA RegisterType == Parts /\ Register => Parts'
<1>1. SUFFICES ASSUME Parts, Register PROVE Parts'
  OBVIOUS
<1>2. ChanType'
  BY <1>1 DEF Parts, ChanType, Register
<1>3. LoopType'
  BY <1>1 DEF Parts, LoopType, PCs, Register
<1>4. PtyType'
  BY <1>1 DEF Parts, PtyType, Register
<1>5. QED
  BY <1>1, <1>2, <1>3, <1>4, Frame DEF Parts, Register

LEMMA PollType == Parts /\ Poll => Parts'
<1>1. SUFFICES ASSUME Parts, Poll PROVE Parts'
  OBVIOUS
<1>2. wakeEvent' \in BOOLEAN /\ edge' \in BOOLEAN
  BY <1>1, Zenon DEF Parts, ChanType, PtyType, Poll
<1>3. ChanType'
  BY <1>1, <1>2 DEF Parts, ChanType, Poll
<1>4. PtyType'
  BY <1>1, <1>2 DEF Parts, PtyType, Poll
<1>5. pc' \in PCs /\ canRead' \in BOOLEAN /\ canWrite' \in BOOLEAN
  BY <1>1 DEF Parts, LoopType, PCs, Poll
<1>6. evs' \in SUBSET {"channel", "child", "pty"}
  BY <1>1 DEF Parts, LoopType, Poll, ReadyEvents
<1>7. ptyEvent' \in PtyEvents
  <2>1. NoEvent \in PtyEvents
    BY DEF NoEvent, PtyEvents
  <2>2. (out # <<>> \/ hup) \in BOOLEAN /\ (inFree > 0) \in BOOLEAN
        /\ hup \in BOOLEAN
    BY <1>1 DEF Parts, PtyType
  <2>3. [readable |-> out # <<>> \/ hup, writable |-> inFree > 0,
         closed |-> hup] \in PtyEvents
    BY <2>2 DEF PtyEvents
  <2>4. ptyEvent \in PtyEvents
    BY <1>1 DEF Parts, LoopType
  <2>5. QED
    BY <1>1, <2>1, <2>3, <2>4 DEF Poll
<1>8. LoopType'
  BY <1>5, <1>6, <1>7 DEF LoopType
<1>9. QED
  BY <1>1, <1>3, <1>4, <1>8, Frame DEF Parts, Poll

LEMMA HandleEventsType == Parts /\ HandleEvents => Parts'
<1>1. SUFFICES ASSUME Parts, HandleEvents PROVE Parts'
  OBVIOUS
<1>2. \/ HandleChannelEvent \/ HandleChildEvent \/ HandlePtyEvent
      \/ pc' = "work" /\ UNCHANGED <<evs, canRead, canWrite, sigchld>>
  BY <1>1, Zenon DEF HandleEvents
<1>3. sigchld' \in BOOLEAN
  BY <1>1, <1>2 DEF Parts, PtyType, HandleChannelEvent, HandleChildEvent,
                    HandlePtyEvent
<1>4. PtyType'
  BY <1>1, <1>3 DEF Parts, PtyType, HandleEvents
<1>5. pc' \in PCs
  BY <1>1, <1>2 DEF Parts, LoopType, PCs, HandleChannelEvent, AfterSigchld,
                    HandleChildEvent, HandlePtyEvent
<1>6. evs' \in SUBSET {"channel", "child", "pty"}
  BY <1>1, <1>2 DEF Parts, LoopType, HandleChannelEvent, HandleChildEvent,
                    HandlePtyEvent
<1>7. canRead' \in BOOLEAN /\ canWrite' \in BOOLEAN
  BY <1>1, <1>2, Zenon DEF Parts, LoopType, HandleChannelEvent,
                           HandleChildEvent, HandlePtyEvent
<1>8. ptyEvent' \in PtyEvents
  BY <1>1 DEF Parts, LoopType, HandleEvents
<1>9. LoopType'
  BY <1>5, <1>6, <1>7, <1>8 DEF LoopType
<1>10. QED
  BY <1>1, <1>4, <1>9, Frame DEF Parts, HandleEvents

LEMMA DrainType == Parts /\ Drain => Parts'
<1>1. SUFFICES ASSUME Parts, Drain PROVE Parts'
  OBVIOUS
<1>2. CASE chan = <<>>
  <2>1. /\ pc' = "events"
        /\ UNCHANGED chan /\ UNCHANGED writeList /\ UNCHANGED ptySize
    BY <1>1, <1>2 DEF Drain
  <2>2. ChanType'
    BY <1>1, <2>1 DEF Parts, ChanType, Drain
  <2>3. LoopType'
    BY <1>1, <2>1 DEF Parts, LoopType, PCs, Drain
  <2>4. WriteType' /\ PtyType'
    BY <1>1, <2>1 DEF Parts, WriteType, PtyType, Drain
  <2>5. QED
    BY <1>1, <2>2, <2>3, <2>4, Frame DEF Parts, Drain
<1>3. CASE chan # <<>>
  <2>1. Head(chan) \in Message /\ Tail(chan) \in Seq(Message)
    BY <1>1, <1>3, HeadTailProperties DEF Parts, ChanType
  <2>2. Head(chan).n \in Nat /\ Head(chan).arg \in Nat
    BY <2>1 DEF Message
  <2>3. ChanType'
    BY <1>1, <1>3, <2>1 DEF Parts, ChanType, Drain
  <2>4. LoopType'
    BY <1>1, <1>3 DEF Parts, LoopType, PCs, Drain, AfterMessage
  <2>5. writeList' \in Seq(Nat)
    BY <1>1, <1>3, <2>2, AppendProperties DEF Parts, WriteType, Drain
  <2>6. WriteType'
    BY <1>1, <2>5 DEF Parts, WriteType, Drain
  <2>7. ptySize' \in Nat
    BY <1>1, <1>3, <2>2 DEF Parts, PtyType, Drain
  <2>8. PtyType'
    BY <1>1, <2>7 DEF Parts, PtyType, Drain
  <2>9. QED
    BY <1>1, <2>3, <2>4, <2>6, <2>8, Frame DEF Parts, Drain
<1>4. QED
  BY <1>2, <1>3

LEMMA GotoNextType ==
  ASSUME WriteType, GotoNext
  PROVE  WriteType'
<1>1. CASE writeList = <<>>
  BY <1>1 DEF WriteType, GotoNext, NoChunk, Chunks
<1>2. CASE writeList # <<>>
  <2>1. Head(writeList) \in Nat /\ Tail(writeList) \in Seq(Nat)
    BY <1>2, HeadTailProperties DEF WriteType
  <2>2. /\ writing' = [id |-> Head(writeList), written |-> 0]
        /\ writeList' = Tail(writeList)
    BY <1>2 DEF GotoNext
  <2>3. writing' \in Chunks
    BY <2>1, <2>2 DEF Chunks
  <2>4. QED
    BY <2>1, <2>2, <2>3 DEF WriteType
<1>3. QED
  BY <1>1, <1>2

LEMMA WorkType == Parts /\ Work => Parts'
<1>1. SUFFICES ASSUME Parts, Work PROVE Parts'
  OBVIOUS
<1>2. StartRead \/ StartWrite \/ NothingToDo
  BY <1>1 DEF Work
<1>3. LoopType'
  BY <1>1, <1>2 DEF Parts, LoopType, PCs, Work, StartRead, StartWrite,
                    NothingToDo
<1>4. WriteType'
  <2>1. GotoNext \/ UNCHANGED writeVars
    BY <1>2, Zenon DEF StartRead, StartWrite, NothingToDo
  <2>2. QED
    BY <1>1, <2>1, GotoNextType, Frame DEF Parts
<1>5. ReadType'
  <2>1. \/ UNCHANGED readVars
        \/ rbuf' = <<>> /\ processed' = 0 /\ UNCHANGED <<syncActive, syncLen, dirty>>
    BY <1>2, Zenon DEF StartRead, StartWrite, NothingToDo
  <2>2. CASE UNCHANGED readVars
    BY <1>1, <2>2, Frame DEF Parts
  <2>3. CASE rbuf' = <<>> /\ processed' = 0
               /\ UNCHANGED <<syncActive, syncLen, dirty>>
    BY <1>1, <2>3, EmptySeq DEF Parts, ReadType
  <2>4. QED
    BY <2>1, <2>2, <2>3
<1>6. QED
  BY <1>1, <1>3, <1>4, <1>5, Frame DEF Parts, Work

-----------------------------------------------------------------------------
(* The loop: pty_read and the parser.                                      *)
LEMMA DropGuardType ==
  ASSUME MainType, DropGuard, UNCHANGED ui
  PROVE  MainType'
<1>1. lockq' = lockq \/ (lockq # <<>> /\ lockq' = Tail(lockq))
  BY DEF DropGuard, Holding
<1>2. QED
  BY <1>1, LockType DEF MainType

LEMMA FinishReadType ==
  ASSUME MainType, FinishRead, UNCHANGED ui, dirty \in BOOLEAN
  PROVE  MainType' /\ dirty' \in BOOLEAN /\ pc' = "readDone"
<1>1. MainType'
  BY DropGuardType DEF FinishRead
<1>2. dirty' \in BOOLEAN
  BY Zenon DEF FinishRead
<1>3. QED
  BY <1>1, <1>2 DEF FinishRead

LEMMA ReadType1 ==
  ASSUME Parts, Read
  PROVE  /\ MainType' /\ dirty' \in BOOLEAN
         /\ pc' \in {"lock", "readDone", "windDown"}
<1>1. ReadGot \/ ReadWouldBlock \/ ReadEof \/ ReadInterrupted \/ ReadError
  BY DEF Read
<1>2. MainType /\ dirty \in BOOLEAN /\ UNCHANGED ui
  BY DEF Parts, ReadType, Read
<1>3. CASE FinishRead
  BY <1>2, <1>3, FinishReadType
<1>4. CASE pc' = "lock" /\ UNCHANGED <<lockq, dirty>>
  BY <1>2, <1>4, Frame
<1>5. CASE ReadError
  BY <1>2, <1>5, DropGuardType DEF ReadError
<1>6. FinishRead \/ (pc' = "lock" /\ UNCHANGED <<lockq, dirty>>) \/ ReadError
  <2>1. CASE ReadGot
    BY <2>1 DEF ReadGot
  <2>2. CASE ReadWouldBlock
    BY <2>2 DEF ReadWouldBlock
  <2>3. CASE ReadEof
    BY <2>3 DEF ReadEof
  <2>4. CASE ReadInterrupted
    BY <2>4 DEF ReadInterrupted
  <2>5. QED
    BY <1>1, <2>1, <2>2, <2>3, <2>4
<1>7. QED
  BY <1>3, <1>4, <1>5, <1>6

LEMMA ReadSteps == Parts /\ Read => Parts'
<1>1. SUFFICES ASSUME Parts, Read PROVE Parts'
  OBVIOUS
<1>2. MainType' /\ dirty' \in BOOLEAN /\ pc' \in {"lock", "readDone", "windDown"}
  BY <1>1, ReadType1
<1>3. ReadGot \/ ReadWouldBlock \/ ReadEof \/ ReadInterrupted \/ ReadError
  BY <1>1 DEF Read
<1>4. rbuf' \in Seq(Items) /\ out' \in Seq(Items)
  <2>1. rbuf \in Seq(Items) /\ out \in Seq(Items)
    BY <1>1 DEF Parts, ReadType, PtyType
  <2>2. CASE ReadGot
    <3>1. PICK k \in 1..Len(out) : /\ rbuf' = rbuf \o SubSeq(out, 1, k)
                                   /\ out' = SubSeq(out, k + 1, Len(out))
      BY <2>2, Zenon DEF ReadGot
    <3>2. SubSeq(out, 1, k) \in Seq(Items) /\ out' \in Seq(Items)
      BY <2>1, <3>1
    <3>3. QED
      BY <2>1, <3>1, <3>2, ConcatProperties
  <2>3. CASE ~ReadGot
    <3>1. out' = out /\ (rbuf' = rbuf \/ rbuf' = <<>>)
      BY <1>3, <2>3, Zenon
         DEF ReadWouldBlock, ReadEof, ReadInterrupted, ReadError
    <3>2. QED
      BY <2>1, <3>1, EmptySeq
  <2>4. QED
    BY <2>2, <2>3
<1>5. ReadType'
  BY <1>1, <1>2, <1>4 DEF Parts, ReadType, Read
<1>6. PtyType'
  BY <1>1, <1>4 DEF Parts, PtyType, Read
<1>7. canRead' = canRead \/ canRead' = FALSE
  <2>1. CASE ReadGot \/ ReadInterrupted \/ ReadError
    BY <2>1 DEF ReadGot, ReadInterrupted, ReadError
  <2>2. CASE ReadWouldBlock
    BY <2>2 DEF ReadWouldBlock
  <2>3. CASE ReadEof
    BY <2>3 DEF ReadEof
  <2>4. QED
    BY <1>3, <2>1, <2>2, <2>3
<1>8. LoopType'
  BY <1>1, <1>2, <1>7 DEF Parts, LoopType, PCs, Read
<1>9. IntrType'
  BY <1>1, <1>3 DEF Parts, IntrType, ReadGot, ReadWouldBlock, ReadEof,
                    ReadInterrupted, ReadError
<1>10. QED
  BY <1>1, <1>2, <1>5, <1>6, <1>8, <1>9, Frame DEF Parts, Read

LEMMA TakeLockType == Parts /\ TakeLock => Parts'
<1>1. SUFFICES ASSUME Parts, TakeLock PROVE Parts'
  OBVIOUS
<1>2. lockq' \in {lockq, <<"loop">>, Append(lockq, "loop")}
  BY <1>1, Zenon DEF TakeLock
<1>3. MainType'
  BY <1>1, <1>2, LockType DEF Parts, MainType, TakeLock
<1>4. LoopType'
  BY <1>1 DEF Parts, LoopType, PCs, TakeLock
<1>5. QED
  BY <1>1, <1>3, <1>4, Frame DEF Parts, TakeLock

(* The parser's replies only take room that the kernel has.                *)
LEMMA ReplyTakesRoom ==
  ASSUME PtyType, Reply \/ UNCHANGED inFree
  PROVE  inFree' \in 0..InCap /\ inFree' <= inFree
<1>1. inFree \in 0..InCap /\ InCap \in Nat
  BY ConstantsAssumption DEF PtyType
<1>2. QED
  BY <1>1 DEF Reply

LEMMA ParseReplies == Parse \/ SyncTimeout => Reply \/ UNCHANGED inFree
<1>1. FlushSync => Reply \/ UNCHANGED inFree
  BY DEF FlushSync
<1>2. ASSUME NEW item, ParseItem(item)
      PROVE  Reply \/ UNCHANGED inFree
  BY <1>1, <1>2 DEF ParseItem, OnFull
<1>3. QED
  BY <1>1, <1>2 DEF Parse, SyncTimeout

LEMMA ReplyType ==
  ASSUME PtyType, Parse \/ SyncTimeout
  PROVE  PtyType' /\ inFree' <= inFree
<1>1. inFree' \in 0..InCap /\ inFree' <= inFree
  BY ParseReplies, ReplyTakesRoom
<1>2. UNCHANGED <<out, ptyIn, edge, sigchld, alive, hup, ptySize, nOut>>
  BY DEF Parse, SyncTimeout
<1>3. QED
  BY <1>1, <1>2 DEF PtyType

LEMMA ParseType == Parts /\ Parse => Parts'
<1>1. SUFFICES ASSUME Parts, Parse PROVE Parts'
  OBVIOUS
<1>2. MainType /\ ReadType /\ LoopType /\ UNCHANGED ui /\ UNCHANGED canRead
      /\ UNCHANGED canWrite /\ UNCHANGED evs /\ UNCHANGED ptyEvent
  BY <1>1 DEF Parts, Parse
<1>3. CASE rbuf # <<>>
  <2>1. /\ ParseItem(Head(rbuf))
        /\ rbuf' = Tail(rbuf) /\ processed' = processed + 1
        /\ UNCHANGED pc /\ UNCHANGED lockq
    BY <1>1, <1>3 DEF Parse
  <2>2. rbuf' \in Seq(Items) /\ processed' \in Nat
    BY <1>2, <1>3, <2>1, HeadTailProperties DEF ReadType
  <2>3. syncActive' \in BOOLEAN /\ dirty' \in BOOLEAN
    BY <1>2, <2>1, Zenon DEF ReadType, ParseItem, OnFull, FlushSync
  <2>4. syncLen' \in Nat
    BY <1>2, <2>1 DEF ReadType, ParseItem, OnFull, FlushSync
  <2>5. ReadType'
    BY <2>2, <2>3, <2>4 DEF ReadType
  <2>6. MainType' /\ LoopType'
    BY <1>2, <2>1, Frame
  <2>7. QED
    BY <1>1, <2>5, <2>6, ReplyType, Frame DEF Parts, Parse
<1>4. CASE rbuf = <<>>
  <2>1. AfterBatch /\ UNCHANGED rbuf /\ UNCHANGED processed
        /\ UNCHANGED syncActive /\ UNCHANGED syncLen
    BY <1>1, <1>4 DEF Parse
  <2>2. MainType' /\ dirty' \in BOOLEAN /\ pc' \in {"readDone", "bump"}
    <3>1. dirty \in BOOLEAN
      BY <1>2 DEF ReadType
    <3>2. CASE FinishRead
      BY <1>2, <3>1, <3>2, FinishReadType
    <3>3. CASE ~FinishRead
      <4>1. /\ pc' = "bump" /\ UNCHANGED dirty
            /\ lockq' = IF Len(lockq) > 1 THEN Append(Tail(lockq), "loop")
                                          ELSE lockq
        BY <2>1, <3>3 DEF AfterBatch
      <4>2. Len(lockq) > 1 => lockq # <<>>
        BY <1>2, EmptySeq DEF MainType
      <4>3. QED
        BY <1>2, <3>1, <4>1, <4>2, LockType DEF MainType
    <3>4. QED
      BY <3>2, <3>3
  <2>3. ReadType' /\ LoopType'
    BY <1>2, <2>1, <2>2 DEF ReadType, LoopType, PCs
  <2>4. QED
    BY <1>1, <2>2, <2>3, ReplyType, Frame DEF Parts, Parse
<1>5. QED
  BY <1>3, <1>4

LEMMA BumpedType == Parts /\ Bumped => Parts'
<1>1. SUFFICES ASSUME Parts, Bumped PROVE Parts'
  OBVIOUS
<1>2. LoopType'
  BY <1>1 DEF Parts, LoopType, PCs, Bumped
<1>3. MainType'
  BY <1>1, Frame DEF Parts, Bumped
<1>4. QED
  BY <1>1, <1>2, <1>3, Frame DEF Parts, Bumped

-----------------------------------------------------------------------------
(* The loop: pty_write, and the steps that wait for the lock.              *)
LEMMA WriteSomeType ==
  ASSUME Parts, WriteSome
  PROVE  WriteType' /\ inFree' \in 0..InCap /\ ptyIn' \in Seq(Nat \X Nat)
<1>1. PICK n \in 1..MaxLen :
        /\ Accepts(n)
        /\ inFree' = inFree - n
        /\ ptyIn' = ptyIn \o [k \in 1..n |-> <<writing.id, writing.written + k>>]
        /\ GotoNext \/ Advance(n)
  BY Zenon DEF WriteSome
<1>2. n \in Nat
  BY ConstantsAssumption
<1>3. inFree' \in 0..InCap
  BY <1>1, <1>2, ConstantsAssumption DEF Accepts, Parts, PtyType
<1>4. writing.id \in Nat /\ writing.written \in Nat
  BY DEF Parts, WriteType, Chunks
<1>5. ptyIn' \in Seq(Nat \X Nat)
  <2>1. [k \in 1..n |-> <<writing.id, writing.written + k>>] \in Seq(Nat \X Nat)
    BY <1>2, <1>4, SeqDef
  <2>2. ptyIn \in Seq(Nat \X Nat)
    BY DEF Parts, PtyType
  <2>3. QED
    BY <1>1, <2>1, <2>2, ConcatProperties
<1>6. WriteType'
  <2>1. CASE GotoNext
    BY <2>1, GotoNextType DEF Parts
  <2>2. CASE Advance(n)
    BY <1>2, <1>4, <2>2 DEF Advance, Parts, WriteType, Chunks
  <2>3. QED
    BY <1>1, <2>1, <2>2
<1>7. QED
  BY <1>3, <1>5, <1>6

LEMMA WriteSteps == Parts /\ Write => Parts'
<1>1. SUFFICES ASSUME Parts, Write PROVE Parts'
  OBVIOUS
<1>2. WriteType' /\ inFree' \in 0..InCap /\ ptyIn' \in Seq(Nat \X Nat)
  <2>1. CASE WriteSome
    BY <1>1, <2>1, WriteSomeType
  <2>2. CASE ~WriteSome
    <3>1. UNCHANGED writeVars /\ UNCHANGED inFree /\ UNCHANGED ptyIn
      BY <1>1, <2>2, Zenon
         DEF Write, WriteWouldBlock, WriteInterrupted, WriteError
    <3>2. QED
      BY <1>1, <3>1, Frame DEF Parts, PtyType
  <2>3. QED
    BY <2>1, <2>2
<1>3. PtyType'
  BY <1>1, <1>2 DEF Parts, PtyType, Write
<1>4. canWrite' = canWrite \/ canWrite' = FALSE
  BY <1>1, Zenon
     DEF Write, WriteSome, WriteWouldBlock, WriteInterrupted, WriteError
<1>5. pc' \in {pc, "work", "windDown"}
  BY <1>1, Zenon
     DEF Write, WriteSome, WriteWouldBlock, WriteInterrupted, WriteError
<1>6. LoopType'
  BY <1>1, <1>4, <1>5 DEF Parts, LoopType, PCs, Write
<1>7. nIntr' = nIntr \/ nIntr' = nIntr + 1
  BY <1>1, Zenon
     DEF Write, WriteSome, WriteWouldBlock, WriteInterrupted, WriteError
<1>8. IntrType' /\ MainType'
  BY <1>1, <1>7, Frame DEF Parts, IntrType, Write
<1>9. QED
  BY <1>1, <1>2, <1>3, <1>6, <1>8, Frame DEF Parts, Write

LEMMA ExitStep ==
  ASSUME ExitType, NEW r \in Reasons, Exit(r)
  PROVE  exits' \in Seq(Reasons)
BY DEF Exit, ExitType

LEMMA LockingType ==
  Parts /\ (RequestLock \/ SyncTimeout \/ ChildExit \/ WindDown \/ LastExit)
    => Parts'
<1>1. SUFFICES ASSUME Parts,
                      RequestLock \/ SyncTimeout \/ ChildExit \/ WindDown \/ LastExit
               PROVE  Parts'
  OBVIOUS
<1>2. {"ShellProcessExited", "PtyDisconnected"} = Reasons
  BY DEF Reasons
<1>3. CASE RequestLock
  <2>1. MainType'
    BY <1>1, <1>3, LockType DEF Parts, MainType, RequestLock
  <2>2. QED
    BY <1>1, <1>3, <2>1, Frame DEF Parts, RequestLock
<1>4. CASE SyncTimeout
  <2>1. MainType'
    BY <1>1, <1>4, LockType DEF Parts, MainType, SyncTimeout, Holding
  <2>2. LoopType'
    BY <1>1, <1>4 DEF Parts, LoopType, PCs, SyncTimeout
  <2>3. ReadType'
    BY <1>1, <1>4 DEF Parts, ReadType, SyncTimeout, FlushSync
  <2>4. QED
    BY <1>1, <1>4, <2>1, <2>2, <2>3, ReplyType, Frame DEF Parts, SyncTimeout
<1>5. CASE ChildExit
  <2>1. MainType'
    BY <1>1, <1>5, LockType DEF Parts, MainType, ChildExit, Holding
  <2>2. LoopType'
    BY <1>1, <1>5 DEF Parts, LoopType, PCs, ChildExit
  <2>3. ReadType'
    BY <1>1, <1>5 DEF Parts, ReadType, ChildExit
  <2>4. exits' \in Seq(Reasons)
    BY <1>1, <1>2, <1>5, ExitStep DEF Parts, ChildExit
  <2>5. ExitType'
    BY <1>1, <1>5, <2>4 DEF Parts, ExitType, ChildExit, NoteChildExit
  <2>6. QED
    BY <1>1, <1>5, <2>1, <2>2, <2>3, <2>5, Frame DEF Parts, ChildExit
<1>6. CASE WindDown
  <2>1. LoopType'
    BY <1>1, <1>6 DEF Parts, LoopType, PCs, WindDown
  <2>2. ExitType'
    BY <1>1, <1>6 DEF Parts, ExitType, WindDown
  <2>3. PtyType'
    BY <1>1, <1>6 DEF Parts, PtyType, WindDown
  <2>4. MainType'
    BY <1>1, <1>6, Frame DEF Parts, WindDown
  <2>5. QED
    BY <1>1, <1>6, <2>1, <2>2, <2>3, <2>4, Frame DEF Parts, WindDown
<1>7. CASE LastExit
  <2>1. MainType'
    BY <1>1, <1>7, LockType DEF Parts, MainType, LastExit, Holding
  <2>2. LoopType'
    BY <1>1, <1>7 DEF Parts, LoopType, PCs, LastExit
  <2>3. exits' \in Seq(Reasons)
    BY <1>1, <1>2, <1>7, ExitStep DEF Parts, LastExit
  <2>4. ExitType'
    BY <1>1, <1>7, <2>3 DEF Parts, ExitType, LastExit
  <2>5. QED
    BY <1>1, <1>7, <2>1, <2>2, <2>4, Frame DEF Parts, LastExit
<1>8. QED
  BY <1>1, <1>3, <1>4, <1>5, <1>6, <1>7

LEMMA TypeStep == Parts /\ [Next]_vars => Parts'
<1>1. SUFFICES ASSUME Parts, [Next]_vars PROVE Parts'
  OBVIOUS
<1>2. CASE UNCHANGED vars
  <2>1. /\ UNCHANGED chanVars /\ UNCHANGED <<ui, lockq>>
        /\ UNCHANGED <<pc, evs, ptyEvent, canRead, canWrite>>
        /\ UNCHANGED writeVars /\ UNCHANGED readVars /\ UNCHANGED exitVars
        /\ UNCHANGED ptyVars /\ UNCHANGED nIntr
    BY <1>2 DEF vars, chanVars, writeVars, readVars, exitVars, ptyVars
  <2>2. QED
    BY <1>1, <2>1, Frame DEF Parts
<1>3. CASE LoopStep
  BY <1>1, <1>3, RegisterType, PollType, HandleEventsType, DrainType, WorkType,
     ReadSteps, TakeLockType, ParseType, BumpedType, WriteSteps, LockingType
     DEF LoopStep
<1>4. CASE Next /\ ~LoopStep
  BY <1>1, <1>4, UiSendType, ChildCallbackType, WakeType, UiLockType, ShellType
     DEF Next
<1>5. QED
  BY <1>1, <1>2, <1>3, <1>4

(***************************************************************************)
(* Every variable stays in its set, for inputs, buffers and numbers of     *)
(* inputs of any size: in particular the kernel is never given more than   *)
(* it has room for (pty_write), and the queues only hold messages.         *)
(***************************************************************************)
THEOREM TypeCorrect == Spec => []TypeOK
<1>1. Init => Parts
  BY TypeInit
<1>2. Parts /\ [Next]_vars => Parts'
  BY TypeStep
<1>3. QED
  BY <1>1, <1>2, TypeIsParts, PTL DEF Spec

-----------------------------------------------------------------------------
(* No wakeup is lost.  A message nobody is about to wake the loop for is   *)
(* recorded, from the sender's wake on: in needs_wake_on_register until    *)
(* the receiver is registered, then as an event of epoll, then as one that *)
(* poll returned, until the loop drains the channel, or for good.          *)
Leaving == {"drain", "childExit", "windDown", "lastExit", "done"}
WakeRecorded ==
  \/ wakeEvent
  \/ pc = "events" /\ "channel" \in evs
  \/ pc \in Leaving
WakeInv ==
  /\ waker <=> pc # "register"
  /\ chan # <<>> /\ waking = {} =>
       IF pc = "register" THEN needsWake ELSE WakeRecorded

LEMMA WakeInit == Init => WakeInv
BY DEF Init, WakeInv

(* Steps of senders and of the main thread.                                *)
LEMMA WakeSend ==
  ASSUME WakeInv, UNCHANGED pc, NEW s, NEW kind, NEW arg, NEW n,
         Send(s, kind, arg, n)
  PROVE  WakeInv'
BY DEF WakeInv, Send

LEMMA WakeWake ==
  ASSUME TypeOK, WakeInv, NEW s \in Senders, Wake(s)
  PROVE  WakeInv'
<1>1. UNCHANGED pc /\ UNCHANGED waker
  BY DEF Wake
<1>2. (waker <=> pc # "register") /\ waker \in BOOLEAN
  BY DEF TypeOK, WakeInv
<1>3. CASE pc = "register"
  <2>1. needsWake'
    BY <1>2, <1>3 DEF Wake, WakeReceiver
  <2>2. QED
    BY <1>1, <1>2, <1>3, <2>1 DEF WakeInv
<1>4. CASE pc # "register"
  <2>1. wakeEvent'
    BY <1>2, <1>4 DEF Wake, WakeReceiver
  <2>2. QED
    BY <1>1, <1>2, <1>4, <2>1 DEF WakeInv, WakeRecorded
<1>5. QED
  BY <1>3, <1>4

(* A step of the loop that leaves the channel alone keeps what is recorded *)
(* unless it forgets the events of a poll.                                 *)
LEMMA WakeKept ==
  ASSUME WakeInv, UNCHANGED <<chan, waker, waking, wakeEvent, needsWake>>,
         pc # "register", pc' # "register",
         \/ pc \notin Leaving /\ ~(pc = "events" /\ "channel" \in evs)
         \/ pc' \in Leaving
         \/ pc' = "events" /\ "channel" \in evs'
  PROVE  WakeInv'
BY DEF WakeInv, WakeRecorded

LEMMA WakeRegister == TypeOK /\ WakeInv /\ Register => WakeInv'
BY DEF TypeOK, WakeInv, WakeRecorded, Register

LEMMA WakePoll == TypeOK /\ WakeInv /\ Poll => WakeInv'
<1>1. SUFFICES ASSUME TypeOK, WakeInv, Poll PROVE WakeInv'
  OBVIOUS
<1>2. /\ pc = "poll" /\ pc' # "register"
      /\ UNCHANGED chan /\ UNCHANGED waker /\ UNCHANGED waking
  BY <1>1 DEF Poll
<1>3. chan # <<>> /\ waking = {} => wakeEvent
  BY <1>1, <1>2 DEF WakeInv, WakeRecorded, Leaving
<1>4. wakeEvent => "channel" \in ReadyEvents
  BY DEF ReadyEvents
<1>5. wakeEvent => pc' = "events" /\ "channel" \in evs'
  BY <1>1, <1>4 DEF Poll
<1>6. QED
  BY <1>1, <1>2, <1>3, <1>5 DEF WakeInv, WakeRecorded

LEMMA WakeEvents == WakeInv /\ HandleEvents => WakeInv'
<1>1. SUFFICES ASSUME WakeInv, HandleEvents PROVE WakeInv'
  OBVIOUS
<1>2. pc = "events" /\ UNCHANGED <<chan, waker, waking, wakeEvent, needsWake>>
  BY <1>1 DEF HandleEvents, chanVars
<1>3. \/ HandleChannelEvent \/ HandleChildEvent \/ HandlePtyEvent
      \/ evs = {} /\ pc' = "work"
  BY <1>1, Zenon DEF HandleEvents
<1>4. CASE HandleChannelEvent
  BY <1>1, <1>2, <1>4, WakeKept DEF HandleChannelEvent, Leaving
<1>5. CASE HandleChildEvent
  <2>1. pc' \in {"events", "childExit"} /\ evs' = evs \ {"child"}
    BY <1>2, <1>5 DEF HandleChildEvent, AfterSigchld
  <2>2. QED
    BY <1>1, <1>2, <2>1, WakeKept DEF Leaving
<1>6. CASE HandlePtyEvent
  <2>1. pc' = "events" /\ evs' = evs \ {"pty"}
    BY <1>2, <1>6 DEF HandlePtyEvent
  <2>2. QED
    BY <1>1, <1>2, <2>1, WakeKept DEF Leaving
<1>7. CASE evs = {} /\ pc' = "work"
  BY <1>1, <1>2, <1>7, WakeKept DEF Leaving
<1>8. QED
  BY <1>3, <1>4, <1>5, <1>6, <1>7

LEMMA WakeDrain == WakeInv /\ Drain => WakeInv'
<1>1. SUFFICES ASSUME WakeInv, Drain PROVE WakeInv'
  OBVIOUS
<1>2. /\ pc = "drain" /\ UNCHANGED <<waker, waking, wakeEvent, needsWake>>
  BY <1>1 DEF Drain
<1>3. \/ pc' = "events" /\ chan' = <<>>
      \/ pc' \in {"drain", "windDown", "childExit"}
  BY <1>1 DEF Drain, AfterMessage
<1>4. QED
  BY <1>1, <1>2, <1>3 DEF WakeInv, WakeRecorded, Leaving

(* The other steps of the loop.                                            *)
Working == {"work", "read", "lock", "parse", "bump", "readDone", "write",
            "syncTimeout"}
LEMMA WakeOthers ==
  ASSUME WakeInv, Work \/ Read \/ TakeLock \/ Parse \/ Bumped \/ Write
                    \/ RequestLock \/ SyncTimeout \/ ChildExit \/ WindDown
                    \/ LastExit
  PROVE  WakeInv'
<1>1. UNCHANGED <<chan, waker, waking, wakeEvent, needsWake>>
  BY DEF Work, Read, TakeLock, Parse, Bumped, Write, RequestLock, SyncTimeout,
         ChildExit, WindDown, LastExit, chanVars
<1>2. \/ pc \in Working /\ pc' # "register"
      \/ pc \in Leaving /\ pc' \in Leaving
  <2>1. CASE Work
    BY <2>1, Zenon DEF Work, StartRead, StartWrite, NothingToDo, Working
  <2>2. CASE Read
    <3>1. pc' \in {"lock", "readDone", "windDown"}
      BY <2>2, Zenon DEF Read, ReadGot, ReadWouldBlock, ReadEof,
                         ReadInterrupted, ReadError, FinishRead
    <3>2. QED
      BY <2>2, <3>1 DEF Read, Working
  <2>3. CASE TakeLock
    BY <2>3 DEF TakeLock, Working
  <2>4. CASE Parse
    BY <2>4 DEF Parse, AfterBatch, FinishRead, Working
  <2>5. CASE Bumped
    BY <2>5 DEF Bumped, Working
  <2>6. CASE Write
    <3>1. pc' \in {pc, "work", "windDown"}
      BY <2>6, Zenon
         DEF Write, WriteSome, WriteWouldBlock, WriteInterrupted, WriteError
    <3>2. QED
      BY <2>6, <3>1 DEF Write, Working
  <2>7. CASE RequestLock \/ SyncTimeout \/ ChildExit \/ WindDown \/ LastExit
    BY <2>7 DEF RequestLock, Locking, SyncTimeout, ChildExit, WindDown,
                LastExit, Working, Leaving
  <2>8. QED
    BY <2>1, <2>2, <2>3, <2>4, <2>5, <2>6, <2>7
<1>3. QED
  BY <1>1, <1>2, WakeKept DEF Working, Leaving

LEMMA WakeStep == TypeOK /\ WakeInv /\ [Next]_vars => WakeInv'
<1>1. SUFFICES ASSUME TypeOK, WakeInv, [Next]_vars PROVE WakeInv'
  OBVIOUS
<1>2. CASE LoopStep
  BY <1>1, <1>2, WakeRegister, WakePoll, WakeEvents, WakeDrain, WakeOthers
     DEF LoopStep
<1>3. CASE UiSend
  <2>1. UNCHANGED pc
    BY <1>3 DEF UiSend
  <2>2. QED
    BY <1>1, <1>3, <2>1, WakeSend
       DEF UiSend, SendInput, SendResize, SendShutdown
<1>4. CASE ChildExitCallback
  BY <1>1, <1>4, WakeSend DEF ChildExitCallback
<1>5. CASE \E s \in Senders : Wake(s)
  BY <1>1, <1>5, WakeWake
<1>6. ASSUME UNCHANGED <<chan, waker, waking, wakeEvent, needsWake, pc, evs>>
      PROVE  WakeInv'
  BY <1>1, <1>6 DEF WakeInv, WakeRecorded
<1>7. CASE UiLock \/ UiUnlock \/ ShellStep \/ OtherChildExit
  BY <1>6, <1>7 DEF UiLock, UiUnlock, ShellStep, OtherChildExit, chanVars
<1>8. CASE UNCHANGED vars
  BY <1>6, <1>8 DEF vars
<1>9. QED
  BY <1>1, <1>2, <1>3, <1>4, <1>5, <1>7, <1>8 DEF Next

(***************************************************************************)
(* A message in the channel is never left to a loop that sleeps or is not  *)
(* registered yet, whatever the order of sends, wakes, registration and    *)
(* polls (mio_channel.rs).                                                 *)
(***************************************************************************)
THEOREM NoWakeupIsLost == Spec => []NoLostWakeup
<1>1. WakeInv => NoLostWakeup
  BY DEF WakeInv, WakeRecorded, NoLostWakeup, Leaving
<1>2. QED
  BY <1>1, WakeInit, WakeStep, TypeCorrect, PTL DEF Spec

-----------------------------------------------------------------------------
(* How a pane ends.  Everything that makes the loop take the child for     *)
(* exited (a SIGCHLD that was checked, the callback of Windows, a message) *)
(* is a consequence of the shell's death, and until that or the end of the *)
(* loop nobody is told anything.                                           *)
ToldOf(exited) == IF exited THEN <<"ShellProcessExited">> ELSE <<>>
Ended == {"windDown", "lastExit", "done"}

DeathIsReal ==
  /\ Windows /\ sigchld => ~alive
  /\ \A i \in DOMAIN chan : chan[i].kind = "childExited" => ~alive
  /\ childExited \/ pc = "childExit" => ~alive
EndInv ==
  /\ DeathIsReal
  /\ pc \notin Ended => exits = <<>> /\ ~childExited
  /\ pc \in {"windDown", "lastExit"} => exits = ToldOf(childExited)
  /\ pc \in {"lastExit", "done"} => ~alive /\ killed = ~childExited
  /\ ShellNotOrphaned

LEMMA EndInit == Init => EndInv
BY DEF Init, EndInv, DeathIsReal, Ended, ShellNotOrphaned

(* Before its end the loop changes nothing that EndInv speaks of, but for  *)
(* the program point.                                                      *)
LEMMA EndKept ==
  ASSUME EndInv, UNCHANGED <<chan, exits, childExited, killed, alive, sigchld>>,
         \/ UNCHANGED pc
         \/ pc \notin Ended /\ pc' \notin Ended \cup {"childExit"}
         \/ pc \notin Ended /\ pc' = "windDown"
  PROVE  EndInv'
<1>1. DeathIsReal'
  BY DEF EndInv, DeathIsReal, Ended
<1>2. CASE UNCHANGED pc
  BY <1>1, <1>2 DEF EndInv, Ended, ToldOf, ShellNotOrphaned
<1>3. CASE pc \notin Ended /\ pc' \notin Ended
  BY <1>1, <1>3 DEF EndInv, Ended, ShellNotOrphaned
<1>4. CASE pc \notin Ended /\ pc' = "windDown"
  BY <1>1, <1>4 DEF EndInv, Ended, ToldOf, ShellNotOrphaned
<1>5. QED
  BY <1>2, <1>3, <1>4

LEMMA EndSend ==
  ASSUME TypeOK, EndInv, NEW s, NEW kind, NEW arg, NEW n,
         Send(s, kind, arg, n), kind = "childExited" => ~alive,
         UNCHANGED <<pc, exits, childExited, killed, alive>>,
         sigchld' => sigchld
  PROVE  EndInv'
<1>1. ASSUME NEW i \in DOMAIN chan', chan'[i].kind = "childExited"
      PROVE  ~alive
  <2> DEFINE m == [kind |-> kind, arg |-> arg, n |-> n]
  <2>1. chan' = Append(chan, m) /\ chan \in Seq(Message) /\ m.kind = kind
    BY DEF Send, TypeOK
  <2> HIDE DEF m
  <2>2. \/ i \in DOMAIN chan /\ chan'[i] = chan[i]
        \/ chan'[i] = m
    BY <2>1
  <2>3. QED
    BY <1>1, <2>1, <2>2 DEF EndInv, DeathIsReal
<1>2. DeathIsReal'
  BY <1>1 DEF EndInv, DeathIsReal
<1>3. QED
  BY <1>2 DEF EndInv, Ended, ToldOf, ShellNotOrphaned

LEMMA EndShell == TypeOK /\ EndInv /\ (ShellStep \/ OtherChildExit) => EndInv'
<1>1. SUFFICES ASSUME TypeOK, EndInv, ShellStep \/ OtherChildExit PROVE EndInv'
  OBVIOUS
<1>2. /\ UNCHANGED chan /\ UNCHANGED pc /\ UNCHANGED exits
      /\ UNCHANGED childExited /\ UNCHANGED killed
  BY <1>1 DEF ShellStep, OtherChildExit, chanVars, exitVars
<1>3. /\ ~alive => ~alive'
      /\ Windows /\ sigchld' => (Windows /\ sigchld) \/ ~alive'
  <2>1. CASE ShellStep
    <3>1. \/ UNCHANGED <<sigchld, alive>>
          \/ alive' = FALSE
      BY <2>1 DEF ShellStep, ShellWrite, ShellRead, ShellExit
    <3>2. QED
      BY <3>1
  <2>2. CASE OtherChildExit
    BY <2>2 DEF OtherChildExit
  <2>3. QED
    BY <1>1, <2>1, <2>2
<1>4. DeathIsReal'
  BY <1>1, <1>2, <1>3 DEF EndInv, DeathIsReal
<1>5. QED
  BY <1>1, <1>2, <1>3, <1>4 DEF EndInv, Ended, ToldOf, ShellNotOrphaned

LEMMA EndEvents == TypeOK /\ EndInv /\ HandleEvents => EndInv'
<1>1. SUFFICES ASSUME TypeOK, EndInv, HandleEvents PROVE EndInv'
  OBVIOUS
<1>2. /\ pc = "events"
      /\ UNCHANGED <<chan, exits, childExited, killed, alive>>
  BY <1>1 DEF HandleEvents, chanVars, exitVars
<1>3. \/ HandleChannelEvent \/ HandleChildEvent \/ HandlePtyEvent
      \/ pc' = "work" /\ UNCHANGED sigchld
  BY <1>1, Zenon DEF HandleEvents
<1>4. sigchld' = FALSE \/ UNCHANGED sigchld
  BY <1>3 DEF HandleChannelEvent, HandleChildEvent, HandlePtyEvent
<1>5. pc' \in {"events", "drain", "work"} \/ (pc' = "childExit" /\ ~alive)
  BY <1>2, <1>3 DEF HandleChannelEvent, HandleChildEvent, HandlePtyEvent,
                    AfterSigchld
<1>6. DeathIsReal'
  BY <1>1, <1>2, <1>4, <1>5 DEF EndInv, DeathIsReal
<1>7. QED
  BY <1>1, <1>2, <1>5, <1>6 DEF EndInv, Ended, ShellNotOrphaned

LEMMA EndDrain == TypeOK /\ EndInv /\ Drain => EndInv'
<1>1. SUFFICES ASSUME TypeOK, EndInv, Drain PROVE EndInv'
  OBVIOUS
<1>2. /\ pc = "drain"
      /\ UNCHANGED <<exits, childExited, killed, alive, sigchld>>
  BY <1>1 DEF Drain, exitVars
<1>3. CASE chan = <<>>
  <2>1. pc' = "events" /\ UNCHANGED chan
    BY <1>1, <1>3 DEF Drain
  <2>2. QED
    BY <1>1, <1>2, <2>1, EndKept DEF Ended
<1>4. CASE chan # <<>>
  <2>1. /\ chan' = Tail(chan) /\ pc' = AfterMessage(Head(chan))
        /\ chan \in Seq(Message)
    BY <1>1, <1>4 DEF Drain, TypeOK
  <2>2. /\ Head(chan) = chan[1] /\ 1 \in DOMAIN chan
        /\ \A i \in DOMAIN chan' : i + 1 \in DOMAIN chan /\ chan'[i] = chan[i + 1]
    BY <1>4, <2>1
  <2>3. /\ pc' \in {"windDown", "childExit", "drain"}
        /\ pc' = "childExit" => ~alive
    BY <1>1, <2>1, <2>2 DEF AfterMessage, EndInv, DeathIsReal
  <2>4. DeathIsReal'
    BY <1>1, <1>2, <2>2, <2>3 DEF EndInv, DeathIsReal
  <2>5. QED
    BY <1>1, <1>2, <2>3, <2>4 DEF EndInv, Ended, ToldOf, ShellNotOrphaned
<1>5. QED
  BY <1>3, <1>4

LEMMA EndExits ==
  TypeOK /\ EndInv /\ (ChildExit \/ WindDown \/ LastExit) => EndInv'
<1>1. SUFFICES ASSUME TypeOK, EndInv, ChildExit \/ WindDown \/ LastExit
               PROVE  EndInv'
  OBVIOUS
<1>2. UNCHANGED chan /\ UNCHANGED sigchld
  BY <1>1 DEF ChildExit, WindDown, LastExit, chanVars, ptyVars
<1>3. CASE ChildExit
  <2>1. /\ pc = "childExit" /\ pc' = "windDown" /\ childExited' = TRUE
        /\ UNCHANGED alive /\ Exit("ShellProcessExited")
    BY <1>3 DEF ChildExit, NoteChildExit, ptyVars
  <2>2. exits' = <<"ShellProcessExited">> /\ ~alive
    BY <1>1, <2>1 DEF EndInv, DeathIsReal, Ended, Exit
  <2>3. DeathIsReal'
    BY <1>1, <1>2, <2>1, <2>2 DEF EndInv, DeathIsReal
  <2>4. QED
    BY <2>1, <2>2, <2>3 DEF EndInv, Ended, ToldOf, ShellNotOrphaned
<1>4. CASE WindDown
  <2>1. /\ pc = "windDown" /\ pc' = "lastExit"
        /\ UNCHANGED exits /\ UNCHANGED childExited
        /\ killed' = ~childExited /\ alive' = (alive /\ childExited)
    BY <1>4 DEF WindDown
  <2>2. ~alive'
    BY <1>1, <2>1 DEF EndInv, DeathIsReal
  <2>3. DeathIsReal'
    BY <2>2 DEF DeathIsReal
  <2>4. QED
    BY <1>1, <2>1, <2>2, <2>3 DEF EndInv, Ended, ToldOf, ShellNotOrphaned
<1>5. CASE LastExit
  <2>1. /\ pc = "lastExit" /\ pc' = "done"
        /\ UNCHANGED alive /\ UNCHANGED childExited /\ UNCHANGED killed
        /\ Exit("PtyDisconnected")
    BY <1>5 DEF LastExit, ptyVars
  <2>2. exits = ToldOf(childExited) /\ ~alive /\ killed = ~childExited
    BY <1>1, <2>1 DEF EndInv
  <2>3. exits' = <<IF childExited THEN "ShellProcessExited" ELSE "PtyDisconnected">>
    BY <2>1, <2>2 DEF ToldOf, Exit
  <2>4. DeathIsReal'
    BY <2>1, <2>2 DEF DeathIsReal
  <2>5. QED
    BY <2>1, <2>2, <2>3, <2>4 DEF EndInv, Ended, ShellNotOrphaned
<1>6. QED
  BY <1>1, <1>3, <1>4, <1>5

LEMMA EndOthers ==
  ASSUME TypeOK, EndInv,
         Register \/ Poll \/ Work \/ Read \/ TakeLock \/ Parse \/ Bumped
           \/ Write \/ RequestLock \/ SyncTimeout
  PROVE  EndInv'
<1>1. UNCHANGED <<chan, exits, childExited, killed, alive, sigchld>>
  BY DEF Register, Poll, Work, Read, TakeLock, Parse, Bumped, Write,
         RequestLock, SyncTimeout, chanVars, exitVars, ptyVars
<1>2. \/ UNCHANGED pc
      \/ pc \notin Ended /\ pc' \notin Ended \cup {"childExit"}
      \/ pc \notin Ended /\ pc' = "windDown"
  <2>1. CASE Register \/ Poll
    BY <2>1 DEF Register, Poll, Ended
  <2>2. CASE Work
    <3>1. pc \in {"work", "readDone"} /\ pc' \in {"read", "write", "poll", "work"}
      BY <2>2, Zenon DEF Work, StartRead, StartWrite, NothingToDo
    <3>2. QED
      BY <3>1 DEF Ended
  <2>3. CASE Read
    <3>1. pc' \in {"lock", "readDone", "windDown"}
      BY <2>3, Zenon DEF Read, ReadGot, ReadWouldBlock, ReadEof,
                         ReadInterrupted, ReadError, FinishRead
    <3>2. QED
      BY <2>3, <3>1 DEF Read, Ended
  <2>4. CASE TakeLock \/ Bumped \/ RequestLock \/ SyncTimeout
    BY <2>4 DEF TakeLock, Bumped, RequestLock, SyncTimeout, Ended
  <2>5. CASE Parse
    BY <2>5 DEF Parse, AfterBatch, FinishRead, Ended
  <2>6. CASE Write
    <3>1. pc' \in {pc, "work", "windDown"}
      BY <2>6, Zenon
         DEF Write, WriteSome, WriteWouldBlock, WriteInterrupted, WriteError
    <3>2. QED
      BY <2>6, <3>1 DEF Write, Ended
  <2>7. QED
    BY <2>1, <2>2, <2>3, <2>4, <2>5, <2>6
<1>3. QED
  BY <1>1, <1>2, EndKept

LEMMA EndStep == TypeOK /\ EndInv /\ [Next]_vars => EndInv'
<1>1. SUFFICES ASSUME TypeOK, EndInv, [Next]_vars PROVE EndInv'
  OBVIOUS
<1>2. CASE LoopStep
  BY <1>1, <1>2, EndEvents, EndDrain, EndExits, EndOthers DEF LoopStep
<1>3. CASE UiSend
  <2>1. UNCHANGED <<pc, exits, childExited, killed, alive, sigchld>>
    BY <1>3 DEF UiSend, exitVars, ptyVars
  <2>2. QED
    BY <1>1, <1>3, <2>1, EndSend
       DEF UiSend, SendInput, SendResize, SendShutdown
<1>4. CASE ChildExitCallback
  <2>1. /\ UNCHANGED <<pc, exits, childExited, killed, alive>>
        /\ sigchld' = FALSE /\ Send("watcher", "childExited", 0, Len(sent))
        /\ Windows /\ sigchld
    BY <1>4 DEF ChildExitCallback, exitVars
  <2>2. ~alive
    BY <1>1, <2>1 DEF EndInv, DeathIsReal
  <2>3. QED
    BY <1>1, <2>1, <2>2, EndSend
<1>5. CASE ShellStep \/ OtherChildExit
  BY <1>1, <1>5, EndShell
<1>6. CASE (\E s \in Senders : Wake(s)) \/ UiLock \/ UiUnlock \/ UNCHANGED vars
  <2>1. UNCHANGED <<chan, exits, childExited, killed, alive, sigchld, pc>>
    BY <1>6 DEF Wake, UiLock, UiUnlock, vars, chanVars, exitVars, ptyVars
  <2>2. QED
    BY <1>1, <2>1, EndKept
<1>7. QED
  BY <1>1, <1>2, <1>3, <1>4, <1>5, <1>6 DEF Next

(***************************************************************************)
(* The loop's thread never ends and leaves the shell alive, and the view   *)
(* is told once, of the shell's exit exactly if that is what ended it,     *)
(* whichever of Shutdown, hang-up and exit came first (event_loop.rs:476). *)
(***************************************************************************)
THEOREM ShellIsNotOrphaned == Spec => []ShellNotOrphaned
<1>1. EndInv => ShellNotOrphaned
  BY DEF EndInv
<1>2. QED
  BY <1>1, EndInit, EndStep, TypeCorrect, PTL DEF Spec

-----------------------------------------------------------------------------
(* The ordered pipe.  The inputs that are not written yet are, in this     *)
(* order, the one being written, the write list, and the channel; their    *)
(* numbers are consecutive and end with that of the last input sent.       *)
One(m) == IF m.kind = "input" THEN 1 ELSE 0
Taken == IF chan = <<>> THEN Len(sent) ELSE chan[1].n - One(chan[1])
First == Taken - Len(writeList) + (IF writing = NoChunk THEN 1 ELSE 0)

ChanOrder ==
  /\ \A i \in 1..(Len(chan) - 1) : chan[i + 1].n = chan[i].n + One(chan[i + 1])
  /\ chan # <<>> => chan[Len(chan)].n = Len(sent)
  /\ \A i \in 1..Len(chan) : chan[i].n <= Len(sent)
ListOrder ==
  /\ 1 <= First /\ Taken <= Len(sent)
  /\ \A i \in 1..Len(writeList) : writeList[i] = Taken - Len(writeList) + i
WritingOrder ==
  writing # NoChunk =>
    /\ writing.id = First
    /\ First <= Len(sent) => writing.written < sent[First]
Position ==
  /\ Pipe!NextByte = <<First, writing.written + 1>>
  /\ ptyIn # <<>> => ptyIn[Len(ptyIn)][1] \in 1..Len(sent)
PipeInv == ChanOrder /\ ListOrder /\ WritingOrder /\ Position

LEMMA PipeInit == Init => PipeInv
<1>1. SUFFICES ASSUME Init PROVE PipeInv
  OBVIOUS
<1>2. chan = <<>> /\ sent = <<>> /\ writeList = <<>> /\ ptyIn = <<>>
      /\ writing = NoChunk
  BY <1>1 DEF Init
<1>3. Len(sent) = 0 /\ Len(writeList) = 0 /\ Len(chan) = 0
  BY <1>2
<1>4. Taken = 0 /\ First = 1
  BY <1>2, <1>3 DEF Taken, First
<1>5. ChanOrder /\ ListOrder
  BY <1>2, <1>3, <1>4 DEF ChanOrder, ListOrder
<1>6. WritingOrder /\ Position
  BY <1>2, <1>4 DEF WritingOrder, Position, Pipe!NextByte, NoChunk
<1>7. QED
  BY <1>5, <1>6 DEF PipeInv

LEMMA TakenType == TypeOK => Taken \in Int /\ First \in Int
<1>1. SUFFICES ASSUME TypeOK PROVE Taken \in Int /\ First \in Int
  OBVIOUS
<1>2. Len(sent) \in Nat /\ Len(writeList) \in Nat
  BY <1>1 DEF TypeOK
<1>3. chan # <<>> => chan[1].n \in Nat
  <2>1. chan \in Seq(Message)
    BY <1>1 DEF TypeOK
  <2>2. chan # <<>> => chan[1] \in Message
    BY <2>1
  <2>3. QED
    BY <2>2 DEF Message
<1>4. QED
  BY <1>2, <1>3 DEF Taken, First, One

(* A step that leaves the inputs where they are keeps all of it.           *)
LEMMA PipeKept ==
  PipeInv /\ UNCHANGED <<chan, sent, writeList, writing, ptyIn>> => PipeInv'
BY DEF PipeInv, ChanOrder, ListOrder, WritingOrder, Position, Taken, First, One,
       Pipe!NextByte

(* A message appended to the channel, with the number of inputs sent.      *)
LEMMA ChanAppend ==
  ASSUME TypeOK, PipeInv, NEW m \in Message, chan' = Append(chan, m),
         m.n = Len(sent) + One(m), Len(sent') = m.n
  PROVE  ChanOrder' /\ Taken' = Taken
<1>1. /\ chan \in Seq(Message) /\ Len(chan) \in Nat /\ Len(sent) \in Nat
      /\ m.n \in Nat
  BY DEF TypeOK, Message
<1>2. /\ Len(chan') = Len(chan) + 1 /\ chan'[Len(chan) + 1] = m
      /\ \A i \in 1..Len(chan) : chan'[i] = chan[i]
      /\ chan' # <<>>
  BY <1>1
<1>3. ASSUME NEW i \in 1..(Len(chan') - 1)
      PROVE  chan'[i + 1].n = chan'[i].n + One(chan'[i + 1])
  <2>1. CASE i = Len(chan)
    <3>1. chan'[i] = chan[Len(chan)] /\ chan # <<>> /\ chan'[i + 1] = m
      BY <1>1, <1>2, <2>1
    <3>2. QED
      BY <3>1 DEF PipeInv, ChanOrder
  <2>2. CASE i # Len(chan)
    <3>1. /\ i \in 1..(Len(chan) - 1)
          /\ chan'[i] = chan[i] /\ chan'[i + 1] = chan[i + 1]
      BY <1>1, <1>2, <2>2
    <3>2. QED
      BY <3>1 DEF PipeInv, ChanOrder
  <2>3. QED
    BY <2>1, <2>2
<1>4. ChanOrder'
  <2>1. ASSUME NEW i \in 1..Len(chan') PROVE chan'[i].n <= Len(sent')
    <3>1. CASE i \in 1..Len(chan)
      <4>1. chan'[i] = chan[i] /\ chan[i].n <= Len(sent) /\ chan[i] \in Message
        BY <1>1, <1>2, <3>1 DEF PipeInv, ChanOrder
      <4>2. Len(sent) <= Len(sent') /\ chan[i].n \in Nat
        BY <1>1, <4>1 DEF One, Message
      <4>3. QED
        BY <1>1, <4>1, <4>2
    <3>2. CASE i = Len(chan) + 1
      BY <1>1, <1>2, <3>2
    <3>3. QED
      BY <1>1, <1>2, <3>1, <3>2
  <2>2. QED
    BY <1>1, <1>2, <1>3, <2>1 DEF ChanOrder, One
<1>5. Taken' = Taken
  <2>1. CASE chan = <<>>
    <3>1. chan'[1] = m
      BY <1>1, <1>2, <2>1
    <3>2. QED
      BY <1>1, <1>2, <2>1, <3>1 DEF Taken, One
  <2>2. CASE chan # <<>>
    <3>1. chan'[1] = chan[1]
      BY <1>1, <1>2, <2>2
    <3>2. QED
      BY <1>2, <2>2, <3>1 DEF Taken, One
  <2>3. QED
    BY <2>1, <2>2
<1>6. QED
  BY <1>4, <1>5

LEMMA PipeSend ==
  ASSUME TypeOK, PipeInv, NEW s, NEW kind \in Kinds, NEW arg \in Nat,
         Send(s, kind, arg, Len(sent)), kind # "input",
         UNCHANGED <<sent, writeList, writing, ptyIn>>
  PROVE  PipeInv'
<1> DEFINE m == [kind |-> kind, arg |-> arg, n |-> Len(sent)]
<1>1. m \in Message /\ m.n = Len(sent) + One(m) /\ chan' = Append(chan, m)
  BY DEF Send, Message, One, TypeOK
<1> HIDE DEF m
<1>2. ChanOrder' /\ Taken' = Taken
  <2>1. Len(sent) \in Nat /\ m.n = Len(sent)
    BY DEF TypeOK, m
  <2>2. QED
    BY <1>1, <2>1, ChanAppend
<1>3. First' = First
  BY <1>2 DEF First, NoChunk
<1>4. ListOrder' /\ WritingOrder'
  BY <1>2, <1>3 DEF PipeInv, ListOrder, WritingOrder
<1>5. Position'
  BY <1>3 DEF PipeInv, Position, Pipe!NextByte
<1>6. QED
  BY <1>2, <1>4, <1>5 DEF PipeInv

LEMMA PipeSendInput ==
  ASSUME TypeOK, PipeInv, SendInput, UNCHANGED <<writeList, writing, ptyIn>>
  PROVE  PipeInv'
<1>1. PICK len \in 1..MaxLen : /\ Send("ui", "input", len, Len(sent) + 1)
                               /\ sent' = Append(sent, len)
  BY DEF SendInput
<1> DEFINE m == [kind |-> "input", arg |-> len, n |-> Len(sent) + 1]
<1>2. sent \in Seq(1..MaxLen) /\ Len(sent) \in Nat /\ len \in Nat
  BY ConstantsAssumption DEF TypeOK
<1>3. /\ Len(sent') = Len(sent) + 1
      /\ \A i \in 1..Len(sent) : sent'[i] = sent[i]
  BY <1>1, <1>2
<1>4. m \in Message /\ m.n = Len(sent) + One(m) /\ m.n = Len(sent) + 1
      /\ chan' = Append(chan, m)
  BY <1>1, <1>2 DEF Send, Message, Kinds, One
<1> HIDE DEF m
<1>5. ChanOrder' /\ Taken' = Taken
  BY <1>3, <1>4, ChanAppend
<1>6. First' = First
  BY <1>5 DEF First, NoChunk
<1>7. Taken \in Int /\ First \in Int /\ Len(writeList) \in Nat
  BY TakenType DEF TypeOK
<1>8. ListOrder'
  BY <1>2, <1>3, <1>5, <1>6, <1>7 DEF PipeInv, ListOrder
<1>9. WritingOrder'
  <2>1. First <= Len(sent) \/ writing = NoChunk
    BY <1>2, <1>7 DEF PipeInv, ListOrder, First
  <2>2. First <= Len(sent) => sent'[First] = sent[First]
    BY <1>2, <1>3, <1>7 DEF PipeInv, ListOrder
  <2>3. QED
    BY <1>6, <2>1, <2>2 DEF PipeInv, WritingOrder, NoChunk
<1>10. Position'
  <2>1. CASE ptyIn = <<>>
    BY <1>6, <2>1 DEF PipeInv, Position, Pipe!NextByte
  <2>2. CASE ptyIn # <<>>
    <3>1. LET last == ptyIn[Len(ptyIn)]
          IN last[1] \in 1..Len(sent') /\ sent'[last[1]] = sent[last[1]]
      BY <1>2, <1>3, <2>2 DEF PipeInv, Position
    <3>2. Pipe!NextByte' = Pipe!NextByte
      BY <2>2, <3>1 DEF Pipe!NextByte
    <3>3. QED
      BY <1>6, <2>2, <3>1, <3>2 DEF PipeInv, Position
  <2>3. QED
    BY <2>1, <2>2
<1>11. QED
  BY <1>5, <1>8, <1>9, <1>10 DEF PipeInv

(* The channel's first message is received.                                *)
LEMMA PipeDrain == ASSUME TypeOK, PipeInv, Drain PROVE PipeInv'
<1>1. UNCHANGED <<sent, writing, ptyIn>>
  BY DEF Drain
<1>2. CASE chan = <<>>
  <2>1. UNCHANGED <<chan, writeList>>
    BY <1>2 DEF Drain
  <2>2. QED
    BY <1>1, <2>1, PipeKept
<1>3. CASE chan # <<>>
  <2> DEFINE m == chan[1]
  <2>1. /\ chan' = Tail(chan)
        /\ writeList' = IF m.kind = "input" THEN Append(writeList, m.n)
                                            ELSE writeList
    BY <1>3 DEF Drain
  <2>2. chan \in Seq(Message) /\ writeList \in Seq(Nat) /\ Len(sent) \in Nat
    BY DEF TypeOK
  <2>3. m \in Message
    BY <1>3, <2>2
  <2>4. m.n \in Nat /\ One(m) \in {0, 1}
    BY <2>3 DEF Message, One
  <2>5. /\ Len(chan') = Len(chan) - 1 /\ Len(chan) \in Nat \ {0}
        /\ \A i \in 1..Len(chan') : chan'[i] = chan[i + 1]
        /\ chan' = <<>> => Len(chan) = 1
        /\ chan' # <<>> => Len(chan) > 1
    <3>1. /\ Len(chan') = Len(chan) - 1 /\ Len(chan) \in Nat \ {0}
          /\ \A i \in 1..Len(chan') : chan'[i] = chan[i + 1]
      BY <1>3, <2>1, <2>2
    <3>2. Tail(chan) \in Seq(Message)
      BY <1>3, <2>2
    <3>3. /\ chan' = <<>> => Len(chan') = 0
          /\ chan' # <<>> => Len(chan') \in Nat \ {0}
      BY <2>1, <3>2, EmptySeq, Zenon
    <3>4. QED
      BY <3>1, <3>3
  <2>6. ChanOrder'
    <3>1. ASSUME NEW i \in 1..(Len(chan') - 1)
          PROVE  chan'[i + 1].n = chan'[i].n + One(chan'[i + 1])
      <4>1. /\ i + 1 \in 1..(Len(chan) - 1) /\ chan'[i] = chan[i + 1]
            /\ chan'[i + 1] = chan[(i + 1) + 1]
        BY <2>5
      <4>2. QED
        BY <4>1 DEF PipeInv, ChanOrder
    <3>2. chan' # <<>> => chan'[Len(chan')] = chan[Len(chan)]
      BY <2>5
    <3>3. \A i \in 1..Len(chan') : chan'[i].n <= Len(sent')
      BY <1>1, <2>5 DEF PipeInv, ChanOrder
    <3>4. QED
      BY <1>1, <1>3, <3>1, <3>2, <3>3 DEF PipeInv, ChanOrder, One
  <2>7. Taken = m.n - One(m)
    BY <1>3 DEF Taken
  <2>8. Taken' = m.n
    <3>1. CASE chan' = <<>>
      BY <1>1, <1>3, <2>5, <3>1 DEF PipeInv, ChanOrder, Taken
    <3>2. CASE chan' # <<>>
      <4>1. 1 \in 1..(Len(chan) - 1) /\ chan'[1] = chan[1 + 1]
        BY <2>5, <3>2
      <4>2. chan[1 + 1].n = chan[1].n + One(chan[1 + 1])
        BY <4>1 DEF PipeInv, ChanOrder
      <4>3. Taken' = chan[1 + 1].n - One(chan[1 + 1])
        BY <3>2, <4>1 DEF Taken, One
      <4>4. One(chan[1 + 1]) \in {0, 1}
        BY DEF One
      <4>5. QED
        BY <2>4, <4>2, <4>3, <4>4
    <3>3. QED
      BY <3>1, <3>2
  <2>9. Taken' <= Len(sent')
    BY <1>1, <2>5, <2>8 DEF PipeInv, ChanOrder
  <2> HIDE DEF m
  <2>10. Len(writeList') = Len(writeList) + One(m)
    BY <2>1, <2>2, <2>4 DEF One
  <2>11. First' = First
    BY <1>1, <2>2, <2>4, <2>7, <2>8, <2>10 DEF First, NoChunk
  <2>12. ListOrder'
    <3>1. \A i \in 1..Len(writeList') :
            writeList'[i] = Taken' - Len(writeList') + i
      BY <2>1, <2>2, <2>4, <2>7, <2>8, <2>10 DEF PipeInv, ListOrder, One
    <3>2. QED
      BY <2>9, <2>11, <3>1 DEF PipeInv, ListOrder
  <2>13. WritingOrder' /\ Position'
    BY <1>1, <2>11 DEF PipeInv, WritingOrder, Position, Pipe!NextByte, NoChunk
  <2>14. QED
    BY <2>6, <2>12, <2>13 DEF PipeInv
<1>4. QED
  BY <1>2, <1>3

(* goto_next: the input after the one being written, if there is one.      *)
LEMMA PipeGotoNext ==
  ASSUME TypeOK, PipeInv, GotoNext, UNCHANGED <<chan, sent>>
  PROVE  /\ ListOrder' /\ WritingOrder' /\ ChanOrder' /\ writing'.written = 0
         /\ First' = First + (IF writing = NoChunk THEN 0 ELSE 1)
<1>1. /\ writeList \in Seq(Nat) /\ Len(writeList) \in Nat
      /\ Len(sent) \in Nat /\ sent \in Seq(1..MaxLen) /\ MaxLen \in Nat
  BY ConstantsAssumption DEF TypeOK
<1>2. Taken \in Int /\ First \in Int /\ Taken' = Taken
  BY TakenType DEF Taken, One
<1>3. ChanOrder'
  BY DEF PipeInv, ChanOrder, One
<1>4. 1 <= First /\ Taken <= Len(sent)
  BY DEF PipeInv, ListOrder
<1>5. CASE writeList = <<>>
  <2>1. writing' = NoChunk /\ writeList' = <<>> /\ Len(writeList) = 0
    BY <1>5 DEF GotoNext
  <2>2. First' = First + (IF writing = NoChunk THEN 0 ELSE 1)
    BY <1>2, <1>5, <2>1 DEF First
  <2>3. QED
    BY <1>2, <1>3, <1>4, <2>1, <2>2
       DEF ListOrder, WritingOrder, NoChunk
<1>6. CASE writeList # <<>>
  <2>1. /\ writing' = [id |-> Head(writeList), written |-> 0]
        /\ writeList' = Tail(writeList)
    BY <1>6 DEF GotoNext
  <2>2. /\ Len(writeList') = Len(writeList) - 1 /\ Len(writeList) \in Nat \ {0}
        /\ \A i \in 1..Len(writeList') : writeList'[i] = writeList[i + 1]
        /\ Head(writeList) = writeList[1]
    BY <1>1, <1>6, <2>1
  <2>3. Head(writeList) = Taken - Len(writeList) + 1
    BY <1>2, <2>2 DEF PipeInv, ListOrder
  <2>4. Head(writeList) = First + (IF writing = NoChunk THEN 0 ELSE 1)
    BY <1>1, <1>2, <2>3 DEF First
  <2>5. writing' # NoChunk
    BY <1>2, <1>4, <2>1, <2>4 DEF NoChunk
  <2>6. First' = Head(writeList)
    BY <1>1, <1>2, <2>2, <2>3, <2>5 DEF First
  <2>7. \A i \in 1..Len(writeList') :
          writeList'[i] = Taken' - Len(writeList') + i
    <3>1. ASSUME NEW i \in 1..Len(writeList')
          PROVE  writeList'[i] = Taken' - Len(writeList') + i
      <4>1. i + 1 \in 1..Len(writeList) /\ writeList'[i] = writeList[i + 1]
        BY <2>2
      <4>2. writeList[i + 1] = Taken - Len(writeList) + (i + 1)
        BY <4>1 DEF PipeInv, ListOrder
      <4>3. QED
        BY <1>1, <1>2, <2>2, <4>1, <4>2
    <3>2. QED
      BY <3>1
  <2>8. ListOrder'
    BY <1>2, <1>4, <2>4, <2>6, <2>7 DEF ListOrder
  <2>9. WritingOrder'
    <3>1. First' <= Len(sent) => sent[First'] \in 1..MaxLen
      BY <1>1, <1>2, <1>4, <2>4, <2>6
    <3>2. writing'.id = First' /\ writing'.written = 0
      BY <2>1, <2>6
    <3>3. QED
      BY <1>1, <3>1, <3>2 DEF WritingOrder
  <2>10. QED
    BY <1>3, <2>1, <2>4, <2>6, <2>8, <2>9
<1>7. QED
  BY <1>5, <1>6

LEMMA PipeStartWrite ==
  ASSUME TypeOK, PipeInv, StartWrite, UNCHANGED <<chan, sent, ptyIn>>
  PROVE  PipeInv'
<1>1. CASE writing = NoChunk
  <2>1. GotoNext
    BY <1>1 DEF StartWrite
  <2>2. First' = First /\ writing'.written = writing.written
    BY <1>1, <2>1, PipeGotoNext, TakenType DEF NoChunk
  <2>3. Position'
    BY <2>2 DEF PipeInv, Position, Pipe!NextByte
  <2>4. QED
    BY <2>1, <2>3, PipeGotoNext DEF PipeInv
<1>2. CASE writing # NoChunk
  <2>1. UNCHANGED <<writing, writeList>>
    BY <1>2 DEF StartWrite, writeVars
  <2>2. QED
    BY <2>1, PipeKept
<1>3. QED
  BY <1>1, <1>2

(* A write call: the bytes it appends are the next of the pipe.            *)
LEMMA PipeWriteSome ==
  ASSUME TypeOK, PipeInv, WriteSome, writing # NoChunk, UNCHANGED <<chan, sent>>
  PROVE  PipeInv' /\ Pipe!Deliver
<1>1. PICK n \in 1..MaxLen :
        /\ Accepts(n)
        /\ ptyIn' = ptyIn \o [k \in 1..n |-> <<writing.id, writing.written + k>>]
        /\ IF writing.written + n = sent[writing.id]
           THEN GotoNext
           ELSE Advance(n)
  BY DEF WriteSome
<1>2. /\ writing \in [id : Nat, written : Nat] /\ sent \in Seq(1..MaxLen)
      /\ ptyIn \in Seq(Nat \X Nat) /\ MaxLen \in Nat /\ Len(sent) \in Nat
      /\ Len(writeList) \in Nat
  BY ConstantsAssumption DEF TypeOK
<1>3. Taken \in Int /\ First \in Int /\ 1 <= First /\ First <= Len(sent)
  BY <1>2, TakenType DEF PipeInv, ListOrder, First
<1>4. writing.id = First /\ sent[First] \in 1..MaxLen
  BY <1>2, <1>3 DEF PipeInv, WritingOrder
<1>5. writing.written \in Nat /\ writing.written + n <= sent[First]
  BY <1>1, <1>2, <1>4 DEF Accepts
<1> DEFINE piece == [k \in 1..n |-> <<First, writing.written + k>>]
<1>6. ptyIn' = ptyIn \o piece
  BY <1>1, <1>4
<1>7. piece \in Seq(Nat \X Nat) /\ Len(piece) = n
      /\ piece[n] = <<First, writing.written + n>>
  BY <1>2, <1>3, <1>5
<1> HIDE DEF piece
<1>8. /\ ptyIn' # <<>> /\ ptyIn'[Len(ptyIn')] = <<First, writing.written + n>>
  BY <1>2, <1>6, <1>7
<1>9. Pipe!Deliver
  <2>1. Pipe!NextByte = <<First, writing.written + 1>>
    BY DEF PipeInv, Position
  <2>2. Pipe!NextByte[1] = First /\ Pipe!NextByte[2] = writing.written + 1
    BY <2>1
  <2>3. \A k \in 1..n : (writing.written + 1) + k - 1 = writing.written + k
    BY <1>2, <1>5
  <2>4. piece = [k \in 1..n |-> <<First, (writing.written + 1) + k - 1>>]
    BY <2>3 DEF piece
  <2>5. (writing.written + 1) + n - 1 <= sent[First]
    BY <1>2, <1>4, <1>5
  <2>6. ptyIn' = ptyIn \o [k \in 1..n |->
                             <<Pipe!NextByte[1], Pipe!NextByte[2] + k - 1>>]
    BY <1>6, <2>2, <2>4
  <2>7. UNCHANGED <<sent, pc = "done">>
    BY DEF WriteSome
  <2>8. Pipe!NextByte[1] \in 1..Len(sent)
    BY <1>2, <1>3, <2>2
  <2>9. Pipe!NextByte[2] + n - 1 <= sent[Pipe!NextByte[1]]
    BY <2>2, <2>5
  <2> HIDE DEF Pipe!NextByte
  <2>10. QED
    BY <2>6, <2>7, <2>8, <2>9 DEF Pipe!Deliver
<1>10. CASE writing.written + n = sent[First]
  <2>1. GotoNext
    BY <1>1, <1>4, <1>10
  <2>2. First' = First + 1 /\ writing'.written = 0
    BY <2>1, PipeGotoNext
  <2>3. Pipe!NextByte' = <<First + 1, 1>>
    BY <1>4, <1>5, <1>8, <1>10 DEF Pipe!NextByte
  <2>4. Position'
    BY <1>3, <1>8, <2>2, <2>3 DEF Position
  <2>5. QED
    BY <1>9, <2>1, <2>4, PipeGotoNext DEF PipeInv
<1>11. CASE writing.written + n # sent[First]
  <2>1. Advance(n)
    BY <1>1, <1>4, <1>11
  <2>2. /\ writing' = [writing EXCEPT !.written = writing.written + n]
        /\ UNCHANGED writeList
    BY <2>1 DEF Advance
  <2>3. writing'.id = First /\ writing'.written = writing.written + n
    BY <1>2, <1>4, <2>2
  <2>4. writing' # NoChunk
    BY <1>3, <2>3 DEF NoChunk
  <2>5. Taken' = Taken /\ First' = First
    BY <2>2, <2>4 DEF Taken, First, One
  <2>6. writing.written + n < sent[First]
    BY <1>4, <1>5, <1>11
  <2>7. ChanOrder' /\ ListOrder' /\ WritingOrder'
    BY <2>2, <2>3, <2>5, <2>6
       DEF PipeInv, ChanOrder, ListOrder, WritingOrder, One
  <2>8. Pipe!NextByte' = <<First, writing.written + n + 1>>
    BY <1>8, <2>6 DEF Pipe!NextByte
  <2>9. Position'
    BY <1>3, <1>8, <2>3, <2>5, <2>8 DEF Position
  <2>10. QED
    BY <1>9, <2>7, <2>9 DEF PipeInv
<1>12. QED
  BY <1>10, <1>11

(* Every other step of the loop keeps the inputs where they are.           *)
LEMMA PipeOthers ==
  ASSUME Register \/ Poll \/ HandleEvents \/ Read \/ TakeLock \/ Parse \/ Bumped
           \/ RequestLock \/ SyncTimeout \/ ChildExit \/ WindDown \/ LastExit
  PROVE  UNCHANGED <<chan, sent, writeList, writing, ptyIn>>
BY DEF Register, Poll, HandleEvents, Read, TakeLock, Parse, Bumped, RequestLock,
       SyncTimeout, ChildExit, WindDown, LastExit, chanVars, writeVars, ptyVars

(* The last exit ends the thread, and nothing else does.                   *)
LEMMA OnlyLastExitEnds ==
  ASSUME LoopStep
  PROVE  pc # "done" /\ (pc' # "done" \/ LastExit)
<1>1. CASE Register \/ Poll \/ TakeLock \/ Bumped \/ RequestLock \/ SyncTimeout
             \/ ChildExit \/ WindDown \/ LastExit
  BY <1>1 DEF Register, Poll, TakeLock, Bumped, RequestLock, SyncTimeout,
              ChildExit, WindDown, LastExit, Locking
<1>2. CASE HandleEvents
  <2>1. pc' \in {"drain", "events", "childExit", "work"}
    BY <1>2 DEF HandleEvents, HandleChannelEvent, HandleChildEvent,
                HandlePtyEvent, AfterSigchld
  <2>2. QED
    BY <1>2, <2>1 DEF HandleEvents
<1>3. CASE Drain
  BY <1>3 DEF Drain, AfterMessage
<1>4. CASE Work
  <2>1. pc \in {"work", "readDone"} /\ pc' \in {"read", "write", "poll", "work"}
    BY <1>4, Zenon DEF Work, StartRead, StartWrite, NothingToDo
  <2>2. QED
    BY <2>1
<1>5. CASE Read
  <2>1. pc' \in {"lock", "readDone", "windDown"}
    BY <1>5, Zenon DEF Read, ReadGot, ReadWouldBlock, ReadEof,
                       ReadInterrupted, ReadError, FinishRead
  <2>2. QED
    BY <1>5, <2>1 DEF Read
<1>6. CASE Parse
  BY <1>6 DEF Parse, AfterBatch, FinishRead
<1>7. CASE Write
  <2>1. pc' \in {pc, "work", "windDown"}
    BY <1>7, Zenon
       DEF Write, WriteSome, WriteWouldBlock, WriteInterrupted, WriteError
  <2>2. QED
    BY <1>7, <2>1 DEF Write
<1>8. QED
  BY <1>1, <1>2, <1>3, <1>4, <1>5, <1>6, <1>7 DEF LoopStep

(* One step of the loop's thread: it keeps the invariant, and is a step of *)
(* the pipe or changes nothing the pipe has.                               *)
LEMMA PipeLoopStep ==
  ASSUME TypeOK, PipeInv, LoopStep
  PROVE  PipeInv' /\ [Pipe!Next]_(Pipe!pipeVars)
<1>1. CASE UNCHANGED <<sent, ptyIn>> /\ PipeInv'
  <2>1. CASE LastExit
    <3>1. pc' = "done"
      BY <2>1 DEF LastExit
    <3>2. Pipe!Close
      BY <1>1, <3>1 DEF Pipe!Close
    <3>3. QED
      BY <1>1, <3>2 DEF Pipe!Next
  <2>2. CASE ~LastExit
    BY <1>1, <2>2, OnlyLastExitEnds DEF Pipe!pipeVars
  <2>3. QED
    BY <2>1, <2>2
<1>2. CASE Register \/ Poll \/ HandleEvents \/ Read \/ TakeLock \/ Parse
             \/ Bumped \/ RequestLock \/ SyncTimeout \/ ChildExit \/ WindDown
             \/ LastExit
  BY <1>1, <1>2, PipeOthers, PipeKept
<1>3. CASE Drain
  <2>1. UNCHANGED <<sent, ptyIn>>
    BY <1>3 DEF Drain
  <2>2. QED
    BY <1>1, <1>3, <2>1, PipeDrain
<1>4. CASE Work
  <2>1. UNCHANGED <<chan, sent, ptyIn>>
    BY <1>4 DEF Work, chanVars, ptyVars
  <2>2. StartWrite \/ UNCHANGED <<writing, writeList>>
    BY <1>4 DEF Work, StartRead, NothingToDo, writeVars
  <2>3. PipeInv'
    BY <2>1, <2>2, PipeStartWrite, PipeKept
  <2>4. QED
    BY <1>1, <2>1, <2>3
<1>5. CASE Write
  <2>1. UNCHANGED <<chan, sent>>
    BY <1>5 DEF Write, chanVars
  <2>2. \/ writing # NoChunk /\ WriteSome
        \/ UNCHANGED <<writing, writeList, ptyIn>>
    BY <1>5 DEF Write, WriteWouldBlock, WriteInterrupted, WriteError, writeVars
  <2>3. CASE writing # NoChunk /\ WriteSome
    BY <2>1, <2>3, PipeWriteSome DEF Pipe!Next
  <2>4. CASE UNCHANGED <<writing, writeList, ptyIn>>
    BY <1>1, <2>1, <2>4, PipeKept
  <2>5. QED
    BY <2>2, <2>3, <2>4
<1>6. QED
  BY <1>2, <1>3, <1>4, <1>5 DEF LoopStep

LEMMA PipeStep ==
  TypeOK /\ PipeInv /\ [Next]_vars => PipeInv' /\ [Pipe!Next]_(Pipe!pipeVars)
<1>1. SUFFICES ASSUME TypeOK, PipeInv, [Next]_vars
               PROVE  PipeInv' /\ [Pipe!Next]_(Pipe!pipeVars)
  OBVIOUS
<1>2. CASE LoopStep
  BY <1>1, <1>2, PipeLoopStep
<1>3. CASE UiSend
  <2>1. UNCHANGED <<pc, writeList, writing, ptyIn>>
    BY <1>3 DEF UiSend, writeVars, ptyVars
  <2>2. CASE SendInput
    <3>1. Pipe!Send
      BY <2>1, <2>2 DEF SendInput, Send, Pipe!Send
    <3>2. QED
      BY <1>1, <2>1, <2>2, <3>1, PipeSendInput DEF Pipe!Next
  <2>3. CASE SendResize \/ SendShutdown
    <3>1. UNCHANGED sent
      BY <2>3 DEF SendResize, SendShutdown
    <3>2. \E kind \in Kinds \ {"input"}, arg \in Nat :
             Send("ui", kind, arg, Len(sent))
      BY <1>1, <2>3 DEF SendResize, SendShutdown, Kinds, TypeOK
    <3>3. PipeInv'
      BY <1>1, <2>1, <3>1, <3>2, PipeSend
    <3>4. QED
      BY <2>1, <3>1, <3>3 DEF Pipe!pipeVars
  <2>4. QED
    BY <1>3, <2>2, <2>3 DEF UiSend
<1>4. CASE ChildExitCallback
  <2>1. /\ UNCHANGED <<sent, pc, writeList, writing, ptyIn>>
        /\ Send("watcher", "childExited", 0, Len(sent))
    BY <1>4 DEF ChildExitCallback, writeVars
  <2>2. PipeInv'
    BY <1>1, <2>1, PipeSend DEF Kinds
  <2>3. QED
    BY <2>1, <2>2 DEF Pipe!pipeVars
<1>5. CASE (\E s \in Senders : Wake(s)) \/ UiLock \/ UiUnlock \/ ShellStep
             \/ OtherChildExit \/ UNCHANGED vars
  <2>1. UNCHANGED <<chan, sent, writeList, writing, ptyIn, pc>>
    BY <1>5 DEF Wake, UiLock, UiUnlock, ShellStep, ShellWrite, ShellRead,
                ShellExit, OtherChildExit, vars, chanVars, writeVars, ptyVars
  <2>2. QED
    BY <1>1, <2>1, PipeKept DEF Pipe!pipeVars
<1>6. QED
  BY <1>1, <1>2, <1>3, <1>4, <1>5 DEF Next

(***************************************************************************)
(* The loop implements the ordered pipe: the kernel gets the bytes of the  *)
(* inputs in the order they were sent, each once, across the channel, the  *)
(* write list, partial writes and interrupted calls (event_loop.rs:276).   *)
(***************************************************************************)
THEOREM ImplementsPipe == Spec => PipeSpec
<1>1. Init => Pipe!Init
  BY DEF Init, Pipe!Init
<1>2. QED
  BY <1>1, PipeInit, PipeStep, TypeCorrect, PTL DEF Spec, PipeSpec, Pipe!Spec


-----------------------------------------------------------------------------
(* No edge is missed.  Until the loop is on its way out, output to read    *)
(* and room to write are recorded: as a pending edge, in the event poll    *)
(* returned, or in can_read and can_write; and the loop only goes to sleep *)
(* when it has used up what these two say.                                 *)
Over == {"childExit", "windDown", "lastExit", "done"}
Asleep == {"register", "poll", "syncTimeout"}

Recorded ==
  /\ out # <<>> => canRead \/ ("pty" \in evs /\ ptyEvent.readable)
  /\ inFree > 0 => canWrite \/ ("pty" \in evs /\ ptyEvent.writable)
EventIsFresh ==
  "pty" \in evs => pc \in {"events", "drain"} /\ (ptyEvent.closed => hup)
EdgeInv ==
  /\ alive => ~hup
  /\ pc \in Asleep => ~canRead /\ (NeedsWrite => ~canWrite)
  /\ pc # "register" /\ pc \notin Over => (edge \/ hup \/ Recorded)
  /\ pc \notin Over => EventIsFresh

LEMMA EdgeInit == Init => EdgeInv
BY DEF Init, EdgeInv, EventIsFresh, NeedsWrite, Over

(* Steps that leave readiness alone, and those of the shell.               *)
LEMMA EdgeFrame ==
  ASSUME EdgeInv, UNCHANGED <<pc, evs, ptyEvent, canRead, canWrite, writeVars,
                              out, inFree, edge, hup, alive>>
  PROVE  EdgeInv'
BY DEF EdgeInv, Recorded, EventIsFresh, NeedsWrite, writeVars

LEMMA EdgeShell == Parts /\ EdgeInv /\ ShellStep => EdgeInv'
<1>1. SUFFICES ASSUME Parts, EdgeInv, ShellStep PROVE EdgeInv'
  OBVIOUS
<1>2. UNCHANGED <<pc, evs, ptyEvent, canRead, canWrite, writing, writeList>>
  BY <1>1 DEF ShellStep, writeVars
<1>3. NeedsWrite' = NeedsWrite
  BY <1>2 DEF NeedsWrite
<1>4. CASE ShellWrite \/ ShellRead
  <2>1. edge' /\ hup' = hup /\ alive' = alive
    BY <1>4 DEF ShellWrite, ShellRead
  <2>2. QED
    BY <1>1, <1>2, <1>3, <2>1 DEF EdgeInv, EventIsFresh
<1>5. CASE ShellExit
  <2>1. ~hup /\ ~alive' /\ edge' = (edge \/ hup') /\ UNCHANGED <<out, inFree>>
    BY <1>1, <1>5 DEF EdgeInv, ShellExit
  <2>2. edge \in BOOLEAN /\ hup \in BOOLEAN /\ hup' \in BOOLEAN
    BY <1>1, <1>5 DEF Parts, PtyType, ShellExit
  <2>3. edge' \/ hup' \/ (UNCHANGED <<edge, hup>>)
    <3>1. CASE hup'
      BY <3>1
    <3>2. CASE ~hup'
      BY <2>1, <2>2, <3>2
    <3>3. QED
      BY <3>1, <3>2
  <2>4. QED
    BY <1>1, <1>2, <1>3, <2>1, <2>3 DEF EdgeInv, EventIsFresh, Recorded
<1>6. QED
  BY <1>1, <1>4, <1>5 DEF ShellStep

(* The loop.                                                               *)
LEMMA EdgeRegister == EdgeInv /\ Register => EdgeInv'
BY DEF EdgeInv, EventIsFresh, NeedsWrite, Register, writeVars, Asleep, Over

LEMMA EdgePoll == Parts /\ EdgeInv /\ Poll => EdgeInv'
<1>1. SUFFICES ASSUME Parts, EdgeInv, Poll PROVE EdgeInv'
  OBVIOUS
<1>2. /\ pc = "poll" /\ UNCHANGED <<canRead, canWrite, writing, writeList, out, inFree,
                                    hup, alive>>
  BY <1>1 DEF Poll, writeVars
<1>3. /\ ~canRead /\ (NeedsWrite => ~canWrite) /\ "pty" \notin evs
      /\ edge \/ hup \/ Recorded
  BY <1>1, <1>2 DEF EdgeInv, EventIsFresh, Asleep, Over
<1>4. CASE ReadyEvents # {}
  <2>1. pc' = "events" /\ evs' = ReadyEvents
    BY <1>1, <1>4 DEF Poll
  <2>2. CASE "pty" \in ReadyEvents
    <3>1. ptyEvent' = [readable |-> out # <<>> \/ hup, writable |-> inFree > 0,
                       closed |-> hup]
      BY <1>1, <1>4, <2>2 DEF Poll
    <3>2. QED
      BY <1>1, <1>2, <2>1, <2>2, <3>1
         DEF EdgeInv, EventIsFresh, Recorded, Asleep
  <2>3. CASE "pty" \notin ReadyEvents
    <3>1. ~(edge /\ (out # <<>> \/ inFree > 0 \/ hup))
      BY <2>3 DEF ReadyEvents
    <3>2. hup \/ Recorded
      BY <1>3, <3>1 DEF Recorded
    <3>3. QED
      BY <1>1, <1>2, <1>3, <2>1, <2>3, <3>2
         DEF EdgeInv, EventIsFresh, Recorded, Asleep
  <2>4. QED
    BY <2>2, <2>3
<1>5. CASE ReadyEvents = {}
  <2>1. pc' = "syncTimeout" /\ UNCHANGED <<evs, ptyEvent, edge>>
    BY <1>1, <1>5 DEF Poll
  <2>2. QED
    BY <1>1, <1>2, <1>3, <2>1
       DEF EdgeInv, EventIsFresh, Recorded, Asleep, NeedsWrite
<1>6. QED
  BY <1>4, <1>5

LEMMA EdgeEvents == EdgeInv /\ HandleEvents => EdgeInv'
<1>1. SUFFICES ASSUME EdgeInv, HandleEvents PROVE EdgeInv'
  OBVIOUS
<1>2. pc = "events" /\ UNCHANGED <<ptyEvent, out, inFree, edge, hup, alive>>
  BY <1>1 DEF HandleEvents
<1>3. EventIsFresh /\ (edge \/ hup \/ Recorded) /\ (alive => ~hup)
  BY <1>1, <1>2 DEF EdgeInv, Over
<1>4. CASE HandleChannelEvent
  BY <1>2, <1>3, <1>4 DEF HandleChannelEvent, EdgeInv, EventIsFresh, Recorded, Asleep
<1>5. CASE HandleChildEvent
  <2>1. /\ pc' \in {"events", "childExit"} /\ evs' = evs \ {"child"}
        /\ UNCHANGED <<canRead, canWrite>>
    BY <1>2, <1>5 DEF HandleChildEvent, AfterSigchld
  <2>2. QED
    BY <1>2, <1>3, <2>1 DEF EdgeInv, EventIsFresh, Recorded, Asleep, Over
<1>6. CASE HandlePtyEvent
  <2>1. pc' = "events" /\ "pty" \in evs /\ "pty" \notin evs'
    BY <1>2, <1>6 DEF HandlePtyEvent
  <2>2. hup \/ /\ canRead' = (canRead \/ ptyEvent.readable)
               /\ canWrite' = (canWrite \/ ptyEvent.writable)
    BY <1>3, <1>6 DEF HandlePtyEvent, EventIsFresh
  <2>3. edge \/ hup \/ Recorded'
    BY <1>2, <1>3, <2>1, <2>2 DEF Recorded
  <2>4. QED
    BY <1>2, <1>3, <2>1, <2>3 DEF EdgeInv, EventIsFresh, Asleep
<1>7. CASE evs = {} /\ pc' = "work" /\ UNCHANGED <<evs, canRead, canWrite, sigchld>>
  BY <1>2, <1>3, <1>7 DEF EdgeInv, EventIsFresh, Recorded, Asleep
<1>8. QED
  BY <1>1, <1>4, <1>5, <1>6, <1>7 DEF HandleEvents

LEMMA EdgeDrain == EdgeInv /\ Drain => EdgeInv'
<1>1. SUFFICES ASSUME EdgeInv, Drain PROVE EdgeInv'
  OBVIOUS
<1>2. /\ pc = "drain" /\ pc' \in {"events", "drain", "windDown", "childExit"}
      /\ UNCHANGED <<evs, ptyEvent, canRead, canWrite, out, inFree, edge, hup, alive>>
  BY <1>1 DEF Drain, AfterMessage
<1>3. QED
  BY <1>1, <1>2 DEF EdgeInv, EventIsFresh, Recorded, Asleep, Over

(* Inside the reading and writing of a turn there is no event left, and a  *)
(* flag is only cleared when there is nothing to read, or no room.         *)
Inner == {"work", "read", "lock", "parse", "bump", "readDone", "write"}
LEMMA EdgeInner ==
  ASSUME EdgeInv, pc \in Inner, pc' \in Inner \cup Over, evs' = evs, alive' = alive,
         UNCHANGED <<ptyEvent, edge, hup>>,
         \/ hup
         \/ /\ out' # <<>> => canRead' \/ (out # <<>> /\ canRead' = canRead)
            /\ inFree' > 0 => canWrite' \/ (inFree > 0 /\ canWrite' = canWrite)
  PROVE  EdgeInv'
<1>1. (edge \/ hup \/ Recorded) /\ EventIsFresh /\ (alive => ~hup)
  BY DEF EdgeInv, Inner, Over
<1>2. "pty" \notin evs
  BY <1>1 DEF EventIsFresh, Inner
<1>3. edge' \/ hup' \/ Recorded'
  BY <1>1, <1>2 DEF Recorded
<1>4. QED
  BY <1>1, <1>2, <1>3 DEF EdgeInv, EventIsFresh, Inner, Over, Asleep

LEMMA EdgeWork == EdgeInv /\ Work => EdgeInv'
<1>1. SUFFICES ASSUME EdgeInv, Work PROVE EdgeInv'
  OBVIOUS
<1>2. UNCHANGED <<evs, ptyEvent, canRead, canWrite, out, inFree, edge, hup, alive>>
  BY <1>1 DEF Work, ptyVars
<1>3. CASE StartRead \/ StartWrite \/ (NothingToDo /\ pc = "readDone")
  <2>1. pc \in Inner /\ pc' \in Inner
    BY <1>3, Zenon DEF StartRead, StartWrite, NothingToDo, Inner
  <2>2. QED
    BY <1>1, <1>2, <2>1, EdgeInner
<1>4. CASE NothingToDo /\ pc = "work"
  <2>1. /\ pc' = "poll" /\ ~canRead /\ (NeedsWrite => ~canWrite)
        /\ UNCHANGED <<writing, writeList>>
    BY <1>4 DEF NothingToDo, writeVars
  <2>2. (edge \/ hup \/ Recorded) /\ EventIsFresh /\ (alive => ~hup)
    BY <1>1, <1>4 DEF EdgeInv, Over
  <2>3. "pty" \notin evs
    BY <1>4, <2>2 DEF EventIsFresh
  <2>4. QED
    BY <1>2, <2>1, <2>2, <2>3 DEF EdgeInv, EventIsFresh, Recorded, NeedsWrite
<1>5. QED
  BY <1>1, <1>3, <1>4 DEF Work, NothingToDo

LEMMA EdgeRead == EdgeInv /\ Read => EdgeInv'
<1>1. SUFFICES ASSUME EdgeInv, Read PROVE EdgeInv'
  OBVIOUS
<1>2. pc = "read" /\ UNCHANGED <<evs, ptyEvent, canWrite, inFree, edge, hup, alive>>
  BY <1>1 DEF Read
<1>3. pc' \in {"lock", "readDone", "windDown"}
  BY <1>1, Zenon DEF Read, ReadGot, ReadWouldBlock, ReadEof, ReadInterrupted,
                     ReadError, FinishRead
<1>4. \/ hup
      \/ out' = <<>>
      \/ out # <<>> /\ canRead' = canRead
  <2>1. CASE ReadGot
    BY <2>1 DEF ReadGot
  <2>2. CASE ReadWouldBlock
    BY <2>2 DEF ReadWouldBlock
  <2>3. CASE ReadEof \/ ReadError
    BY <2>3 DEF ReadEof, ReadError
  <2>4. CASE ReadInterrupted
    BY <2>4 DEF ReadInterrupted
  <2>5. QED
    BY <1>1, <2>1, <2>2, <2>3, <2>4 DEF Read
<1>5. pc \in Inner /\ pc' \in Inner \cup Over
  BY <1>2, <1>3 DEF Inner, Over
<1>6. QED
  BY <1>1, <1>2, <1>4, <1>5, EdgeInner

LEMMA EdgeWrite == Parts /\ EdgeInv /\ Write => EdgeInv'
<1>1. SUFFICES ASSUME Parts, EdgeInv, Write PROVE EdgeInv'
  OBVIOUS
<1>2. pc = "write" /\ UNCHANGED <<evs, ptyEvent, canRead, out, edge, hup, alive>>
  BY <1>1 DEF Write
<1>3. pc' \in {"write", "work", "windDown"}
  BY <1>1, Zenon DEF Write, WriteSome, WriteWouldBlock, WriteInterrupted, WriteError
<1>4. inFree \in Nat
  BY <1>1, ConstantsAssumption DEF Parts, PtyType
<1>5. \/ ~(inFree' > 0)
      \/ inFree > 0 /\ canWrite' = canWrite
  <2>1. CASE WriteSome
    BY <2>1 DEF WriteSome
  <2>2. CASE WriteWouldBlock
    BY <2>2 DEF WriteWouldBlock
  <2>3. CASE UNCHANGED <<inFree, canWrite>>
    BY <1>4, <2>3
  <2>4. QED
    BY <1>1, <2>1, <2>2, <2>3 DEF Write, WriteInterrupted, WriteError
<1>6. pc \in Inner /\ pc' \in Inner \cup Over
  BY <1>2, <1>3 DEF Inner, Over
<1>7. QED
  BY <1>1, <1>2, <1>5, <1>6, EdgeInner

LEMMA EdgeOthers ==
  ASSUME Parts, EdgeInv,
         TakeLock \/ Parse \/ Bumped \/ RequestLock \/ SyncTimeout
           \/ ChildExit \/ WindDown \/ LastExit
  PROVE  EdgeInv'
<1>p. PtyType
  BY DEF Parts
<1>1. CASE TakeLock \/ Parse \/ Bumped
  <2>1. UNCHANGED <<evs, ptyEvent, canRead, canWrite, out, edge, hup, alive>>
    BY <1>1 DEF TakeLock, Parse, Bumped, ptyVars
  <2>2. pc \in Inner /\ pc' \in Inner
    BY <1>1 DEF TakeLock, Parse, Bumped, AfterBatch, FinishRead, Inner
  <2>3. inFree' > 0 => inFree > 0
    <3>1. CASE Parse
      BY <1>p, <3>1, ReplyType, ConstantsAssumption DEF PtyType
    <3>2. CASE TakeLock \/ Bumped
      BY <3>2 DEF TakeLock, Bumped, ptyVars
    <3>3. QED
      BY <1>1, <3>1, <3>2
  <2>4. QED
    BY <2>1, <2>2, <2>3, EdgeInner
<1>2. CASE RequestLock
  BY <1>2, EdgeFrame DEF RequestLock, ptyVars
<1>3. CASE SyncTimeout
  <2>1. /\ pc = "syncTimeout" /\ pc' = "poll"
        /\ UNCHANGED <<evs, ptyEvent, canRead, canWrite, writing, writeList, out,
                       edge, hup, alive>>
        /\ inFree' > 0 => inFree > 0
    BY <1>3, <1>p, ReplyType, ConstantsAssumption DEF SyncTimeout, writeVars, PtyType
  <2>2. /\ edge \/ hup \/ Recorded
        /\ EventIsFresh /\ (alive => ~hup) /\ "pty" \notin evs
        /\ ~canRead /\ (NeedsWrite => ~canWrite)
    BY <2>1 DEF EdgeInv, EventIsFresh, Asleep, Over
  <2>3. (Recorded => Recorded') /\ (NeedsWrite' = NeedsWrite) /\ (EventIsFresh' = EventIsFresh)
    BY <2>1 DEF EventIsFresh, Recorded, NeedsWrite
  <2>4. QED
    BY <2>1, <2>2, <2>3 DEF EdgeInv, Asleep, Over
<1>4. CASE ChildExit \/ WindDown \/ LastExit
  <2>1. pc' \in Over /\ hup' = hup
    BY <1>4 DEF ChildExit, WindDown, LastExit, ptyVars, Over
  <2>2. alive' => alive
    <3>1. CASE WindDown
      BY <3>1, Zenon DEF WindDown
    <3>2. CASE alive' = alive
      BY <3>2
    <3>3. QED
      BY <1>4, <3>1, <3>2 DEF ChildExit, LastExit, ptyVars
  <2>3. QED
    BY <2>1, <2>2 DEF EdgeInv, Over, Asleep
<1>5. QED
  BY <1>1, <1>2, <1>3, <1>4

LEMMA EdgeStep == Parts /\ EdgeInv /\ [Next]_vars => EdgeInv'
<1>1. SUFFICES ASSUME Parts, EdgeInv, [Next]_vars PROVE EdgeInv'
  OBVIOUS
<1>2. CASE LoopStep
  BY <1>1, <1>2, EdgeRegister, EdgePoll, EdgeEvents, EdgeDrain, EdgeWork, EdgeRead,
     EdgeWrite, EdgeOthers DEF LoopStep
<1>3. CASE ShellStep
  BY <1>1, <1>3, EdgeShell
<1>4. CASE \/ UiSend \/ ChildExitCallback \/ (\E s \in Senders : Wake(s))
           \/ UiLock \/ UiUnlock \/ OtherChildExit
  <2>1. UNCHANGED <<pc, evs, ptyEvent, canRead, canWrite, writeVars, out, inFree, edge,
                    hup, alive>>
    BY <1>4 DEF UiSend, ChildExitCallback, Wake, UiLock, UiUnlock, OtherChildExit, ptyVars
  <2>2. QED
    BY <1>1, <2>1, EdgeFrame
<1>5. CASE UNCHANGED vars
  BY <1>1, <1>5, EdgeFrame DEF vars, writeVars
<1>6. QED
  BY <1>1, <1>2, <1>3, <1>4, <1>5 DEF Next

(***************************************************************************)
(* The loop sleeps only when every readiness it has not used up comes as a *)
(* new edge: poll, the events and the inner loop of event_loop.rs never    *)
(* lose one, whatever the sizes of buffers and the order of their steps.   *)
(***************************************************************************)
THEOREM NoEdgeIsMissed == Spec => []NoMissedEdge
<1>1. ASSUME Parts, EdgeInv PROVE NoMissedEdge
  <2>1. SUFFICES ASSUME pc = "poll", ~edge, ~hup
                 PROVE  out = <<>> /\ (NeedsWrite => ~canWrite /\ inFree = 0)
    BY DEF NoMissedEdge
  <2>2. Recorded /\ "pty" \notin evs /\ ~canRead /\ (NeedsWrite => ~canWrite)
    BY <1>1, <2>1 DEF EdgeInv, EventIsFresh, Over, Asleep
  <2>3. inFree \in Nat
    BY <1>1, ConstantsAssumption DEF Parts, PtyType
  <2>4. QED
    BY <2>2, <2>3 DEF Recorded
<1>2. Init => EdgeInv
  BY EdgeInit
<1>3. TypeOK /\ EdgeInv /\ [Next]_vars => EdgeInv'
  BY EdgeStep, TypeIsParts
<1>4. QED
  BY <1>1, <1>2, <1>3, TypeIsParts, TypeCorrect, PTL DEF Spec

-----------------------------------------------------------------------------
(* A redraw is queued.  Outside pty_read nothing waits to be drawn; inside *)
(* it, if anything was applied to the model, then more was processed than  *)
(* the open update holds.                                                  *)
Reading == {"read", "lock", "parse", "bump"}
DrawInv ==
  /\ ~syncActive => syncLen = 0
  /\ dirty /\ pc \in Reading => RedrawDue
  /\ dirty => pc \in Reading \cup Ended

LEMMA DrawInit == Init => DrawInv
BY DEF Init, DrawInv

LEMMA DrawFrame ==
  ASSUME DrawInv, UNCHANGED <<syncActive, syncLen, processed, dirty>>,
         pc' = pc \/ ~dirty \/ (pc' \in Reading /\ pc \in Reading) \/ pc' \in Ended
  PROVE  DrawInv'
BY DEF DrawInv, RedrawDue, Reading, Ended

(* An item that is parsed: what is applied counts, and so does all that    *)
(* the update's buffer takes after it.                                     *)
LEMMA DrawItem ==
  ASSUME Parts, DrawInv, NEW item \in Items, pc = "parse", pc' = pc,
         ParseItem(item), processed' = processed + 1
  PROVE  DrawInv'
<1>1. processed \in Nat /\ syncLen \in Nat /\ syncActive \in BOOLEAN /\ dirty \in BOOLEAN
  BY DEF Parts, ReadType
<1>2. CASE ~syncActive
  <2>1. syncLen' = syncLen /\ syncLen = 0
    BY <1>2 DEF ParseItem, DrawInv
  <2>2. QED
    BY <1>1, <2>1 DEF DrawInv, RedrawDue, Reading
<1>3. CASE syncActive
  <2>1. CASE item = "bsu"
    <3>1. UNCHANGED <<syncActive, syncLen, dirty>>
      BY <1>3, <2>1 DEF ParseItem
    <3>2. QED
      BY <1>1, <1>3, <3>1 DEF DrawInv, RedrawDue, Reading
  <2>2. CASE \/ item = "esu"
             \/ item \notin {"bsu", "esu"} /\ syncLen + 1 >= SyncMax
    <3>1. FlushSync
      BY <1>3, <2>2 DEF ParseItem, OnFull
    <3>2. QED
      BY <3>1 DEF DrawInv, FlushSync
  <2>3. CASE item \notin {"bsu", "esu"} /\ ~(syncLen + 1 >= SyncMax)
    <3>1. syncLen' = syncLen + 1 /\ UNCHANGED <<syncActive, dirty>>
      BY <1>3, <2>3 DEF ParseItem
    <3>2. QED
      BY <1>1, <1>3, <3>1 DEF DrawInv, RedrawDue, Reading
  <2>4. QED
    BY <2>1, <2>2, <2>3
<1>4. QED
  BY <1>2, <1>3

LEMMA DrawFinish ==
  ASSUME DrawInv, pc \in Reading, FinishRead, UNCHANGED <<syncActive, syncLen>>
  PROVE  DrawInv'
<1>1. ~dirty'
  BY DEF DrawInv, FinishRead
<1>2. QED
  BY <1>1 DEF DrawInv

LEMMA DrawParse == Parts /\ DrawInv /\ Parse => DrawInv'
<1>1. SUFFICES ASSUME Parts, DrawInv, Parse PROVE DrawInv'
  OBVIOUS
<1>2. CASE rbuf # <<>>
  <2>1. Head(rbuf) \in Items
    BY <1>1, <1>2, HeadTailProperties DEF Parts, ReadType
  <2>2. QED
    BY <1>1, <1>2, <2>1, DrawItem DEF Parse
<1>3. CASE rbuf = <<>>
  <2>1. pc = "parse" /\ UNCHANGED <<processed, syncActive, syncLen>> /\ AfterBatch
    BY <1>1, <1>3 DEF Parse
  <2>2. CASE FinishRead
    BY <1>1, <2>1, <2>2, DrawFinish DEF Reading
  <2>3. CASE pc' = "bump" /\ UNCHANGED dirty
    BY <1>1, <2>1, <2>3, DrawFrame DEF Reading
  <2>4. QED
    BY <2>1, <2>2, <2>3 DEF AfterBatch
<1>4. QED
  BY <1>2, <1>3

LEMMA DrawRead == DrawInv /\ Read => DrawInv'
<1>1. SUFFICES ASSUME DrawInv, Read PROVE DrawInv'
  OBVIOUS
<1>2. pc = "read" /\ UNCHANGED <<processed, syncActive, syncLen>>
  BY <1>1 DEF Read
<1>3. \/ FinishRead
      \/ pc' = "lock" /\ UNCHANGED dirty
      \/ pc' = "windDown" /\ UNCHANGED dirty
  BY <1>1, Zenon DEF Read, ReadGot, ReadWouldBlock, ReadEof, ReadInterrupted, ReadError
<1>4. QED
  BY <1>1, <1>2, <1>3, DrawFinish, DrawFrame DEF Reading, Ended

LEMMA DrawWork == Parts /\ DrawInv /\ Work => DrawInv'
<1>1. SUFFICES ASSUME Parts, DrawInv, Work PROVE DrawInv'
  OBVIOUS
<1>2. pc \in {"work", "readDone"} /\ UNCHANGED <<syncActive, syncLen, dirty>>
  BY <1>1, Zenon DEF Work, StartRead, StartWrite, NothingToDo, readVars
<1>3. ~dirty
  BY <1>1, <1>2 DEF DrawInv, Reading, Ended
<1>4. QED
  BY <1>1, <1>2, <1>3 DEF DrawInv

LEMMA DrawStep == Parts /\ DrawInv /\ [Next]_vars => DrawInv'
<1>1. SUFFICES ASSUME Parts, DrawInv, [Next]_vars PROVE DrawInv'
  OBVIOUS
<1>2. CASE Parse \/ Read \/ Work
  BY <1>1, <1>2, DrawParse, DrawRead, DrawWork
<1>3. CASE \/ UiSend \/ ChildExitCallback \/ (\E s \in Senders : Wake(s))
           \/ UiLock \/ UiUnlock \/ ShellStep \/ OtherChildExit \/ RequestLock
  <2>1. UNCHANGED <<pc, syncActive, syncLen, processed, dirty>>
    BY <1>3 DEF UiSend, ChildExitCallback, Wake, UiLock, UiUnlock, ShellStep,
                OtherChildExit, RequestLock, readVars
  <2>2. QED
    BY <1>1, <2>1, DrawFrame
<1>4. CASE Register \/ Poll \/ HandleEvents \/ Drain \/ Write
  <2>1. /\ pc \in {"register", "poll", "events", "drain", "write"}
        /\ UNCHANGED <<syncActive, syncLen, processed, dirty>>
    BY <1>4 DEF Register, Poll, HandleEvents, Drain, Write, readVars
  <2>2. ~dirty
    BY <1>1, <2>1 DEF DrawInv, Reading, Ended
  <2>3. QED
    BY <1>1, <2>1, <2>2, DrawFrame
<1>5. CASE TakeLock \/ Bumped
  <2>1. /\ pc \in Reading /\ pc' \in Reading
        /\ UNCHANGED <<syncActive, syncLen, processed, dirty>>
    BY <1>5 DEF TakeLock, Bumped, Reading, readVars
  <2>2. QED
    BY <1>1, <2>1, DrawFrame
<1>6. CASE SyncTimeout
  BY <1>6 DEF SyncTimeout, FlushSync, DrawInv
<1>7. CASE ChildExit
  BY <1>1, <1>7 DEF ChildExit, DrawInv
<1>8. CASE WindDown \/ LastExit
  <2>1. pc' \in Ended /\ UNCHANGED <<syncActive, syncLen, processed, dirty>>
    BY <1>8 DEF WindDown, LastExit, Ended, readVars
  <2>2. QED
    BY <1>1, <2>1, DrawFrame
<1>9. CASE UNCHANGED vars
  BY <1>1, <1>9, DrawFrame DEF vars
<1>10. QED
  BY <1>1, <1>2, <1>3, <1>4, <1>5, <1>6, <1>7, <1>8, <1>9 DEF Next, LoopStep

(***************************************************************************)
(* When the loop sleeps, nothing it applied to the terminal model is still *)
(* to be drawn: the comparison of bytes_processed with the buffer of the   *)
(* synchronized update never skips a redraw that is due (pty_read).        *)
(***************************************************************************)
THEOREM RedrawIsQueued == Spec => []RedrawQueued
<1>1. DrawInv => RedrawQueued
  BY DEF DrawInv, RedrawQueued, Reading, Ended
<1>2. TypeOK /\ DrawInv /\ [Next]_vars => DrawInv'
  BY DrawStep, TypeIsParts
<1>3. QED
  BY <1>1, <1>2, DrawInit, TypeCorrect, PTL DEF Spec

=============================================================================
