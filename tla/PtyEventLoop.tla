---------------------------- MODULE PtyEventLoop ----------------------------
(***************************************************************************)
(* The thread that owns a pane's pseudoterminal                            *)
(* (app/src/terminal/local_tty/event_loop.rs), together with the mio       *)
(* channel that feeds it (mio_channel.rs), the synchronized-output part of *)
(* the ANSI processor it drives (model/ansi/mod.rs), the terminal lock it  *)
(* shares with the main thread, and the way a pane is torn down            *)
(* (TerminalManager::drop, TerminalModel::exit).                           *)
(*                                                                         *)
(* The pseudoterminal itself, the shell behind it and epoll's edge         *)
(* triggered readiness are external.  Bytes are abstracted: an input is a  *)
(* length, its bytes are <<input number, offset>>; output is a sequence of *)
(* items, a synchronized-update begin, end, a query that the parser        *)
(* answers, or anything else.                                              *)
(***************************************************************************)
EXTENDS Integers, Sequences

CONSTANTS
  Windows,       \* TRUE on the Windows build, where child exit is a message
  HangupIsEof,   \* a read after the hang-up returns 0 (macOS), not EIO (Linux)
  MaxInputs,     \* how many inputs the main thread sends
  MaxLen,        \* the longest input, in bytes
  MaxResizes,    \* how many times the pane is resized
  MaxOutput,     \* how many items the shell writes, floods not counted
  Flood,         \* TRUE if the shell may write plain output without end
  MaxInterrupts, \* signals that interrupt a call or are of another child
  OutCap,        \* kernel buffer from the shell, in items
  InCap,         \* kernel buffer to the shell, in bytes
  ReadBuffer,    \* READ_BUFFER_SIZE, in items
  MaxLockedRead, \* MAX_LOCKED_READ, in items
  SyncMax        \* SYNC_OUTPUT_MAX_BUFFER_SIZE, in items

ASSUME ConstantsAssumption ==
  /\ Windows \in BOOLEAN /\ HangupIsEof \in BOOLEAN /\ Flood \in BOOLEAN
  /\ MaxInputs \in Nat /\ MaxResizes \in Nat /\ MaxOutput \in Nat
  /\ MaxInterrupts \in Nat
  /\ MaxLen \in Nat \ {0} /\ OutCap \in Nat \ {0} /\ InCap \in Nat \ {0}
  /\ ReadBuffer \in Nat \ {0} /\ MaxLockedRead \in Nat \ {0}
  /\ SyncMax \in Nat \ {0}

VARIABLES
  chan,          \* the mpsc queue of Messages
  waker,         \* State.waker is Some: the receiver is registered
  needsWake,     \* State.needs_wake_on_register
  waking,        \* the senders between tx.send and the wake that follows it
  wakeEvent,     \* a readiness event for CHANNEL_TOKEN is pending in epoll
  sent,          \* lengths of the inputs sent so far (history)
  lastSize,      \* size of the last Resize sent (history)
  ui,            \* the main thread: running, or joining the loop's thread
  lockq,         \* holder and waiters of the terminal's FairMutex, in order
  pc,            \* where the loop's thread is
  evs,           \* the events poll returned that are still to be handled
  ptyEvent,      \* readiness carried by the pty event of this poll
  canRead,       \* can_read
  canWrite,      \* can_write
  writeList,     \* State.write_list: numbers of the queued inputs
  writing,       \* State.writing: input number and bytes written, or NoChunk
  rbuf,          \* read from the pty and not yet parsed
  processed,     \* bytes_processed of this pty_read
  syncActive,    \* SyncOutputState::Active
  syncLen,       \* length of its buffer
  dirty,         \* applied to the model since the last wakeup event
  exits,         \* Event::Exit reasons sent to the view (history)
  childExited,   \* child_exited
  killed,        \* pty.kill was called
  out,           \* output of the shell that the kernel holds
  inFree,        \* free room in the kernel's buffer towards the shell
  ptyIn,         \* every byte of an input the kernel accepted, in order (history)
  edge,          \* an edge of the pty's readiness is pending in epoll
  sigchld,       \* a SIGCHLD is pending (Windows: the exit callback is due)
  alive,         \* the shell process is alive
  hup,           \* no process holds the slave side any more
  ptySize,       \* the size last given to the kernel
  nOut,          \* items written by the shell, floods not counted
  nIntr          \* signals counted against MaxInterrupts so far

chanVars == <<chan, waker, needsWake, waking, wakeEvent, sent, lastSize>>
writeVars == <<writeList, writing>>
readVars == <<rbuf, processed, syncActive, syncLen, dirty>>
exitVars == <<exits, childExited, killed>>
ptyVars == <<out, inFree, ptyIn, edge, sigchld, alive, hup, ptySize, nOut>>
vars == <<chan, waker, needsWake, waking, wakeEvent, sent, lastSize, ui, lockq,
          pc, evs, ptyEvent, canRead, canWrite, writeList, writing, rbuf,
          processed, syncActive, syncLen, dirty, exits, childExited, killed,
          out, inFree, ptyIn, edge, sigchld, alive, hup, ptySize, nOut, nIntr>>

NoChunk == [id |-> 0, written |-> 0]
NoEvent == [readable |-> FALSE, writable |-> FALSE, closed |-> FALSE]
Items == {"plain", "query", "bsu", "esu"}
Senders == {"ui", "watcher"}
Reasons == {"ShellProcessExited", "PtyDisconnected"}

(***************************************************************************)
(* A message carries, besides its own argument, the number of inputs sent  *)
(* up to and including it; for an input that is its number.                *)
(***************************************************************************)
Kinds == {"input", "resize", "shutdown", "childExited"}
Message == [kind : Kinds, arg : Nat, n : Nat]

TypeOK ==
  /\ chan \in Seq(Message) /\ sent \in Seq(1..MaxLen)
  /\ waker \in BOOLEAN /\ needsWake \in BOOLEAN /\ wakeEvent \in BOOLEAN
  /\ waking \in SUBSET Senders /\ lastSize \in Nat
  /\ ui \in {"running", "joining"}
  /\ lockq \in Seq({"loop", "ui"})
  /\ pc \in {"register", "poll", "syncTimeout", "events", "drain", "work",
             "read", "lock", "parse", "bump", "readDone", "write",
             "childExit", "windDown", "lastExit", "done"}
  /\ evs \in SUBSET {"channel", "child", "pty"}
  /\ ptyEvent \in [readable : BOOLEAN, writable : BOOLEAN, closed : BOOLEAN]
  /\ canRead \in BOOLEAN /\ canWrite \in BOOLEAN
  /\ writeList \in Seq(Nat) /\ writing \in [id : Nat, written : Nat]
  /\ rbuf \in Seq(Items) /\ processed \in Nat
  /\ syncActive \in BOOLEAN /\ syncLen \in Nat /\ dirty \in BOOLEAN
  /\ exits \in Seq(Reasons) /\ childExited \in BOOLEAN /\ killed \in BOOLEAN
  /\ out \in Seq(Items) /\ inFree \in 0..InCap /\ ptyIn \in Seq(Nat \X Nat)
  /\ edge \in BOOLEAN /\ sigchld \in BOOLEAN /\ alive \in BOOLEAN
  /\ hup \in BOOLEAN /\ ptySize \in Nat /\ nOut \in Nat /\ nIntr \in Nat

Init ==
  /\ chan = <<>> /\ sent = <<>>
  /\ waker = FALSE /\ needsWake = FALSE /\ wakeEvent = FALSE
  /\ waking = {} /\ lastSize = 0 /\ ui = "running" /\ lockq = <<>>
  /\ pc = "register" /\ evs = {} /\ ptyEvent = NoEvent
  /\ canRead = FALSE /\ canWrite = FALSE
  /\ writeList = <<>> /\ writing = NoChunk
  /\ rbuf = <<>> /\ processed = 0 /\ syncActive = FALSE /\ syncLen = 0
  /\ dirty = FALSE /\ exits = <<>> /\ childExited = FALSE /\ killed = FALSE
  /\ out = <<>> /\ inFree = InCap /\ ptyIn = <<>>
  /\ edge = FALSE /\ sigchld = FALSE /\ alive = TRUE /\ hup = FALSE
  /\ ptySize = 0 /\ nOut = 0 /\ nIntr = 0

-----------------------------------------------------------------------------
(* Senders.  tx.send and the wake are two steps; a send fails once the     *)
(* loop's thread has dropped the receiver.                                 *)

Send(s, kind, arg, n) ==
  /\ s \notin waking
  /\ pc # "done"
  /\ chan' = Append(chan, [kind |-> kind, arg |-> arg, n |-> n])
  /\ waking' = waking \union {s}
  /\ UNCHANGED <<waker, needsWake, wakeEvent>>

SendInput ==
  /\ ui = "running" /\ Len(sent) < MaxInputs
  /\ \E len \in 1..MaxLen :
       /\ Send("ui", "input", len, Len(sent) + 1)
       /\ sent' = Append(sent, len)
  /\ UNCHANGED <<lastSize, ui>>

SendResize ==
  /\ ui = "running" /\ lastSize < MaxResizes
  /\ Send("ui", "resize", lastSize + 1, Len(sent))
  /\ lastSize' = lastSize + 1
  /\ UNCHANGED <<sent, ui>>

\* TerminalManager::shutdown_event_loop; the terminal's lock is not held.
\* If the send fails the thread is gone and the join returns.
SendShutdown ==
  /\ ui = "running" /\ lockq \in Seq({"loop"})
  /\ Send("ui", "shutdown", 0, Len(sent))
  /\ ui' = "joining"
  /\ UNCHANGED <<sent, lastSize>>

UiSend ==
  /\ SendInput \/ SendResize \/ SendShutdown
  /\ UNCHANGED <<lockq, pc, evs, ptyEvent, canRead, canWrite, writeVars,
                 readVars, exitVars, ptyVars, nIntr>>

\* child_exit_callback, on Windows
ChildExitCallback ==
  /\ Windows /\ sigchld
  /\ Send("watcher", "childExited", 0, Len(sent))
  /\ sigchld' = FALSE
  /\ UNCHANGED <<sent, lastSize, ui, lockq, pc, evs, ptyEvent, canRead,
                 canWrite, writeVars, readVars, exitVars, out, inFree, ptyIn,
                 edge, alive, hup, ptySize, nOut, nIntr>>

\* Mutant: a send before the registration leaves no trace.
BugWakeReceiver == wakeEvent' = (wakeEvent \/ waker) /\ UNCHANGED needsWake

WakeReceiver ==
  /\ wakeEvent' = (wakeEvent \/ waker)
  /\ needsWake' = (needsWake \/ ~waker)

Wake(s) ==
  /\ s \in waking
  /\ waking' = waking \ {s}
  /\ WakeReceiver
  /\ UNCHANGED <<chan, waker, sent, lastSize, ui, lockq, pc, evs, ptyEvent,
                 canRead, canWrite, writeVars, readVars, exitVars, ptyVars,
                 nIntr>>

(* The main thread locks the terminal to draw; the mutex is fair.          *)
UiLock ==
  /\ ui = "running"
  /\ lockq \in Seq({"loop"})
  /\ lockq' = Append(lockq, "ui")
  /\ UNCHANGED <<chanVars, ui, pc, evs, ptyEvent, canRead, canWrite, writeVars,
                 readVars, exitVars, ptyVars, nIntr>>

UiUnlock ==
  /\ lockq # <<>> /\ Head(lockq) = "ui"
  /\ lockq' = Tail(lockq)
  /\ UNCHANGED <<chanVars, ui, pc, evs, ptyEvent, canRead, canWrite, writeVars,
                 readVars, exitVars, ptyVars, nIntr>>

-----------------------------------------------------------------------------
(* The shell and the kernel.                                               *)

ShellWrite ==
  /\ alive /\ Len(out) < OutCap
  /\ \E item \in Items :
       /\ out' = Append(out, item)
       /\ \/ /\ nOut < MaxOutput
             /\ nOut' = nOut + 1
          \/ /\ Flood /\ item = "plain"
             /\ UNCHANGED nOut
  /\ edge' = TRUE
  /\ UNCHANGED <<inFree, sigchld, alive, hup>>

ShellRead ==
  /\ alive /\ inFree < InCap
  /\ inFree' = InCap
  /\ edge' = TRUE
  /\ UNCHANGED <<out, sigchld, alive, hup, nOut>>

\* Whether the slave side hangs up depends on background children.
ShellExit ==
  /\ alive
  /\ alive' = FALSE /\ sigchld' = TRUE
  /\ hup' \in BOOLEAN
  /\ edge' = (edge \/ hup')
  /\ UNCHANGED <<out, inFree, nOut>>

ShellStep ==
  /\ ShellWrite \/ ShellRead \/ ShellExit
  /\ UNCHANGED <<chanVars, ui, lockq, pc, evs, ptyEvent, canRead, canWrite,
                 writeVars, readVars, exitVars, ptyIn, ptySize, nIntr>>

\* SIGCHLD is per process: the shell of another pane raises it here too.
OtherChildExit ==
  /\ ~Windows /\ nIntr < MaxInterrupts
  /\ nIntr' = nIntr + 1
  /\ sigchld' = TRUE
  /\ UNCHANGED <<chanVars, ui, lockq, pc, evs, ptyEvent, canRead, canWrite,
                 writeVars, readVars, exitVars, out, inFree, ptyIn, edge, alive,
                 hup, ptySize, nOut>>

-----------------------------------------------------------------------------
(* The loop.                                                               *)

Register ==
  /\ pc = "register"
  /\ pc' = "poll"
  /\ waker' = TRUE
  /\ wakeEvent' = needsWake
  /\ needsWake' = FALSE
  /\ edge' = TRUE
  /\ UNCHANGED <<chan, waking, sent, lastSize, ui, lockq, evs, ptyEvent,
                 canRead, canWrite, writeVars, readVars, exitVars, out, inFree,
                 ptyIn, sigchld, alive, hup, ptySize, nOut, nIntr>>

ReadyEvents ==
  {e \in {"channel", "child", "pty"} :
     \/ e = "channel" /\ wakeEvent
     \/ e = "child" /\ sigchld /\ ~Windows
     \/ e = "pty" /\ edge /\ (out # <<>> \/ inFree > 0 \/ hup)}

\* poll: it returns the pending events, or none when the timeout of a
\* synchronized update has run out.
Poll ==
  /\ pc = "poll"
  /\ \/ /\ ReadyEvents # {}
        /\ pc' = "events"
        /\ evs' = ReadyEvents
        /\ ptyEvent' = IF "pty" \in ReadyEvents
                       THEN [readable |-> out # <<>> \/ hup,
                             writable |-> inFree > 0, closed |-> hup]
                       ELSE NoEvent
        /\ wakeEvent' = FALSE /\ edge' = FALSE
     \/ /\ ReadyEvents = {} /\ syncActive
        /\ pc' = "syncTimeout"
        /\ UNCHANGED <<evs, ptyEvent, wakeEvent, edge>>
  /\ UNCHANGED <<chan, waker, needsWake, waking, sent, lastSize, ui, lockq,
                 canRead, canWrite, writeVars, readVars, exitVars, out, inFree,
                 ptyIn, sigchld, alive, hup, ptySize, nOut, nIntr>>

HandleChannelEvent ==
  /\ "channel" \in evs
  /\ evs' = evs \ {"channel"}
  /\ pc' = "drain"
  /\ UNCHANGED <<canRead, canWrite, sigchld>>

\* Mutant: any SIGCHLD is taken for the exit of this shell.
BugAfterSigchld == "childExit"

\* Mutant: the event is dropped once the signal has been taken.
BugSigchldLost == pc

\* The wait for one's own child is taken not to fail: an error of it would be
\* logged, and the exit not seen.
AfterSigchld == IF alive THEN pc ELSE "childExit"

\* next_child_event takes the pending SIGCHLD and asks whether the shell has
\* terminated; if it has, `break 'event_loop` drops the other events.
HandleChildEvent ==
  /\ "child" \in evs
  /\ evs' = evs \ {"child"}
  /\ sigchld' = FALSE
  /\ pc' = AfterSigchld
  /\ UNCHANGED <<canRead, canWrite>>

HandlePtyEvent ==
  /\ "pty" \in evs
  /\ evs' = evs \ {"pty"}
  /\ IF ptyEvent.closed /\ ~Windows
     THEN UNCHANGED <<canRead, canWrite>>
     ELSE /\ canRead' = (canRead \/ ptyEvent.readable)
          /\ canWrite' = (canWrite \/ ptyEvent.writable)
  /\ UNCHANGED <<pc, sigchld>>

HandleEvents ==
  /\ pc = "events"
  /\ \/ HandleChannelEvent
     \/ HandleChildEvent
     \/ HandlePtyEvent
     \/ evs = {} /\ pc' = "work" /\ UNCHANGED <<evs, canRead, canWrite, sigchld>>
  /\ UNCHANGED <<chanVars, ui, lockq, ptyEvent, writeVars, readVars, exitVars,
                 out, inFree, ptyIn, edge, alive, hup, ptySize, nOut, nIntr>>

\* Mutant: a terminating message only ends the draining.
BugAfterMessage(m) == IF m.kind \in {"input", "resize"} THEN "drain" ELSE "events"

AfterMessage(m) ==
  CASE m.kind = "shutdown" -> "windDown"
    [] m.kind = "childExited" -> "childExit"
    [] OTHER -> "drain"

\* One turn of drain_recv_channel's loop.
Drain ==
  /\ pc = "drain"
  /\ IF chan = <<>>
     THEN /\ pc' = "events"
          /\ UNCHANGED <<chan, writeList, ptySize>>
     ELSE LET m == Head(chan) IN
          /\ chan' = Tail(chan)
          /\ writeList' = IF m.kind = "input" THEN Append(writeList, m.n)
                                              ELSE writeList
          /\ ptySize' = IF m.kind = "resize" THEN m.arg ELSE ptySize
          /\ pc' = AfterMessage(m)
  /\ UNCHANGED <<waker, needsWake, waking, wakeEvent, sent, lastSize, ui, lockq,
                 evs, ptyEvent, canRead, canWrite, writing, readVars, exitVars,
                 out, inFree, ptyIn, edge, sigchld, alive, hup, nOut, nIntr>>

NeedsWrite == writing # NoChunk \/ writeList # <<>>

\* goto_next
GotoNext ==
  IF writeList = <<>>
  THEN writing' = NoChunk /\ UNCHANGED writeList
  ELSE /\ writing' = [id |-> Head(writeList), written |-> 0]
       /\ writeList' = Tail(writeList)

\* The inner `while can_read || (needs_write && can_write)`.
StartRead ==
  /\ pc = "work" /\ canRead
  /\ pc' = "read" /\ rbuf' = <<>> /\ processed' = 0
  /\ UNCHANGED <<writeVars, syncActive, syncLen, dirty>>

\* pty_write starts with ensure_next
StartWrite ==
  /\ pc \in {"work", "readDone"}
  /\ pc = "work" => ~canRead
  /\ NeedsWrite /\ canWrite
  /\ pc' = "write"
  /\ IF writing = NoChunk THEN GotoNext ELSE UNCHANGED writeVars
  /\ UNCHANGED readVars

NothingToDo ==
  /\ pc \in {"work", "readDone"}
  /\ pc = "work" => ~canRead
  /\ ~(NeedsWrite /\ canWrite)
  /\ pc' = IF pc = "work" THEN "poll" ELSE "work"
  /\ UNCHANGED <<writeVars, readVars>>

Work ==
  /\ StartRead \/ StartWrite \/ NothingToDo
  /\ UNCHANGED <<chanVars, ui, lockq, evs, ptyEvent, canRead, canWrite,
                 exitVars, ptyVars, nIntr>>

-----------------------------------------------------------------------------
(* pty_read                                                                *)

Holding == lockq # <<>> /\ Head(lockq) = "loop"

\* Mutant: no redraw while an update is open, whatever came before it.
BugRedrawDue == processed > 0 /\ ~syncActive

RedrawDue == processed > (IF syncActive THEN syncLen ELSE 0)

\* Mutant: the guard outlives pty_read.
BugDropGuard == UNCHANGED lockq

DropGuard == lockq' = IF Holding THEN Tail(lockq) ELSE lockq

\* What pty_read does when it leaves its loop: drop the lock, and ask for a
\* redraw unless everything it processed went into the update's buffer.
FinishRead ==
  /\ DropGuard
  /\ dirty' = (dirty /\ ~RedrawDue)
  /\ pc' = "readDone"

ReadGot ==
  /\ out # <<>>
  /\ \E k \in 1..Len(out) :
       /\ k <= ReadBuffer - Len(rbuf)
       /\ rbuf' = rbuf \o SubSeq(out, 1, k)
       /\ out' = SubSeq(out, k + 1, Len(out))
  /\ pc' = "lock"
  /\ UNCHANGED <<canRead, lockq, dirty, nIntr>>

ReadWouldBlock ==
  /\ out = <<>> /\ ~hup
  /\ canRead' = FALSE
  /\ IF rbuf = <<>> THEN FinishRead
                    ELSE pc' = "lock" /\ UNCHANGED <<lockq, dirty>>
  /\ UNCHANGED <<rbuf, out, nIntr>>

ReadEof ==
  /\ out = <<>> /\ hup /\ HangupIsEof
  /\ IF rbuf = <<>> THEN canRead' = FALSE /\ FinishRead
                    ELSE pc' = "lock" /\ UNCHANGED <<canRead, lockq, dirty>>
  /\ UNCHANGED <<rbuf, out, nIntr>>

ReadInterrupted ==
  /\ nIntr < MaxInterrupts
  /\ nIntr' = nIntr + 1
  /\ IF rbuf = <<>> THEN FinishRead
                    ELSE pc' = "lock" /\ UNCHANGED <<lockq, dirty>>
  /\ UNCHANGED <<rbuf, out, canRead>>

\* EIO after the slave side hung up.  A comment in the loop announces that it is
\* ignored; but its ErrorKind is not Other, so the error reaches
\* `break 'event_loop`, and what was read and not parsed is lost.
ReadError ==
  /\ out = <<>> /\ hup /\ ~HangupIsEof
  /\ rbuf' = <<>>
  /\ DropGuard
  /\ pc' = "windDown"
  /\ UNCHANGED <<out, canRead, dirty, nIntr>>

Read ==
  /\ pc = "read"
  /\ ReadGot \/ ReadWouldBlock \/ ReadEof \/ ReadInterrupted \/ ReadError
  /\ UNCHANGED <<chanVars, ui, evs, ptyEvent, canWrite, writeVars, processed,
                 syncActive, syncLen, exitVars, inFree, ptyIn, edge, sigchld,
                 alive, hup, ptySize, nOut>>

\* A failed try_lock reads again: more output, the would-block, or the error.
\* When the next read would change nothing the loop spins, which is a stutter.
RetryReads == out # <<>> \/ (canRead /\ ~hup) \/ (hup /\ ~HangupIsEof)

\* try_lock; lock() once the buffer is full
TakeLock ==
  /\ pc = "lock"
  /\ \/ /\ Holding \/ lockq = <<>>
        /\ lockq' = IF Holding THEN lockq ELSE <<"loop">>
        /\ pc' = "parse"
     \/ /\ lockq # <<>> /\ ~Holding
        /\ IF Len(rbuf) < ReadBuffer
           THEN RetryReads /\ pc' = "read" /\ UNCHANGED lockq
           ELSE /\ "loop" \notin {lockq[i] : i \in 1..Len(lockq)}
                /\ lockq' = Append(lockq, "loop")
                /\ UNCHANGED pc
  /\ UNCHANGED <<chanVars, ui, evs, ptyEvent, canRead, canWrite, writeVars,
                 readVars, exitVars, ptyVars, nIntr>>

\* A reply to the shell is written while parsing, past write_list; errors are
\* ignored, so what the kernel has no room for is lost.
Reply == inFree' \in IF hup THEN {inFree} ELSE 0..inFree

\* finish_sync_output applies the buffer and answers the queries in it;
\* unset_mode(SyncOutput) then sends a wakeup.
FlushSync ==
  /\ IF syncLen > 0 THEN Reply ELSE UNCHANGED inFree
  /\ syncActive' = FALSE
  /\ syncLen' = 0
  /\ dirty' = FALSE

\* Mutant: a full buffer is emptied, and the update goes on.
BugOnFull == syncLen' = 0 /\ UNCHANGED <<syncActive, dirty, inFree>>

OnFull == FlushSync

ParseItem(item) ==
  IF ~syncActive
  THEN /\ syncActive' = (item = "bsu")
       /\ dirty' = (dirty \/ item = "plain")
       /\ IF item = "query" THEN Reply ELSE UNCHANGED inFree
       /\ UNCHANGED syncLen
  ELSE CASE item = "bsu" -> UNCHANGED <<syncActive, syncLen, dirty, inFree>>
         [] item = "esu" -> FlushSync
         [] OTHER -> IF syncLen + 1 >= SyncMax
                     THEN OnFull
                     ELSE /\ syncLen' = syncLen + 1
                          /\ UNCHANGED <<syncActive, dirty, inFree>>

\* Past MAX_LOCKED_READ leave pty_read, else hand the lock to a waiter.
AfterBatch ==
  IF processed >= MaxLockedRead
  THEN FinishRead
  ELSE /\ pc' = "bump"
       /\ lockq' = IF Len(lockq) > 1 THEN Append(Tail(lockq), "loop") ELSE lockq
       /\ UNCHANGED dirty

\* parse_bytes, one item at a time, under the lock
Parse ==
  /\ pc = "parse"
  /\ IF rbuf # <<>>
     THEN /\ ParseItem(Head(rbuf))
          /\ rbuf' = Tail(rbuf)
          /\ processed' = processed + 1
          /\ UNCHANGED <<pc, lockq>>
     ELSE /\ AfterBatch
          /\ UNCHANGED <<rbuf, processed, syncActive, syncLen, inFree>>
  /\ UNCHANGED <<chanVars, ui, evs, ptyEvent, canRead, canWrite, writeVars,
                 exitVars, out, ptyIn, edge, sigchld, alive, hup, ptySize, nOut,
                 nIntr>>

\* FairMutexGuard::bump has handed the lock to a waiter, if any
Bumped ==
  /\ pc = "bump" /\ Holding
  /\ pc' = "read"
  /\ UNCHANGED <<chanVars, ui, lockq, evs, ptyEvent, canRead, canWrite,
                 writeVars, readVars, exitVars, ptyVars, nIntr>>

-----------------------------------------------------------------------------
(* pty_write: one write system call.                                       *)

\* Mutant: the kernel is credited with the whole of a partial write.
BugAccepts(n) == writing.written + n = sent[writing.id]

\* How much the kernel may accept of the current input.
Accepts(n) == n <= inFree /\ writing.written + n <= sent[writing.id]

\* Mutant: a partial write is not remembered.
BugAdvance(n) == UNCHANGED writeVars

Advance(n) ==
  /\ writing' = [writing EXCEPT !.written = @ + n]
  /\ UNCHANGED writeList

WriteSome ==
  /\ inFree > 0 /\ ~hup
  /\ \E n \in 1..MaxLen :
       /\ Accepts(n)
       /\ inFree' = inFree - n
       /\ ptyIn' = ptyIn \o [k \in 1..n |-> <<writing.id, writing.written + k>>]
       /\ IF writing.written + n = sent[writing.id]
          THEN GotoNext
          ELSE Advance(n)
  /\ UNCHANGED <<pc, canWrite, nIntr>>

WriteWouldBlock ==
  /\ inFree = 0 /\ ~hup
  /\ canWrite' = FALSE
  /\ pc' = "work"
  /\ UNCHANGED <<writeVars, inFree, ptyIn, nIntr>>

\* Mutant: EINTR is taken for EWOULDBLOCK.
BugWriteInterrupted ==
  /\ nIntr < MaxInterrupts
  /\ nIntr' = nIntr + 1
  /\ canWrite' = FALSE
  /\ pc' = "work"
  /\ UNCHANGED <<writeVars, inFree, ptyIn>>

WriteInterrupted ==
  /\ nIntr < MaxInterrupts
  /\ nIntr' = nIntr + 1
  /\ pc' = "work"
  /\ UNCHANGED <<writeVars, inFree, ptyIn, canWrite>>

WriteError ==
  /\ hup
  /\ pc' = "windDown"
  /\ UNCHANGED <<writeVars, inFree, ptyIn, canWrite, nIntr>>

Write ==
  /\ pc = "write"
  /\ IF writing = NoChunk
     THEN pc' = "work" /\ UNCHANGED <<writeVars, inFree, ptyIn, canWrite, nIntr>>
     ELSE WriteSome \/ WriteWouldBlock \/ WriteInterrupted \/ WriteError
  /\ UNCHANGED <<chanVars, ui, lockq, evs, ptyEvent, canRead, readVars,
                 exitVars, out, edge, sigchld, alive, hup, ptySize, nOut>>

-----------------------------------------------------------------------------
(* Steps that lock the terminal and block until they get it.               *)

Locking == {"syncTimeout", "childExit", "lastExit"}

RequestLock ==
  /\ pc \in Locking
  /\ "loop" \notin {lockq[i] : i \in 1..Len(lockq)}
  /\ lockq' = Append(lockq, "loop")
  /\ UNCHANGED <<chanVars, ui, pc, evs, ptyEvent, canRead, canWrite, writeVars,
                 readVars, exitVars, ptyVars, nIntr>>

SyncTimeout ==
  /\ pc = "syncTimeout" /\ Holding
  /\ FlushSync
  /\ pc' = "poll" /\ lockq' = Tail(lockq)
  /\ UNCHANGED <<chanVars, ui, evs, ptyEvent, canRead, canWrite, writeVars,
                 rbuf, processed, exitVars, out, ptyIn, edge, sigchld, alive, hup,
                 ptySize, nOut, nIntr>>

\* TerminalModel::exit: the first call sends Event::Exit, the others return.
Exit(reason) == exits' = IF exits = <<>> THEN <<reason>> ELSE exits

\* Mutant: an exit that came through the channel is not remembered.
BugNoteChildExit == UNCHANGED childExited

NoteChildExit == childExited' = TRUE

ChildExit ==
  /\ pc = "childExit" /\ Holding
  /\ Exit("ShellProcessExited")
  /\ NoteChildExit
  /\ dirty' = FALSE
  /\ pc' = "windDown" /\ lockq' = Tail(lockq)
  /\ UNCHANGED <<chanVars, ui, evs, ptyEvent, canRead, canWrite, writeVars,
                 rbuf, processed, syncActive, syncLen, killed, ptyVars, nIntr>>

\* After the loop: pty.kill unless the child exited, then a last exit.
WindDown ==
  /\ pc = "windDown"
  /\ killed' = ~childExited
  /\ alive' = (alive /\ childExited)
  /\ pc' = "lastExit"
  /\ UNCHANGED <<chanVars, ui, lockq, evs, ptyEvent, canRead, canWrite,
                 writeVars, readVars, exits, childExited, out, inFree, ptyIn,
                 edge, sigchld, hup, ptySize, nOut, nIntr>>

LastExit ==
  /\ pc = "lastExit" /\ Holding
  /\ Exit("PtyDisconnected")
  /\ pc' = "done" /\ lockq' = Tail(lockq)
  /\ UNCHANGED <<chanVars, ui, evs, ptyEvent, canRead, canWrite, writeVars,
                 readVars, childExited, killed, ptyVars, nIntr>>

LoopStep ==
  \/ Register \/ Poll \/ HandleEvents \/ Drain \/ Work
  \/ Read \/ TakeLock \/ Parse \/ Bumped \/ Write
  \/ RequestLock \/ SyncTimeout \/ ChildExit \/ WindDown \/ LastExit

Next ==
  \/ UiSend \/ ChildExitCallback
  \/ \E s \in Senders : Wake(s)
  \/ UiLock \/ UiUnlock
  \/ ShellStep \/ OtherChildExit
  \/ LoopStep

(***************************************************************************)
(* The loop's thread and a thread inside mio_channel::Sender::send run, and *)
(* the main thread gives the lock back; the wait callback of Windows runs. *)
(* Nothing is assumed of the shell or the user.  SF: a reader that spins   *)
(* on try_lock while the lock is free again and again gets it in the end.  *)
(***************************************************************************)
Fairness ==
  /\ WF_vars(LoopStep)
  /\ SF_vars(TakeLock /\ pc' = "parse")
  /\ WF_vars(UiUnlock)
  /\ WF_vars(ChildExitCallback)
  /\ \A s \in Senders : WF_vars(Wake(s))

Spec == Init /\ [][Next]_vars /\ Fairness

-----------------------------------------------------------------------------
(* Safety.                                                                 *)

(***************************************************************************)
(* No lost wakeup: a message in the channel is never left to a loop that   *)
(* sleeps in poll, or is not registered yet, with nothing on its way to    *)
(* wake it (the race of Sender::send with Receiver::register).             *)
(***************************************************************************)
NoLostWakeup ==
  chan # <<>> /\ waking = {} =>
    /\ pc = "poll" => wakeEvent
    /\ pc = "register" => needsWake

(***************************************************************************)
(* The loop only goes back to poll when every readiness it has not used up *)
(* will come as a new edge: with edge-triggered events, output to read or  *)
(* room to write that poll will not report is a pane that hangs.           *)
(***************************************************************************)
NoMissedEdge ==
  pc = "poll" /\ ~edge /\ ~hup =>
    /\ out = <<>>
    /\ NeedsWrite => ~canWrite /\ inFree = 0

(***************************************************************************)
(* When the loop sleeps, whatever it has applied to the terminal model has *)
(* had a wakeup queued after it: the comparison of bytes_processed with    *)
(* the update's buffer never skips a redraw that is due.                   *)
(***************************************************************************)
RedrawQueued == pc \in {"poll", "syncTimeout"} => ~dirty

(***************************************************************************)
(* The loop never ends and leaves the shell alive, and the reason the view *)
(* is told of agrees with who ended first.                                 *)
(***************************************************************************)
ShellNotOrphaned ==
  pc = "done" =>
    /\ ~alive
    /\ exits = <<IF childExited THEN "ShellProcessExited" ELSE "PtyDisconnected">>
    /\ killed = ~childExited

(***************************************************************************)
(* The loop implements the ordered pipe: the kernel is given the bytes of  *)
(* the inputs in the order they were sent, each once and none skipped,     *)
(* across partial writes, would-blocks and interrupted calls, and sends    *)
(* are refused only once the thread is gone.                               *)
(***************************************************************************)
Pipe == INSTANCE OrderedPipe WITH recvd <- ptyIn, closed <- pc = "done"

PipeSpec == Pipe!Spec

-----------------------------------------------------------------------------
(* Liveness.                                                               *)

\* The shell pauses often enough for a read to block, and reads its input.
ReadsBlock == []<>~canRead
ShellReads == []<>(inFree = InCap)

(***************************************************************************)
(* An input sent to a loop is written to the pty or the loop ends, if the  *)
(* shell reads and its output pauses now and then.                         *)
(***************************************************************************)
Written(i) == ptyIn # <<>> /\ ptyIn[Len(ptyIn)] \in {<<i, sent[i]>>} \union ((i + 1)..MaxInputs) \X (1..MaxLen)

InputReachesPty ==
  ReadsBlock /\ ShellReads =>
    \A i \in 1..MaxInputs :
      Len(sent) >= i ~> (Len(sent) >= i /\ Written(i)) \/ pc \in {"windDown", "lastExit", "done"}

(***************************************************************************)
(* TerminalManager::drop joins the loop's thread on the main thread: the   *)
(* thread ends, so closing a pane does not hang, if a read blocks now and  *)
(* then.  Without that the loop never gets back to poll (while can_read)   *)
(* and Shutdown is not received.                                           *)
(***************************************************************************)
JoinReturns == ReadsBlock => (ui = "joining" ~> pc = "done")

(***************************************************************************)
(* A synchronized update is drawn in the end, by its end sequence, by the  *)
(* timeout, or, when output never pauses and poll never gets to time out,  *)
(* by the size limit.                                                      *)
(***************************************************************************)
SyncUpdateEnds ==
  syncActive ~> ~syncActive \/ pc \in {"windDown", "lastExit", "done"}

(***************************************************************************)
(* The main thread gets the terminal's lock while output floods in.        *)
(***************************************************************************)
UiNotStarved ==
  (\E i \in 1..Len(lockq) : lockq[i] = "ui") ~> (lockq # <<>> /\ Head(lockq) = "ui")

(***************************************************************************)
(* The exit of the shell reaches the view.                                 *)
(***************************************************************************)
ShellExitReported == ~alive ~> exits # <<>>

=============================================================================
