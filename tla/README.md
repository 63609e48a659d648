# Warp: the terminal's core, its file buffers and language servers, specified

TLA+ modules for the parts of this repository where threads, handlers and
processes outside the program meet: the thread that owns a pane's
pseudoterminal, the queue of writes to the shell, the executor that runs commands
of background tasks in the user's own session, the buffers that editors share on
a file which other programs write too, and the language servers with their
requests and documents. `PROJECT.json` maps every definition to the lines it
models, and lists runs, mutants, findings, hazards and theorems.

## 1. The system

Warp is a terminal with an agent. One process draws all windows on a main
thread; everything in the UI framework (`crates/warpui_core`) is a handler that
runs to completion there. Around it are I/O threads, background tasks, child
processes (shells, language servers, MCP servers) and remote services.

| Part | State it keeps | Operations | Talks to |
|---|---|---|---|
| PTY event loop (`local_tty/event_loop.rs`, `mio_channel.rs`) | readiness flags, queue of inputs, bytes read, open synchronized update | poll, drain channel, read and parse under the terminal lock, write, wind down | main thread (channel, lock), shell (pty), kernel (epoll, SIGCHLD) |
| PTY controller (`writeable_pty/pty_controller.rs`) | `pending_writes`, `is_user_command_executing`, native completion in flight | queue, write, cancel, run completions | line editor status, executor, block list, event loop |
| Line editor status (`line_editor_status.rs`) | is the line editor active, activation timer | hooks (preexec, precmd, prompt end), timer | controller |
| In-band executor (`session/command_executor/in_band_command_executor.rs`) | running command, pending commands | submit, cancel from any thread, take an output or a refusal, clear | controller, tasks, parser |
| Block list (`model/blocks.rs`, `block.rs`, `early_output.rs`) | blocks, active and background block, counts | precmd, preexec, command finished, restore, early output | parser (under the lock), controller |
| Terminal model, bootstrap, subshells (`model/terminal_model.rs`) | stage of the session | hooks, exit | parser, view |
| tmux control mode (`model/tmux`) | commands awaiting replies | send, reply | controller |
| Terminal server (`local_tty/server`) | forked shells | spawn, kill | app process |
| Agent actions (`ai/blocklist/action_model*`) | pending, running, finished actions | queue, execute, cancel, finish | terminal, agent |
| Orchestration (`ai/blocklist/orchestration_events.rs`) | undelivered events of child agents | deliver, acknowledge | agent service |
| MCP servers (`ai/mcp/templatable_manager`) | servers and their states | spawn, restart, shut down | child processes |
| Language servers, JSON-RPC (`crates/lsp`, `crates/jsonrpc`) | state of the server, table of pending requests, table of open documents | start, stop, restart, remove, request, cancel, reply, notify of a change | child processes, file buffers |
| Shared file buffers (`code/global_buffer_model.rs`, `code/local_code_editor.rs`, `crates/warp_files`, `crates/editor/src/content`) | text, undo stack, the versions of the file, the model and each editor | load, edit, undo, save, reload, discard, rename | file system, its watcher, background diffs |
| Undo close (`undo_close/stack.rs`) | closed items with expiry | push, pop, expire | workspace |
| Crash recovery (`crash_recovery.rs`) | parent and child process | start, hand over, exit | OS |
| IPC (`crates/ipc`) | requests by id | send, answer | other processes |

The remaining parts (persistence, permissions, settings, text editor, indexes,
assets, voice input, ...) are in `PROJECT.json` with the reason they are left out.

What is hard in them, and the properties that follow:

* **Two threads, one lock, edge-triggered readiness.** A wakeup or an edge that
  is lost hangs a pane; a lock that is not given back freezes the window; a join
  on the main thread must return. (`NoLostWakeup`, `NoMissedEdge`,
  `UiNotStarved`, `JoinReturns`)
* **Partial system calls.** A part of an input is taken by the kernel, a call is
  interrupted, the other end closes. (`PipeSpec`, `InputReachesPty`)
* **Three ways for a pane to end** that can all be under way. (`ShellNotOrphaned`,
  `ShellExitReported`)
* **A guess about the shell.** Nobody tells the controller that the shell's line
  editor reads input; it is guessed from hooks that arrive late and a timer.
  Commands of three sources must not be typed into each other.
  (`OneCommandAtATime`, `QueuedIsWritten`, `SubmittedCommandRuns`)
* **Cancellation from any thread.** A background task that is dropped cancels its
  command while the main thread moves on to the next. (`RunnerIsOutstanding`,
  `NeverStalls`, `RepliesAreOwn`, `EveryCommandResolves`)
* **Accounts kept in several places.** What the executor waits for, what the
  controller has queued, what blocks are counted as in flight.
  (`NobodyWaitsForDropped`, `InFlightIsExact`)
* **A text in three places.** Buffer, file and the copy a background diff was made
  from change independently, and are compared by version numbers only, which
  undo, saves and reloads also set. Nothing typed may be overwritten, nothing shown
  as saved that is not, no offset of a diff applied to another text.
  (`DiffFitsBuffer`, `NoEditOverwritten`, `OnlyRenameLosesEdits`, `CleanIsStored`,
  `CleanIsCurrent`, `UpdatesAreAnswered`)
* **Callbacks of a server that is no longer wanted.** Starts, stops and restarts
  take seconds and are asked for by files, the user and timers; the server may
  not answer, or may die. (`OneServer`, `StopIsKept`, `ShutdownEnds`)
* **Requests and notifications as detached tasks.** A reply may be read before
  its sender waits for it; a change may be sent before the one it follows.
  (`AnswersArrive`, `DocumentInStep`)

## 2. The modules

    OrderedPipe <- PtyEventLoop                 (refinement, PipeSpec)

    PtyController <----+
                       +---- TerminalInput      (composition; each of the two is
    InBandExecutor <---+                         refined by the composition)

    FileBuffer            LanguageServer        (each on its own)

    PtyEventLoopProofs, FileBufferProofs, LanguageServerProofs      (theorems)

    PtyControllerProofs <- PtyCompletionProofs <-+
                                                 +-- TerminalInputProofs  (theorems)
    InBandExecutorProofs <-----------------------+

    SequenceFacts         (lemmas about queues, for the two on the right)

    MCFileBuffer, MCLanguageServer              (bounds of the runs)

### PtyEventLoop

A pane's I/O thread (`pc` is the program point; one action per step that another
thread can come between), the mio channel, the fair mutex around the terminal
model (`lockq`: holder and waiters), the synchronized-output state of the ANSI
processor, and the main thread as far as it sends, locks and joins. The kernel,
epoll and the shell are external: two bounded buffers, an edge flag, a pending
SIGCHLD. An input is a length, its bytes are pairs; output is a sequence of
"begin update", "end update", a query that the parser answers, and anything else.
The answer of a query (`Reply`) is written while parsing, past the queue of writes,
as far as the kernel has room, and may come between two parts of an input.
`Register`, `Poll`,
`HandleEvents`, `Drain`, `Work`, `Read`, `TakeLock`, `Parse`, `Bumped`, `Write`,
`SyncTimeout`, `ChildExit`, `WindDown` and `LastExit` are, in order, the code of
`event_loop.rs:330-490`; `Send`/`Wake` are the two halves of
`mio_channel::Sender::send`.

`OrderedPipe` is what the main thread is promised about input: every byte comes
out once, in order. The refinement maps `recvd` to the bytes accepted by the
kernel and `closed` to the end of the thread.

### InBandExecutor

A step is one critical section of `running_command`, or one send, so that
`cancel_command` is four steps (tell the controller; look at the running command;
take it; look through the pending ones and start the next) that interleave with
the handlers of the main thread. The controller and the shell are external here:
a command sent is refused, or kept and some time answered, unless it is
cancelled or thrown away by a command of the user.

### PtyController

The queue and its handlers (`pty_controller.rs`), the line editor's status and
timer (`line_editor_status.rs`), the part of the active block that says whose
command runs in it, and the shell as an external component that reads what was
written in order and prints hooks. `events`, `fromExecutor`, `toShell` and `due`
(timers that expired, whose callbacks have not run) delay everything that is
delayed in the program. The executor is reduced to the one command it waits for.
A *typed-ahead* command is text that a program left in the tty and the shell runs
by itself; programs may also read what was written for the shell (`ProgramReads`).
With typed-ahead input there is no telling what the shell does, so the claims
about who may write are conditional on `NothingTyped`; the last of them,
`QueuedIsWritten`, is not.

### TerminalInput

The executor on top of the controller and the shell. `waiting`, `cancelled` and
`downstream`, by which each module describes the other, become expressions of
the other's real state, and the run shows that the composition implements both
`PtyController` (`ControllerSpec`) and `InBandExecutor` (`ExecutorSpec`), so that
what is shown of each on its own holds of the whole. `EveryCommandResolves` is
checked again here, now with fairness of the real handlers and the shell instead
of an environment that answers. Agent commands are left out of it: with them
`ExecutorSpec` does not hold, which is finding `ctl_forgotten`.

### FileBuffer

One file, its buffer, and the editors on it. `buffer` is the text with its content
version and its undo stack (`Pushed`, `Merged`, `Undo` are the code of
`undo.rs`, with the bottom item that remains when the oldest is dropped);
`VersionMatch` is what every decision of the code rests on. The versions of
`FileModel` (`fileVersion`), `GlobalBufferModel` (`base`) and the editors
(`viewBase`) are three variables because handlers set them at different times. A
handler of the main thread with the events it emits is one step: a save takes
the editor's base at once (`Save`), writes later (`SaveWrites`) and has its
callback later still (`SaveDone`, which takes the base back after a failure); a
reload is announced (`Watch`), read (`ReloadRead`), and answered (`ReloadDone`,
with the three branches of `handle_file_model_events` in `FileUpdated`); with
`IncrementalAutoReload`, which is a flag of both values, the answer computes a
diff in the background (`DiffComputed`), which `ApplyDiff` applies if the version
still matches, and which a newer reload aborts unless it is too late for that
(`WithoutPending`). A diff that is applied to another text than it was made from
gives `Garbled`. Texts are numbers; other programs write new ones
(`OutsideWrite`), and these are reported or not: `watch` is what reports them, the
subscription to the repository or a watch of the path, which start some time after
they were asked for (`WatchStarts`, for a path not before the file is loaded) or,
for a file that the repository ignores, never. A rename goes on with a repository
that is watched already, which reports the rename itself, or starts over
(`WatchMoves`). History variables say what was ever stored (`onDisk`), what the user
gave up (`waived`), what was taken for saved and what was there at a rename
(`adopted`, `renamed`), whether a change went unreported (`missed`) or an update
unanswered (`owed`), and whether two tasks on the file were under way at once
(`crossed`).

Simplified: a write of the file is atomic; two saves of the same text and version
under way at once are one; a rename is modelled for a single editor; nothing is
typed into a buffer before it is loaded.

### LanguageServer

A server's model (`state`, `byHand`, `removed`: `model.rs`), for every launch `g` of
its process the tasks of `start()` and `shutdown()`, the process, the table of
pending requests and the tasks that send them (`crates/jsonrpc/src/service.rs`),
and one document. Launches overlap: the callbacks of an old one run while a new
one starts, which is what `OneServer` is about. The two writes of `send_request`
(the table, then the pipe) are two steps; the process answers, dies, or leaves a
child behind that holds its stderr (`ChildEnds`), on which the code waits. A
change of the document is a detached task of two steps, the table of open
documents (`RunDoc`) and the pipe (`WriteDoc`); `reordered` records when one
overtakes another. The process applies a change to the text it knows, or gets
`Garbled`.

## 3. The runs

| Run | Instance | Shows | States, time |
|---|---|---|---|
| `pty_safe` | Windows build, 2 inputs of up to 2 bytes, kernel buffer of 1, a resize, an interrupted call | `TypeOK`, `NoLostWakeup`, `ShellNotOrphaned`, `PipeSpec` | 1.2M, 35 s |
| `pty_live` | Linux build, 1 input, flooding shell, synchronized updates, a query, an interrupt or a foreign SIGCHLD | `NoMissedEdge`, `RedrawQueued`, `ShellNotOrphaned` and five liveness properties | 305k, 2 min |
| `inband` | 2 tasks, 1 command of the user | `RepliesAreOwn`, `NeverStalls`, `RunnerIsOutstanding`, `ExecuteFollowsCancel`, `EveryCommandResolves` | 32k, 5 s |
| `inband_takes` | the same | finding | - |
| `ctl` | zsh; 2 commands, 1 in-band command, 1 completion request, 1 typed ahead | the controller's safety and liveness | 350k, 3 min |
| `ctl_own_block`, `ctl_forgotten`, `ctl_two_requests` | an agent's command, or two completion requests | findings | - |
| `buffer` | 2 editors; 2 edits and one each of undo, outside write, save, discard, rename, join, at most 4 in all; undo stack of 1; 2 reads of a kind under way | `DiffFitsBuffer`, `CleanIsStored`, `CleanIsCurrent`, `OnlyRenameLosesEdits`, `UpdatesAreAnswered` | 1.1M, 2 min |
| `buffer_rename` | 1 editor, 1 edit, 1 rename | finding, against `NoEditOverwritten` | - |
| `server` | 2 launches, 1 request; at most 4 of: starts, stops, restarts, removal, request and its cancellation, load and edits | `OneServer`, `StopIsKept`, `DocumentInStep`, `AnswersArrive`, `ShutdownEnds` | 127k, 1 min |
| `input` | other shells than zsh; 2 in-band commands, one abortable, 1 command of the user | both refinements, `EveryCommandResolves` | 115k, 2 min |

Why the bounds are enough for the cases that matter: two inputs of two bytes
through a buffer of one give every split of a write, a queue behind a half-written
input, and an input that arrives while one is written. A read buffer of one item
forces the blocking `lock()` that is otherwise only reached after megabytes; a
locked-read limit of two lets `pty_read` end by the limit and by the would-block;
an update buffer of two lets updates end by size, by sequence and by timeout. Two
tasks are the least with which a cancellation can hit another's command, an output
can come late, and a queue can form. In `ctl`, two commands of the user, an
in-band command and a completion are every pair of sources that compete for the
queue. In `buffer`, any four acts are enough for every pair of them to race and
two more to follow, for instance edit, save, outside write and edit around one
reload; an undo stack of one drops an item at the second edit. The safety
properties were also checked once with five acts (10M states), and with two
outside writes and two saves (11M states). In `server`, two launches are the least
with which callbacks of an old process can meet a new one; the safety properties
were also checked with more acts (3.6M states). Deadlock is not checked, because every instance comes to rest when its
bounded inputs are used up; that it does not rest too early is what the liveness
properties say.

Every property has a mutant: a definition of the model replaced by a plausible
bug (`Bug...`, beside the definition), under which its run fails.

### Fairness

* **PTY.** The loop's thread runs; a sender between its send and its wake goes on;
  the main thread gives the lock back; the exit callback of Windows is called.
  Strong fairness only for `try_lock`: a reader that spins while the lock is free
  again and again gets it in the end. Nothing is assumed of the shell.
  `JoinReturns` and `InputReachesPty` are conditional on reads blocking now and
  then: the inner loop (`event_loop.rs:434`) goes on `while can_read`, and a shell
  that fills the buffer as fast as it is emptied keeps the loop from `poll`, so
  neither new input nor Shutdown is received meanwhile.
* **Executor.** Runnable tasks are polled, threads inside a call return, the main
  thread takes what is sent to it, controller and shell do their work. Nobody has
  to abort a task or run a command.
* **Controller.** The main thread takes events, messages and expired timers, a
  running timer expires, the shell reads, finishes commands and prompts. Nothing is
  assumed of users, programs and typed-ahead input. A command that never ends is
  not covered by the liveness properties.

* **File buffers.** Background reads, writes and diffs end and their callbacks run
  (`Tasks`). Nothing is assumed of users and other programs.
* **Language servers.** Tasks go on and the timer of the shutdown expires. The
  server need not answer, exit or end its children; `AnswersArrive` and
  `ShutdownEnds` start from an answer, or from the failure to ask for one.

## 4. Findings

* `inband_takes`: `cancel_command` compares under one lock and takes under
  another, and can take the next command, whose caller gets an error for a command
  that is being run.
* `ctl_own_block`: a command submitted over an in-band block marks that block, and
  runs in the next one.
* `ctl_forgotten`: a command of the agent throws a queued in-band command away
  without telling the executor, which waits for it until the user runs a command.
* `ctl_two_requests`: a second completion request overwrites the state of the
  first; the results of the first then erase that of the second, and a command is
  read by the shell as the text to complete.
* `buffer_rename`: a rename with unsaved edits gives `FileModel` the version of the
  edits (`global_buffer_model.rs:662`). The watcher's report of the new path then
  matches it, and the content on disk replaces them, though `rename`
  (`global_buffer_model.rs:584`) and `rename_tabs_with_path` (`view.rs:1272`) say
  that unsaved edits are preserved. A dialog asks whether to save them
  (`view.rs:1300`), but nothing holds the reload back until it is answered.

Seen while modelling, and part of the models, without a run of their own: a
command that leaves the queue between the two looks of its own cancellation is run
though its caller is gone; an expired activation timer is not stopped by
`abort` (harmless until something is typed ahead, as `OneCommandAtATime` shows; with a
command typed ahead the line editor is taken to be active while it runs);
a late `UserCommandFinished` clears the flag of the next command; a completion key
read by a program leaves the queue waiting for a prompt that never comes, which is
the exception in `QueuedIsWritten`.

### What the models show beyond their properties

Behaviours that the modules contain and no property forbids, because nothing in
the repository promises otherwise, or because a property names them as its
exception. Each was read in the code, and found again in the model.

PTY event loop:

* A comment in the loop (`event_loop.rs:439`) expects a read after a hang-up on Linux
  to fail with EIO, and says that the loop goes on then and waits for `Exited`. It
  goes on only for `ErrorKind::Other`, and the standard library gives EIO another
  kind: the read ends the loop (`ReadError`), which kills the shell and reports
  `PtyDisconnected`. So does a write that fails after the hang-up (`WriteError`). The
  exit is reported either way, with a reason that is not the shell's own.
* A reply of the parser can come between two parts of an input that the kernel took
  in pieces, and is cut or lost when the kernel has no room: it does not go through
  `write_list`.

PTY controller:

* With two completion requests the shell may read an in-band command while it waits
  for the text to complete (`ctl_two_requests`). The command is then swallowed, and
  `in_flight_in_band_command_count` stays one too high: it was counted when it was
  written, and no block of it will finish. `InFlightIsExact` holds in `ctl`,
  with one request.

File buffers:

* A discard replaces what was typed after it was asked for: its base is the
  version of the buffer when the read ends (`DiscardDone`). This is why
  `DiscardDone` counts the text as given up.
* A second editor that opens an edited buffer takes the present version as its base
  and shows unsaved text as saved (`Join`).
* A save that was under way when its file is renamed goes to the old path, and after
  an undo the editor shows its text as saved. With the texts of the second editor
  these are in `adopted`, which `CleanIsStored` exempts.
* A change of the file is not reported when the repository ignores the file
  (`warp_files/src/lib.rs:910`), while the subscription or the watch has not started
  (`lib.rs:345`, `395`), and a report is dropped before the file is loaded
  (`should_receive_update_for_path`). A clean editor then shows an older text until
  the next change: `CleanIsCurrent` exempts `missed`.
* Two tasks on the file may end in the other order than they began, and the older
  text wins and is shown as saved: `CleanIsCurrent` exempts `crossed`.
* After a reload was refused, undo can lead back to a text that matches the
  editor's base and is no longer in the file: `CleanIsCurrent` exempts `refusal`.
* `has_version_conflicts` (`local_code_editor.rs:1531`) compares the editor's base
  with the model's; the branch that refuses a reload changes neither, so the two
  stay equal after a conflict.

Language servers:

* A server that dies, or never answers, after `initialize` was written leaves the
  model in Starting; after `shutdown`, in Stopping: the entry stays in
  `pending_requests` and nothing times out. From Starting, stop and restart do
  nothing, so a stop asked for then, or while Stopping, is not kept: `StopIsKept`
  speaks of the stops that the model takes up.
* A server that refuses `initialize` is not ended (`LeftBehind`), nor is one whose
  model is dropped while it starts.
* `manual_start` while a stop by hand is under way clears the flag so that
  `start_all` may start the server; the callback of the stop does not call it, so
  nothing starts until the next file is opened.
* `restart` starts the new server in the callback of the shutdown and emits no
  `LspEvent::Stopped`, which its comment (`model.rs:380`) announces.
* An empty file that is loaded while the server runs is not opened on it until the
  server starts again (`blank`): the first edit is then sent as a change of a
  document that is not open, and dropped.
* `didOpen` and `didChange` are detached tasks, and one can overtake another
  (`reordered`); the server then has another text than the editor until the next
  full synchronisation.

## 5. What is proved

The theorems hold for every value of the constants that the modules' assumptions
allow (distinct ids, naturals for the bounds; nothing bounds the number of
commands, tasks or requests). The three theorems of `PtyCompletionProofs` carry
hypotheses on the constants beyond that: what they state fails without them.

**PtyEventLoopProofs.** `TypeCorrect` goes part by part: most actions leave most
parts alone (`Frame`). `NoWakeupIsLost` needs the whole path of a wakeup: the
invariant `WakeInv` says that a nonempty channel with no sender between its send
and its wake is recorded in `needs_wake_on_register`, or in the readiness event
that epoll holds, or among the events that poll returned, or is being drained.
`ShellIsNotOrphaned` needs to know that nothing reports the shell's exit before
its death, though SIGCHLD is shared by all panes and, on Windows, the exit is a
message in the channel: `EndInv` says so (`DeathIsReal`), and what each of the last
program points has already done. `ImplementsPipe` is the refinement of
`OrderedPipe`. Its invariant `PipeInv` follows an input through the three places it
can be in: the inputs not yet written are the one being written, then
`write_list`, then the channel, with consecutive numbers that end with the last one
sent, and the offset reached in the first of them is the pipe's next byte. Given
that, a send is a step of the pipe's `Send`, an accepted write one of its `Deliver`,
the last exit its `Close`, and every other step leaves the pipe as it is.
`NoEdgeIsMissed` follows readiness the way `NoWakeupIsLost` follows a message: by
`EdgeInv`, from the registration until the loop ends, what the pty is ready for is a
pending edge, or in the event that poll returned, or in `can_read` and `can_write`,
and the inner loop leaves only with both used up (`EdgeWork`). `RedrawIsQueued`
rests on `DrawInv`: only inside `pty_read` may something be applied and not drawn,
and then more was processed than the open update holds, which is what the code
compares before it sends the wakeup.

**InBandExecutorProofs.** `TypeCorrect` is inductive as it stands. `OwnReplies`
and `QueueNeverStalls` are inductive with the types: a reply is only sent to the
running command, by the output with its id; and whoever empties the slot is by
that at a program point from which it calls `execute_command_internal`.
`RunnerNeverForgotten` is not inductive alone. A cancellation in the channel could
take the running command from the controller behind the executor's back. The
invariant `IInv` adds `ExecuteFollowsCancel`: as long as a cancellation of the
running command is in the channel, the thread that sent it has not passed its
look at the slot, or the command's Execute comes later in the channel. The Drop
that sends a cancellation is also what puts the thread there, and a command is
started once, so either disjunct persists until the cancellation is consumed;
`ExecutesFollowCancels` states this part by itself.

**PtyControllerProofs.** `TypeCorrect`, with lemmas on what a flush of the queue
writes (`BatchPrefix`: a prefix in which only the last may be a command).
`CommandsNeverOverlap` is proved with the invariant `OneTurn`: the right to type a
command is a token that exists at most once. It is in exactly one place: a command
already written, a shell that runs or is about to prompt, the prompt's event on
its way, the timer (running or expired, at most one of them), or the active line
editor. Each step hands the token on or leaves it, which is where the order of
"stop the timer", "become inactive" and "write" in the code matters. The invariant
is `TypeOK /\ TurnKept`, where `TurnKept` says `OneTurn` as long as nothing was
typed ahead. `InFlightCounts` builds on it: by `FlightInv` the count is one from
the write of an in-band command to the end of its block and else none, and the
block knows the kind of the command that runs, which `command_finished` decides by.
It is proved under `[]PromptIsExclusive`, and needs that hypothesis: it is the
controller's exclusive use of the pty that keeps the shell from swallowing a
counted command as the text to complete (see section 4).

**PtyCompletionProofs.** The hypothesis holds when completions are requested at most
once (`MaxRequests <= 1`), and fails for two (run `ctl_two_requests`).
`OnePromptIsExclusive` is proved with `RequestInv`, the phases of the one request:
it has not been made; its key is in the queue; the key is the last thing in the
pty, and `native` keeps everything behind it; the shell waits and `sendPrompt` is on
its way; the text is the first thing in the pty; it is over. `PromptIsExclusive`
itself speaks of the moment the shell waits and is not inductive: what is in the pty
then was decided when the key was written, by a flush that stops behind the key
(`FlushMoves`). `OneRequestCounts` is then `InFlightCounts` without its hypothesis.
`DroppedIsKnown` is `NobodyWaitsForDropped` when, besides, no agent submits
(`Agent = {}`; a command of the agent breaks it, run `ctl_forgotten`). Its invariant
`WaitInv` says of each command the executor waits for, as long as nothing was typed
ahead, that it is on its way to the controller, in its queue, in the pty, at work in
the shell or its background, or that the executor cancelled it (`Kept`), and that
every cancellation in the channel is one the executor knows of (`CancelsKnown`). Two
things could take a command out of the pty without an answer: a program that reads
it, which `OneTurn` excludes, and the shell that takes it for the text to complete,
which `PromptIsExclusive` excludes.

**TerminalInputProofs.** The two refinements of the composition.
`ExecutorIsExpected` (`ControllerSpec`): each step of the real executor is one of the
reduced executor of `PtyController`, or does not touch its variables. It needs that a
command is not issued twice, and that what is queued has not been issued
(`AllIssued`, `Submitted`). `ControllerIsExpected` (`ExecutorSpec`): each step of the
real controller and shell is one that `InBandExecutor` allows its environment, whose
`downstream` is the set of commands in the queue, the pty or the shell. It needs that
a command is in one place and there once (`OnePlace`), the *lane* from the executor's
channel through queue and pty to the shell and its background, so that it is answered once
and not at all once it was thrown away; and that nobody reads it as a text to complete
(`NoCompletions`). That a program might read it is excluded by the controller's
`TurnKept`, which comes with the controller's step lemma: `PtyControllerProofs` and
`InBandExecutorProofs` are instantiated with the variables of the composition, and
their lemmas on steps are used as they stand. `PartsTogether` then carries the safety
results of both parts over to the whole, where their hypotheses hold
(nothing is typed ahead, nobody requests completions, no agent submits).

**FileBufferProofs.** Most of its safety results follow from one idea: a version
stands for one text. `Pairs` collects every place that keeps a version together
with a text (the buffer, the items of its undo stack, both ends of a diff, the
saves); `OneText` says that no two of them disagree and none is from the future.
A step adds at most one pair, for a version that is new (`NextPairs`): edits and
undo take a fresh version, a reload passes the fresh version of the file, a diff
that is applied adds the pair its record already held. So what a version stood for
it goes on standing for (`VersionKept`), and `BaseIsStored` and `ViewIsStored`, that
the versions of file, model and editors stand for texts that are or were stored,
are being saved, or are exempt, are kept. `DiffFitsAlways` is then immediate: a base that matches
the buffer and is paired with the old text is paired with the buffer's text too.
`CleanIsStoredAlways` and the action property `OnlyRenameLosesEditsAlways` are the
same argument for the editors' base and for the base a reload is compared with.
`NoEditOverwrittenWithoutRename` says what that leaves of the promise that the run
`buffer_rename` refutes: if no file is renamed, `renamed` stays empty, and no edit is
overwritten but by a discard. The
theorems hold for any number of editors, tasks under way, and any capacity of the
undo stack. `CleanIsCurrentAlways` needs more, since it says that what is
shown as saved *is* in the file and not only that it once was. `UncrossedInv` adds, as
long as no two tasks on the file crossed: a task on the file is the only one
(`Alone`); what was read and not written over since is the file's text (`Fresh`); and
with no update under way the versions of the model and of the editors stand for the
file's text, one that is exempt, or one being saved (`Current`). The last two hold
while no change of the file waits to be reported and none went unreported, the last
one also only until an update is refused as a conflict.

**LanguageServerProofs.** `StopIsKeptAlways` and `OneServerAlways` rest on an
invariant about whose turn it is: at most one launch is between start and the
callback of its start, and it is the last one (`OneStart`); the same for shutdown
(`OneShutdown`); there is no process before it is launched (`NoProcessBefore`); a
reply to `initialize` is given once (`AnswersOnce`); and a start that ended left
the process to the model, to a shutdown, or to one of the two ways of
`LeftBehind` (`StartedIsOwned`). `DocumentInStepAlways` follows the versions of the
document: for the server in use, the notifications that are not yet read form a
chain that leads from the version the server knows to the version of the editor,
each from where the one before it ends, the first of all a `didOpen` and no other
(`Chain`). A detached task that overtakes another breaks the chain, which is what
`reordered` records; a server that has not started was told nothing (`Untold`).

**Only model-checked.** Liveness, which the prover cannot do under fairness:
`InputReachesPty`, `JoinReturns`, `SyncUpdateEnds`, `UiNotStarved`,
`ShellExitReported`, `SubmittedCommandRuns`, `QueuedIsWritten`,
`EveryCommandResolves`, `UpdatesAreAnswered`, `AnswersArrive` and `ShutdownEnds`.
Every safety invariant, action property and refinement that a passing run checks
has a theorem; `PromptIsExclusive` and `NobodyWaitsForDropped` have theirs only for
the constants they hold for. The refinements leave out fairness too: `ControllerSpec`
and `ExecutorSpec` are safety specifications.

## 6. What is not modelled

Contents: bytes, escape sequences, the grid, the text of commands, shell quoting,
block contents.

Of the file buffers: format on save, saving under another name, deleting, closing
and reopening, and a read that fails. A subscription to a repository that fails, and
falls back to watching the paths, is one that starts later; nothing is assumed of
when a watch starts, or whether it does.

Of the language servers: closing and reopening documents, diagnostics, progress,
watched files, the requests a server sends, and the logger. A message is written at
once (`SendRequest`, `WriteDoc`): in the code a caller that drops its request while
`write_all` (`transport.rs:138`) waits for room in the pipe leaves a part of the
message on the server's input, and the server cannot make out what follows.
`AnswersArrive` does not speak of that: it starts from an answer.

In the modelled parts of the terminal: tmux control mode and the writes of the
controller that bypass its queue (keys for a running program, end of input,
resizes); bootstrap of the session, which is taken to be over; the pty recorder;
errors of channels whose other end lives as long as the pane. The wait for the
shell after a SIGCHLD is taken not to fail: on an error `next_child_event`
(`unix.rs:620`) logs it and reports no exit, and `ShellExitReported` would not hold.
The age of a block is abstracted: the agent's check (`shell_command.rs:266`) refuses
a command over a block that has run for 50 ms, in-band blocks included, which is a
step not taken in `Submit`; `ctl_own_block` happens in the time before that.
Command ids are taken to be distinct, though they are clock readings.

Of the other components, see the `status` and `note` of each in `PROJECT.json`.

## 7. Plan

Done: `PtyEventLoop` with `OrderedPipe`; `InBandExecutor`; `PtyController`;
`TerminalInput`; `FileBuffer`; `LanguageServer`; proofs of the safety
properties of all of them.

Next, in this order:

1. `BlockList`: the list with its active and background blocks, early output and
   typeahead between command finished and preexec, in-band blocks, restored
   blocks; invariants: one active block at the end of the list, a background
   block is finished before the next starts, typeahead is not lost or doubled.
   `PtyController` keeps only the active block and will be shown to agree with it.
2. `AgentActions`: pending, running and finished actions, cancellation racing
   completion, one result per action; abstract specification: an action is
   resolved once.
3. The composition of `FileBuffer` with the document of `LanguageServer`: closing,
   reopening and renaming, with the `didClose` that is sent by a detached task.
4. Smaller protocols: terminal server and its pipe, IPC, crash recovery's hand-over,
   undo close with its expiry, MCP server restarts, tmux replies by number.

A run is added for a distinct question only; the instances of small protocols are
to be composed where they meet.
