----------------------------- MODULE FileBuffer -----------------------------
(***************************************************************************)
(* One file open in the code editors: the shared buffer and its undo stack *)
(* (crates/editor/src/content), the versions kept by GlobalBufferModel     *)
(* (app/src/code/global_buffer_model.rs), FileModel (crates/warp_files)    *)
(* and the editors on the buffer (app/src/code/local_code_editor.rs), and  *)
(* the file itself, which other programs write too.                        *)
(*                                                                         *)
(* A handler of the main thread, with the events it emits, is one step.    *)
(* Reads, writes and diffs run on the background executor: they take       *)
(* effect in a step of their own, and their callback runs some time later. *)
(* Texts and content versions are numbers, fresh ones come from a clock.   *)
(*                                                                         *)
(* Changes of the file are reported by a subscription to its repository or *)
(* by a watch of its path. Either starts some time after it was asked for; *)
(* for a file the repository ignores neither ever does.                    *)
(***************************************************************************)
EXTENDS Integers, Sequences, FiniteSets

CONSTANTS
  Editors,  \* the views that may be open on the file
  Bounds,   \* how often each of Deeds happens
  MaxDeeds, \* how often all of them together
  MaxUndo,  \* capacity of the undo stack (30 in the program)
  MaxReads  \* bound on the reads of one kind under way at once

None == 0      \* no version
Empty == 0     \* the text of a new buffer
Garbled == -1  \* a diff was applied to a text it was not computed from

\* What people and other programs do.
Deeds == {"edit", "undo", "outside", "save", "discard", "rename", "join"}

ASSUME FileBufferAssumption ==
  /\ Bounds \in [Deeds -> Nat] /\ MaxDeeds \in Nat
  /\ MaxUndo \in Nat \ {0} /\ MaxReads \in Nat
  /\ IsFiniteSet(Editors) /\ Editors # {}

VARIABLES
  incremental, \* FeatureFlag::IncrementalAutoReload
  disk,        \* the text in the file
  watch,       \* what reports changes of the file
  changed,     \* there is a change to report
  load,        \* the read of FileModel::open
  fileVersion, \* FileModel: LocalFile::version
  base,        \* GlobalBufferModel: base_content_version
  buffer,      \* the buffer and its undo stack
  views,       \* the editors on the buffer
  viewBase,    \* their base_content_version
  pending,     \* pending_diff_parse: the version its diff will set
  diffs,       \* diffs being computed, or computed and not yet applied
  reloads,     \* reads of reload_file_paths
  saves,       \* writes of FileModel::save
  discards,    \* reads of discard_unsaved_changes
  clock,       \* the last content version or text in use
  onDisk,      \* texts that were in the file at some time (history)
  waived,      \* texts the user gave up by a discard (history)
  adopted,     \* unsaved texts taken for saved ones: when another editor joined,
               \* and those being saved when the file was renamed (history)
  renamed,     \* texts the buffer had when the file was renamed (history)
  missed,      \* a change was not reported, or its report was dropped, and the
               \* file was not read since (history)
  owed,        \* an update of the file was not yet answered (history)
  refusal,     \* the last update was answered by success: false (history)
  crossed,     \* two tasks on the file were under way at once (history)
  left,        \* how often each of Deeds may still happen
  deeds        \* how often all of them did

modelVars == <<fileVersion, base, pending, diffs>>
taskVars == <<reloads, saves, discards, load>>
viewVars == <<views, viewBase>>
keptTexts == <<onDisk, waived, adopted, renamed>>
history == <<keptTexts, missed, owed, refusal, crossed>>
vars == <<incremental, disk, watch, changed, modelVars, buffer, viewVars, taskVars,
          clock, history, left, deeds>>

Watches == {"repository", "path", "nothing"}

Texts == Int
Undoable == [version : Nat, text : Texts]
ReadTask == [id : 1..MaxReads, text : Texts, done : BOOLEAN]

VersionTypes ==
  /\ fileVersion \in Nat /\ base \in Nat /\ pending \in Nat /\ clock \in Nat
  /\ views \in SUBSET Editors /\ viewBase \in [Editors -> Nat]

BufferTypes ==
  /\ buffer \in [version : Nat, text : Texts, undo : Seq(Undoable),
                 at : Nat, bottom : Undoable]
  /\ buffer.at <= Len(buffer.undo)

TaskTypes ==
  /\ load \in [state : {"reading", "read", "done"}, text : Texts]
  /\ reloads \in SUBSET ReadTask /\ discards \in SUBSET ReadTask
  /\ saves \in SUBSET [version : Nat, text : Texts,
                       state : {"writing", "written", "failed"}]
  /\ diffs \in SUBSET [version : Nat, base : Nat, old : Texts, new : Texts,
                       done : BOOLEAN]

FileTypes ==
  /\ incremental \in BOOLEAN /\ changed \in BOOLEAN
  /\ watch \in Watches
  /\ disk \in Texts /\ onDisk \in SUBSET Texts /\ waived \in SUBSET Texts
  /\ adopted \in SUBSET Texts /\ renamed \in SUBSET Texts
  /\ missed \in BOOLEAN /\ owed \in BOOLEAN /\ refusal \in BOOLEAN /\ crossed \in BOOLEAN
  /\ left \in [Deeds -> Nat] /\ deeds \in Nat

TypeOK == VersionTypes /\ BufferTypes /\ TaskTypes /\ FileTypes

-----------------------------------------------------------------------------
\* The buffer.

Item(v, t) == [version |-> v, text |-> t]

\* A buffer whose text was replaced, with an empty undo stack.
Refreshed(v, t) ==
  [version |-> v, text |-> t, undo |-> <<>>, at |-> 0, bottom |-> Item(v, t)]

\* What the undo stack holds for the text as it is now.
Top == IF buffer.at = 0 THEN buffer.bottom ELSE buffer.undo[buffer.at]

\* Buffer::version_match
VersionMatch(v) == buffer.version = v \/ Top.version = v

\* Buffer::set_version
WithVersion(v) ==
  [buffer EXCEPT !.version = v,
                 !.bottom = IF buffer.undo = <<>> THEN Item(v, buffer.text)
                            ELSE buffer.bottom]

\* Mutant of Pushed: the index is not lowered when the oldest item is dropped.
BugPushed(item) ==
  LET kept == SubSeq(buffer.undo, 1, buffer.at)
      full == Len(kept) = MaxUndo
      below == IF full THEN Tail(kept) ELSE kept
  IN [version |-> item.version, text |-> item.text,
      undo |-> Append(below, item), at |-> Len(kept) + 1,
      bottom |-> IF full THEN Head(kept) ELSE buffer.bottom]

\* UndoStack::push_undo_item_to_stack
Pushed(item) ==
  LET kept == SubSeq(buffer.undo, 1, buffer.at)
      full == Len(kept) = MaxUndo
      below == IF full THEN Tail(kept) ELSE kept
  IN [version |-> item.version, text |-> item.text,
      undo |-> Append(below, item), at |-> Len(below) + 1,
      bottom |-> IF full THEN Head(kept) ELSE buffer.bottom]

\* Mutant of Merged: the last item keeps its version.
BugMerged(item) ==
  [buffer EXCEPT !.version = item.version, !.text = item.text,
                 !.undo[buffer.at].text = item.text]

\* UndoStackItem::add: typing goes on in the last item.
Merged(item) ==
  [buffer EXCEPT !.version = item.version, !.text = item.text,
                 !.undo = [@ EXCEPT ![buffer.at] = item]]

Loaded == base # None

Watched == watch # "nothing"

Busy ==
  \/ load.state # "done" \/ diffs # {}
  \/ reloads # {} \/ saves # {} \/ discards # {}

\* An editor shows that there is nothing to save (~has_unsaved_changes).
Clean(e) == VersionMatch(viewBase[e])

Init ==
  /\ incremental \in BOOLEAN
  /\ disk = 1 /\ watch = "nothing" /\ changed = FALSE
  /\ load = [state |-> "reading", text |-> Empty]
  /\ fileVersion = None /\ base = None
  /\ buffer = Refreshed(1, Empty)
  /\ views = {CHOOSE e \in Editors : TRUE}
  /\ viewBase = [e \in Editors |-> None]
  /\ pending = None /\ diffs = {}
  /\ reloads = {} /\ saves = {} /\ discards = {}
  /\ clock = 1
  /\ onDisk = {1} /\ waived = {} /\ adopted = {} /\ renamed = {}
  /\ missed = FALSE /\ owed = FALSE /\ refusal = FALSE /\ crossed = FALSE
  /\ left = Bounds /\ deeds = 0

-----------------------------------------------------------------------------
\* What people and other programs do.

NewVersion == clock + 1
NewText == clock + 1
Spend(deed) ==
  /\ left[deed] > 0 /\ left' = [left EXCEPT ![deed] = @ - 1]
  /\ deeds < MaxDeeds /\ deeds' = deeds + 1

\* A change of the text by a user: a new item on the undo stack, or more of
\* the last one.
Edit ==
  /\ Loaded /\ Spend("edit")
  /\ LET item == Item(NewVersion, NewText)
     IN \/ buffer' = Pushed(item)
        \/ buffer.at > 0 /\ buffer.at = Len(buffer.undo) /\ buffer' = Merged(item)
  /\ clock' = clock + 1
  /\ UNCHANGED <<incremental, disk, watch, changed, modelVars, viewVars, taskVars,
                 history>>

\* Undo and redo give the text a new version and keep the items' own.
Undo ==
  /\ Loaded /\ Spend("undo")
  /\ \/ buffer.at > 0
        /\ LET t == IF buffer.at = 1 THEN buffer.bottom.text
                    ELSE buffer.undo[buffer.at - 1].text
           IN /\ buffer' = [buffer EXCEPT !.version = NewVersion, !.text = t,
                                          !.at = @ - 1]
              /\ clock' = clock + 1
     \/ buffer.at < Len(buffer.undo)
        /\ LET t == buffer.undo[buffer.at + 1].text
           IN /\ buffer' = [buffer EXCEPT !.version = NewVersion, !.text = t,
                                          !.at = @ + 1]
              /\ clock' = clock + 1
  /\ UNCHANGED <<incremental, disk, watch, changed, modelVars, viewVars, taskVars,
                 history>>

\* Another program writes the file.
OutsideWrite ==
  /\ Spend("outside")
  /\ disk' = NewText /\ clock' = clock + 1
  /\ onDisk' = onDisk \cup {NewText}
  /\ changed' = (changed \/ Watched) /\ missed' = (missed \/ ~Watched)
  /\ UNCHANGED <<incremental, watch, modelVars, buffer, viewVars, taskVars, waived,
                 adopted, renamed, owed, refusal, crossed>>

\* LocalCodeEditorView::perform_save, GlobalBufferModel::save, FileModel::save
Save(e) ==
  /\ e \in views /\ Loaded /\ Spend("save")
  /\ viewBase' = [viewBase EXCEPT ![e] = buffer.version]
  /\ saves' = saves \cup {[version |-> buffer.version, text |-> buffer.text,
                           state |-> "writing"]}
  /\ crossed' = (crossed \/ Busy)
  /\ UNCHANGED <<incremental, disk, watch, changed, modelVars, buffer, views, reloads,
                 discards, load, clock, keptTexts, missed, owed, refusal>>

NewRead(tasks, i) ==
  /\ i \in 1..MaxReads /\ \A r \in tasks : r.id # i
  /\ \A j \in 1..(i - 1) : \E r \in tasks : r.id = j

\* LocalCodeEditorAction::DiscardUnsavedChanges, discard_unsaved_changes
Discard(e) ==
  /\ e \in views /\ Loaded /\ Spend("discard")
  /\ viewBase' = [viewBase EXCEPT ![e] = buffer.version]
  /\ waived' = waived \cup {buffer.text}
  /\ \E i \in 1..MaxReads :
       /\ NewRead(discards, i)
       /\ discards' = discards \cup {[id |-> i, text |-> Empty, done |-> FALSE]}
  /\ crossed' = (crossed \/ Busy)
  /\ UNCHANGED <<incremental, disk, watch, changed, modelVars, buffer, views, reloads,
                 saves, load, clock, onDisk, adopted, renamed, missed, owed, refusal>>

\* GlobalBufferModel::open for a second editor: the buffer it gets may have
\* been edited, and what it holds is the editor's base.
Join(e) ==
  /\ e \notin views /\ Spend("join")
  /\ views' = views \cup {e}
  /\ IF Loaded
     THEN /\ viewBase' = [viewBase EXCEPT ![e] = buffer.version]
          /\ adopted' = adopted \cup {buffer.text}
     ELSE UNCHANGED <<viewBase, adopted>>
  /\ UNCHANGED <<incremental, disk, watch, changed, modelVars, buffer, taskVars, clock,
                 onDisk, waived, renamed, missed, owed, refusal, crossed>>

\* The new file id goes on with a subscription to a repository that is watched
\* already, for other files or by others, which reports the rename; or it asks for
\* a new one, and what was not reported is lost.
WatchMoves ==
  \/ watch' = "repository" /\ changed' = TRUE /\ UNCHANGED missed
  \/ /\ watch' = "nothing" /\ changed' = FALSE
     /\ missed' = (missed \/ changed \/ Busy)

\* The file is renamed in the file tree, and rename_tabs_with_path moves the
\* buffer to a new file id: what is under way goes to the old id and path.
Rename ==
  /\ Loaded /\ Cardinality(views) = 1 /\ Spend("rename")
  /\ WatchMoves
  /\ fileVersion' = buffer.version
  /\ pending' = None /\ diffs' = {}
  /\ reloads' = {} /\ saves' = {} /\ discards' = {}
  /\ renamed' = renamed \cup {buffer.text}
  /\ adopted' = adopted \cup {s.text : s \in saves}
  /\ owed' = FALSE
  /\ UNCHANGED <<incremental, disk, base, buffer, viewVars, load, clock, onDisk, waived,
                 refusal, crossed>>

-----------------------------------------------------------------------------
\* The handlers of GlobalBufferModel.

\* BufferUpdatedFromFileEvent: the editors take the version of a success.
Answer(success, v) ==
  /\ owed' = FALSE /\ refusal' = ~success
  /\ viewBase' = IF success
                 THEN [e \in Editors |-> IF e \in views THEN v ELSE viewBase[e]]
                 ELSE viewBase

\* Aborting a diff has no effect when it is complete, or is in its last poll.
WithoutPending ==
  {diffs, {d \in diffs : d.version # pending \/ d.done}}

\* populate_buffer_with_read_content(.., is_initial_load: false),
\* start_background_diff_parse
Populate(text, b, v) ==
  IF incremental
  THEN /\ \E others \in WithoutPending :
            diffs' = others \cup {[version |-> v, base |-> b, old |-> buffer.text,
                                  new |-> text, done |-> FALSE]}
       /\ pending' = v /\ owed' = TRUE
       /\ UNCHANGED <<base, buffer, viewBase, refusal>>
  ELSE /\ buffer' = Refreshed(v, text) /\ base' = v
       /\ Answer(TRUE, v)
       /\ UNCHANGED <<diffs, pending>>

\* Mutant of FileUpdated: the versions are not compared.
BugFileUpdated(text, b, v) == Populate(text, buffer.version, v)

\* Mutant of FileUpdated: a conflict is only logged.
BugSilentConflict(text, b, v) ==
  \/ VersionMatch(b) /\ Populate(text, b, v)
  \/ /\ ~VersionMatch(b) /\ VersionMatch(base)
     /\ Populate(text, buffer.version, v)
  \/ /\ ~VersionMatch(b) /\ ~VersionMatch(base)
     /\ diffs' \in WithoutPending /\ pending' = None
     /\ UNCHANGED <<base, buffer, viewBase, owed, refusal>>

\* FileModelEvent::FileUpdated in handle_file_model_events
FileUpdated(text, b, v) ==
  \/ VersionMatch(b) /\ Populate(text, b, v)
  \/ /\ ~VersionMatch(b) /\ VersionMatch(base)
     /\ Populate(text, buffer.version, v)
  \/ /\ ~VersionMatch(b) /\ ~VersionMatch(base)
     /\ diffs' \in WithoutPending /\ pending' = None
     /\ Answer(FALSE, b)
     /\ UNCHANGED <<base, buffer>>

\* Mutant of ApplyDiff: a diff that no longer fits is dropped in silence.
BugApplyDiff(d) ==
  /\ d \in diffs /\ d.done
  /\ diffs' = diffs \ {d} /\ pending' = None
  /\ IF VersionMatch(d.base)
     THEN /\ buffer' = IF d.old = d.new THEN WithVersion(d.version)
                       ELSE Refreshed(d.version, d.new)
          /\ base' = d.version
          /\ Answer(TRUE, d.version)
     ELSE UNCHANGED <<base, buffer, viewBase, refusal, owed>>
  /\ UNCHANGED <<incremental, disk, watch, changed, fileVersion, views, taskVars, clock,
                 keptTexts, missed, crossed, left, deeds>>

\* apply_diff_result
ApplyDiff(d) ==
  /\ d \in diffs /\ d.done
  /\ diffs' = diffs \ {d} /\ pending' = None
  /\ IF VersionMatch(d.base)
     THEN /\ buffer' = IF d.old = d.new THEN WithVersion(d.version)
                       ELSE Refreshed(d.version,
                              IF buffer.text = d.old THEN d.new ELSE Garbled)
          /\ base' = d.version
          /\ Answer(TRUE, d.version)
     ELSE /\ Answer(FALSE, d.base)
          /\ UNCHANGED <<base, buffer>>
  /\ UNCHANGED <<incremental, disk, watch, changed, fileVersion, views, taskVars, clock,
                 keptTexts, missed, crossed, left, deeds>>

-----------------------------------------------------------------------------
\* FileModel: its tasks, their callbacks, and the events these emit.

LoadRead ==
  /\ load.state = "reading"
  /\ load' = [state |-> "read", text |-> disk] /\ missed' = FALSE
  /\ UNCHANGED <<incremental, disk, watch, changed, modelVars, buffer, viewVars, reloads,
                 saves, discards, clock, keptTexts, owed, refusal, crossed, left, deeds>>

\* The callback of FileModel::open, then FileLoaded and BufferLoaded.
LoadDone ==
  /\ load.state = "read"
  /\ load' = [load EXCEPT !.state = "done"]
  /\ fileVersion' = NewVersion /\ base' = NewVersion
  /\ buffer' = Refreshed(NewVersion, load.text)
  /\ clock' = clock + 1
  /\ viewBase' = [e \in Editors |-> IF e \in views THEN NewVersion ELSE viewBase[e]]
  /\ UNCHANGED <<incremental, disk, watch, changed, pending, diffs, views, reloads, saves,
                 discards, history, left, deeds>>

\* The registration asked for in FileModel::open or register_file_path is done;
\* that of a path is asked for when the file is loaded.
WatchStarts ==
  /\ watch = "nothing" /\ watch' \in {"repository", "path"}
  /\ watch' = "path" => Loaded
  /\ UNCHANGED <<incremental, disk, changed, modelVars, buffer, viewVars, taskVars, clock,
                 history, left, deeds>>

\* A change is reported: reload_file_paths, which ignores files without a version.
Watch ==
  /\ changed /\ changed' = FALSE
  /\ IF fileVersion = None
     THEN missed' = TRUE /\ UNCHANGED <<reloads, crossed>>
     ELSE /\ \E i \in 1..MaxReads :
               /\ NewRead(reloads, i)
               /\ reloads' = reloads \cup
                              {[id |-> i, text |-> Empty, done |-> FALSE]}
          /\ crossed' = (crossed \/ Busy) /\ UNCHANGED missed
  /\ UNCHANGED <<incremental, disk, watch, modelVars, buffer, viewVars, saves, discards,
                 load, clock, keptTexts, owed, refusal, left, deeds>>

ReadBy(r) == [r EXCEPT !.text = disk, !.done = TRUE]

ReloadRead(r) ==
  /\ r \in reloads /\ ~r.done
  /\ reloads' = (reloads \ {r}) \cup {ReadBy(r)} /\ missed' = FALSE
  /\ UNCHANGED <<incremental, disk, watch, changed, modelVars, buffer, viewVars, saves,
                 discards, load, clock, keptTexts, owed, refusal, crossed, left, deeds>>

\* The callback: a new version of the file, reported with the one before it.
ReloadDone(r) ==
  /\ r \in reloads /\ r.done
  /\ reloads' = reloads \ {r}
  /\ fileVersion' = NewVersion /\ clock' = clock + 1
  /\ FileUpdated(r.text, fileVersion, NewVersion)
  /\ UNCHANGED <<incremental, disk, watch, changed, views, saves, discards, load,
                 keptTexts, missed, crossed, left, deeds>>

DiscardRead(r) ==
  /\ r \in discards /\ ~r.done
  /\ discards' = (discards \ {r}) \cup {ReadBy(r)}
  /\ UNCHANGED <<incremental, disk, watch, changed, modelVars, buffer, viewVars, reloads,
                 saves, load, clock, history, left, deeds>>

\* The callback of discard_unsaved_changes takes the text as it is now.
DiscardDone(r) ==
  /\ r \in discards /\ r.done
  /\ discards' = discards \ {r}
  /\ fileVersion' = NewVersion /\ clock' = clock + 1
  /\ waived' = waived \cup {buffer.text}
  /\ Populate(r.text, buffer.version, NewVersion)
  /\ UNCHANGED <<incremental, disk, watch, changed, views, reloads, saves, load, onDisk,
                 adopted, renamed, missed, crossed, left, deeds>>

\* The write of FileModel::save takes effect, or fails.
SaveWrites(s) ==
  /\ s \in saves /\ s.state = "writing"
  /\ \/ /\ saves' = (saves \ {s}) \cup {[s EXCEPT !.state = "written"]}
        /\ disk' = s.text /\ onDisk' = onDisk \cup {s.text}
        /\ changed' = (changed \/ Watched) /\ missed' = (missed \/ ~Watched)
     \/ /\ saves' = (saves \ {s}) \cup {[s EXCEPT !.state = "failed"]}
        /\ UNCHANGED <<disk, changed, onDisk, missed>>
  /\ UNCHANGED <<incremental, watch, modelVars, buffer, viewVars, reloads, discards, load,
                 clock, waived, adopted, renamed, owed, refusal, crossed, left, deeds>>

\* Mutant of SaveDone: after a failure the editor keeps its base.
BugSaveDone(s) ==
  /\ s \in saves /\ s.state # "writing"
  /\ saves' = saves \ {s}
  /\ IF s.state = "written"
     THEN fileVersion' = s.version /\ base' = s.version
     ELSE UNCHANGED <<fileVersion, base>>
  /\ UNCHANGED <<incremental, disk, watch, changed, buffer, pending, diffs, viewVars,
                 reloads, discards, load, clock, history, left, deeds>>

\* Its callback, then FileSaved or FailedToSave.
SaveDone(s) ==
  /\ s \in saves /\ s.state # "writing"
  /\ saves' = saves \ {s}
  /\ IF s.state = "written"
     THEN fileVersion' = s.version /\ base' = s.version /\ UNCHANGED viewBase
     ELSE /\ viewBase' = [e \in Editors |-> IF e \in views THEN base ELSE viewBase[e]]
          /\ UNCHANGED <<fileVersion, base>>
  /\ UNCHANGED <<incremental, disk, watch, changed, buffer, pending, diffs, views,
                 reloads, discards, load, clock, history, left, deeds>>

\* text_diff is computed in the background.
DiffComputed(d) ==
  /\ d \in diffs /\ ~d.done
  /\ diffs' = (diffs \ {d}) \cup {[d EXCEPT !.done = TRUE]}
  /\ UNCHANGED <<incremental, disk, watch, changed, fileVersion, base, pending, buffer,
                 viewVars, taskVars, clock, history, left, deeds>>

UserActs ==
  Edit \/ Undo \/ Rename \/ \E e \in Editors : Save(e) \/ Discard(e) \/ Join(e)

Tasks ==
  \/ LoadRead \/ LoadDone \/ Watch
  \/ \E r \in reloads : ReloadRead(r) \/ ReloadDone(r)
  \/ \E r \in discards : DiscardRead(r) \/ DiscardDone(r)
  \/ \E s \in saves : SaveWrites(s) \/ SaveDone(s)
  \/ \E d \in diffs : DiffComputed(d) \/ ApplyDiff(d)

Next == UserActs \/ OutsideWrite \/ WatchStarts \/ Tasks

\* Background tasks end and their callbacks run; nobody has to do anything else.
Spec == Init /\ [][Next]_vars /\ WF_vars(Tasks)

-----------------------------------------------------------------------------

\* A diff is applied to the text it was computed from: apply_diff_result checks
\* the version, and edits, undo, redo, saves and other reloads in between do
\* not make one version stand for two texts.
DiffFitsBuffer ==
  \A d \in diffs : VersionMatch(d.base) => buffer.text = d.old

\* A text of the buffer goes otherwise than by the user's typing.
Replaced == Loaded /\ buffer'.text # buffer.text /\ ~Edit /\ ~Undo

\* Only the user removes text that was never in the file: a reload replaces the
\* text only if it was read from the file or written to it, or was given up by a
\* discard. A rename is said to preserve unsaved edits (GlobalBufferModel::rename,
\* rename_tabs_with_path); it does not, see the run buffer_rename.
NoEditOverwritten == [][Replaced => buffer.text \in onDisk \cup waived']_vars

\* Nothing but that loses edits: what else is replaced is a text the buffer had
\* when its file was renamed.
OnlyRenameLosesEdits ==
  [][Replaced => buffer.text \in onDisk \cup waived' \cup renamed]_vars

\* An editor that shows nothing to save shows a text that was in the file, or is
\* being written to it. Exempt are texts the user discarded, what a buffer held
\* when another editor joined, which takes unsaved text for saved, and texts whose
\* save was under way when the file was renamed.
CleanIsStored ==
  \A e \in views : Loaded /\ Clean(e) =>
    buffer.text \in onDisk \cup waived \cup adopted \cup {s.text : s \in saves}

\* When everything is done, an editor that shows nothing to save shows what is in
\* the file. Exempt are a change that was not reported (an ignored file, a watch
\* not yet started, a file not yet loaded), the texts exempt above, an update
\* answered by a conflict, and two tasks on the file that crossed.
CleanIsCurrent ==
  /\ ~Busy /\ ~changed /\ ~missed /\ ~crossed /\ ~refusal
  /\ buffer.text \notin waived \cup adopted
  /\ \E e \in views : Clean(e)
  => buffer.text = disk

\* Every update of the file is answered, by a success or a conflict, however often
\* diffs are aborted for newer ones.
UpdatesAreAnswered == owed ~> ~owed

====
