-------------------------- MODULE FileBufferProofs --------------------------
(***************************************************************************)
(* Proofs for FileBuffer: types, that one version never stands for two     *)
(* texts, that only a rename loses a text, that no text is shown as saved  *)
(* which is not, and that only tasks that cross and changes that were not  *)
(* reported leave an editor with a stale text.                             *)
(***************************************************************************)
EXTENDS FileBuffer, TLAPS

-----------------------------------------------------------------------------
\* The invariant.

\* The item for the text of a buffer, and the items it holds.
TopOf(b) == IF b.at = 0 THEN b.bottom ELSE b.undo[b.at]
Items(b) == {b.bottom} \cup {b.undo[i] : i \in DOMAIN b.undo}

\* Every version that is kept somewhere together with the text it stands for.
DiffPairs(D) == {Item(d.base, d.old) : d \in D} \cup {Item(d.version, d.new) : d \in D}
SavePairs(S) == {Item(s.version, s.text) : s \in S}
Pairs ==
  {Item(buffer.version, buffer.text)} \cup Items(buffer) \cup DiffPairs(diffs) \cup SavePairs(saves)

\* The texts that may be replaced, and those that may be shown as saved.
Stored == onDisk \cup waived \cup renamed
Saving == {s.text : s \in saves}
Exempt == waived \cup adopted
Shown == onDisk \cup Exempt \cup Saving

\* A version stands for one text, and none is from the future.
OneText ==
  /\ \A p, q \in Pairs : p.version = q.version => p.text = q.text
  /\ \A p \in Pairs : p.version \in 1..clock

\* So are the versions that the file, the model and the editors go by.
Past ==
  /\ fileVersion <= clock /\ base <= clock
  /\ \A e \in Editors : viewBase[e] <= clock
  /\ \A e \in Editors \ views : viewBase[e] = None

\* Nothing happens to the file before it is loaded.
LoadedFirst ==
  load.state # "done" =>
    /\ fileVersion = None /\ base = None
    /\ reloads = {} /\ discards = {} /\ saves = {} /\ diffs = {}

\* The undo stack shows the text of the buffer.
TopShown == Top.text = buffer.text

\* What was read from the file or written to it was in it.
ReadIsStored ==
  /\ disk \in onDisk
  /\ load.state = "read" => load.text \in onDisk
  /\ \A r \in reloads \cup discards : r.done => r.text \in onDisk
  /\ \A s \in saves : s.state = "written" => s.text \in onDisk

\* A diff leads from a text that may be replaced to one of the file.
DiffIsStored == \A d \in diffs : d.old \in Stored /\ d.new \in onDisk

\* The version of the file stands for a text that may be replaced, that of the model
\* for one of the file, those of the editors for texts that may be shown as saved.
Stands(P, v, S) == \A p \in P : p.version = v => p.text \in S

BaseIsStored == Stands(Pairs, fileVersion, Stored) /\ Stands(Pairs, base, onDisk)

ViewIsStored == \A e \in views : Stands(Pairs, viewBase[e], Shown)

IInv ==
  /\ TypeOK /\ OneText /\ Past /\ LoadedFirst /\ TopShown
  /\ ReadIsStored /\ DiffIsStored /\ BaseIsStored /\ ViewIsStored

-----------------------------------------------------------------------------
\* The buffer.

Buffers ==
  {b \in [version : Nat, text : Texts, undo : Seq(Undoable), at : Nat, bottom : Undoable] :
     b.at <= Len(b.undo)}

LEMMA ItemType ==
  ASSUME NEW v \in Nat, NEW t \in Texts
  PROVE  Item(v, t) \in Undoable /\ Item(v, t).version = v /\ Item(v, t).text = t
  BY DEF Item, Undoable

LEMMA UndoableItem == ASSUME NEW p \in Undoable PROVE p = Item(p.version, p.text)
  BY DEF Item, Undoable

LEMMA BuffersAreTyped == BufferTypes <=> buffer \in Buffers
  BY DEF BufferTypes, Buffers

\* What a buffer holds when its text was replaced.
LEMMA RefreshedIs ==
  ASSUME NEW v \in Nat, NEW t \in Texts
  PROVE  /\ Refreshed(v, t) \in Buffers
         /\ Refreshed(v, t).version = v /\ Refreshed(v, t).text = t
         /\ Items(Refreshed(v, t)) = {Item(v, t)} /\ TopOf(Refreshed(v, t)) = Item(v, t)
<1>1. Item(v, t) \in Undoable
  BY ItemType
<1>2. <<>> \in Seq(Undoable) /\ Len(<<>>) = 0 /\ DOMAIN <<>> = {}
  OBVIOUS
<1>3. Refreshed(v, t) \in Buffers
  BY <1>1, <1>2 DEF Refreshed, Buffers
<1>4. QED
  BY <1>2, <1>3 DEF Refreshed, Items, TopOf

\* A new item goes on top of those that were not undone; the oldest may go.
LEMMA PushedIs ==
  ASSUME buffer \in Buffers, NEW item \in Undoable
  PROVE  /\ Pushed(item) \in Buffers
         /\ Pushed(item).version = item.version /\ Pushed(item).text = item.text
         /\ Items(Pushed(item)) \subseteq Items(buffer) \cup {item}
         /\ TopOf(Pushed(item)) = item
<1> DEFINE kept == SubSeq(buffer.undo, 1, buffer.at)
           full == Len(kept) = MaxUndo
           below == IF full THEN Tail(kept) ELSE kept
           bottom == IF full THEN Head(kept) ELSE buffer.bottom
<1>1. /\ buffer.undo \in Seq(Undoable) /\ buffer.at \in Nat /\ buffer.at <= Len(buffer.undo)
      /\ buffer.bottom \in Undoable /\ MaxUndo \in Nat /\ MaxUndo > 0
  BY FileBufferAssumption DEF Buffers, FileBufferAssumption
<1>2. /\ kept \in Seq(Undoable) /\ Len(kept) = buffer.at
      /\ \A i \in 1..Len(kept) : i \in DOMAIN buffer.undo /\ kept[i] = buffer.undo[i]
  BY <1>1
<1> HIDE DEF kept
<1>3. /\ below \in Seq(Undoable) /\ bottom \in Undoable
      /\ \A i \in 1..Len(below) : \E j \in DOMAIN buffer.undo : below[i] = buffer.undo[j]
      /\ bottom \in Items(buffer)
  <2>1. CASE full
    <3>0. Len(kept) > 0 /\ kept # <<>> /\ 1 \in 1..Len(kept)
      BY <2>1, <1>1, <1>2
    <3>1. Tail(kept) \in Seq(Undoable) /\ Head(kept) = buffer.undo[1] /\ 1 \in DOMAIN buffer.undo
      BY <3>0, <1>2
    <3>2. /\ Len(Tail(kept)) = Len(kept) - 1
          /\ \A i \in 1..Len(Tail(kept)) : i + 1 \in 1..Len(kept) /\ Tail(kept)[i] = kept[i + 1]
      BY <3>0, <1>2
    <3>3. QED
      BY <2>1, <3>1, <3>2, <1>1, <1>2 DEF Items
  <2>2. CASE ~full
    BY <2>2, <1>1, <1>2 DEF Items
  <2>3. QED
    BY <2>1, <2>2
<1> HIDE DEF full, below, bottom
<1> DEFINE undo == Append(below, item)
<1>4. /\ undo \in Seq(Undoable) /\ Len(undo) = Len(below) + 1 /\ Len(below) + 1 \in Nat
      /\ DOMAIN undo = 1..Len(below) + 1 /\ undo[Len(below) + 1] = item
      /\ \A i \in 1..Len(below) : undo[i] = below[i]
  BY <1>3
<1>5. Pushed(item) = [version |-> item.version, text |-> item.text, undo |-> undo,
                      at |-> Len(below) + 1, bottom |-> bottom]
  BY DEF Pushed, kept, full, below, bottom
<1> HIDE DEF undo
<1>6. item.version \in Nat /\ item.text \in Texts
  BY DEF Undoable
<1>7. Pushed(item) \in Buffers
  BY <1>3, <1>4, <1>5, <1>6 DEF Buffers
<1>8. TopOf(Pushed(item)) = item
  BY <1>3, <1>4, <1>5 DEF TopOf
<1>9. \A i \in DOMAIN undo : undo[i] = item \/ undo[i] \in Items(buffer)
  <2> SUFFICES ASSUME NEW i \in DOMAIN undo PROVE undo[i] = item \/ undo[i] \in Items(buffer)
    OBVIOUS
  <2>1. i = Len(below) + 1 \/ i \in 1..Len(below)
    BY <1>3, <1>4
  <2>2. QED
    BY <2>1, <1>3, <1>4 DEF Items
<1>10. Items(Pushed(item)) \subseteq Items(buffer) \cup {item}
  BY <1>3, <1>5, <1>9 DEF Items
<1>11. QED
  BY <1>5, <1>7, <1>8, <1>10

\* More typing changes the last item.
LEMMA MergedIs ==
  ASSUME buffer \in Buffers, NEW item \in Undoable,
         buffer.at > 0, buffer.at = Len(buffer.undo)
  PROVE  /\ Merged(item) \in Buffers
         /\ Merged(item).version = item.version /\ Merged(item).text = item.text
         /\ Items(Merged(item)) \subseteq Items(buffer) \cup {item}
         /\ TopOf(Merged(item)) = item
<1> DEFINE undo == [buffer.undo EXCEPT ![buffer.at] = item]
<1>1. buffer.undo \in Seq(Undoable) /\ buffer.at \in DOMAIN buffer.undo
  BY DEF Buffers
<1>2. /\ undo \in Seq(Undoable) /\ Len(undo) = Len(buffer.undo)
      /\ DOMAIN undo = DOMAIN buffer.undo /\ undo[buffer.at] = item
      /\ \A i \in DOMAIN undo : undo[i] = item \/ undo[i] = buffer.undo[i]
  BY <1>1
<1>3. /\ Merged(item).version = item.version /\ Merged(item).text = item.text
      /\ Merged(item).undo = undo
      /\ Merged(item).at = buffer.at /\ Merged(item).bottom = buffer.bottom
  BY DEF Merged, Buffers
<1>4. item.version \in Nat /\ item.text \in Texts
  BY DEF Undoable
<1>5. Merged(item) \in Buffers
  <2>1. Merged(item) = [[[buffer EXCEPT !.version = item.version] EXCEPT !.text = item.text]
                          EXCEPT !.undo = undo]
    BY DEF Merged, Buffers
  <2> HIDE DEF undo
  <2>2. QED
    BY <2>1, <1>2, <1>4 DEF Buffers
<1> HIDE DEF undo
<1>6. TopOf(Merged(item)) = item
  BY <1>2, <1>3 DEF TopOf
<1>7. Items(Merged(item)) \subseteq Items(buffer) \cup {item}
  BY <1>2, <1>3 DEF Items
<1>8. QED
  BY <1>3, <1>5, <1>6, <1>7

\* All a buffer holds is typed.
LEMMA ItemsAreTyped == ASSUME buffer \in Buffers PROVE Items(buffer) \subseteq Undoable
<1>1. buffer.bottom \in Undoable /\ buffer.undo \in Seq(Undoable)
  BY DEF Buffers
<1>2. \A i \in DOMAIN buffer.undo : buffer.undo[i] \in Undoable
  BY <1>1
<1>3. QED
  BY <1>1, <1>2 DEF Items

\* Another version for the same text; an empty undo stack takes it too.
LEMMA WithVersionIs ==
  ASSUME buffer \in Buffers, NEW v \in Nat
  PROVE  /\ WithVersion(v) \in Buffers
         /\ WithVersion(v).version = v /\ WithVersion(v).text = buffer.text
         /\ Items(WithVersion(v)) \subseteq Items(buffer) \cup {Item(v, buffer.text)}
         /\ TopOf(WithVersion(v)) \in {TopOf(buffer), Item(v, buffer.text)}
<1> DEFINE bottom == IF buffer.undo = <<>> THEN Item(v, buffer.text) ELSE buffer.bottom
<1>1. buffer.text \in Texts /\ buffer.bottom \in Undoable
  BY DEF Buffers
<1>2. bottom \in Undoable /\ bottom \in {buffer.bottom, Item(v, buffer.text)}
  BY <1>1, ItemType
<1>3. WithVersion(v) = [buffer EXCEPT !.version = v, !.bottom = bottom]
  BY DEF WithVersion
<1>4. /\ WithVersion(v).version = v /\ WithVersion(v).text = buffer.text
      /\ WithVersion(v).undo = buffer.undo /\ WithVersion(v).at = buffer.at
      /\ WithVersion(v).bottom = bottom
  BY <1>3 DEF Buffers
<1>5. WithVersion(v) \in Buffers
  <2> HIDE DEF bottom
  <2>1. QED
    BY <1>2, <1>3 DEF Buffers
<1>6. Items(WithVersion(v)) \subseteq Items(buffer) \cup {Item(v, buffer.text)}
  <2> HIDE DEF bottom
  <2>1. QED
    BY <1>2, <1>4 DEF Items
<1>7. TopOf(WithVersion(v)) \in {TopOf(buffer), Item(v, buffer.text)}
  <2> HIDE DEF bottom
  <2>1. QED
    BY <1>2, <1>4 DEF TopOf
<1>8. QED
  BY <1>4, <1>5, <1>6, <1>7

\* Undo and redo show the item below or above.
LEMMA UndoIs ==
  ASSUME buffer \in Buffers, clock \in Nat, Undo
  PROVE  \E item \in Items(buffer) :
           /\ buffer' \in Buffers /\ clock' = clock + 1
           /\ buffer'.version = clock + 1 /\ buffer'.text = item.text
           /\ Items(buffer') = Items(buffer) /\ TopOf(buffer') = item
<1>1. /\ buffer.undo \in Seq(Undoable) /\ buffer.at \in Nat /\ buffer.at <= Len(buffer.undo)
      /\ buffer.bottom \in Undoable
  BY DEF Buffers
<1>2. ASSUME NEW k \in Nat, k <= Len(buffer.undo), NEW item \in Items(buffer),
             item = (IF k = 0 THEN buffer.bottom ELSE buffer.undo[k]),
             buffer' = [buffer EXCEPT !.version = clock + 1, !.text = item.text, !.at = k]
      PROVE  /\ buffer' \in Buffers
             /\ buffer'.version = clock + 1 /\ buffer'.text = item.text
             /\ Items(buffer') = Items(buffer) /\ TopOf(buffer') = item
  <2>1. /\ buffer'.version = clock + 1 /\ buffer'.text = item.text /\ buffer'.at = k
        /\ buffer'.undo = buffer.undo /\ buffer'.bottom = buffer.bottom
    BY <1>2 DEF Buffers
  <2>2. item.text \in Texts /\ clock + 1 \in Nat
    <3>1. item \in Undoable
      BY ItemsAreTyped
    <3>2. QED
      BY <3>1 DEF Undoable
  <2>3. buffer' \in Buffers
    <3>1. buffer' \in [version : Nat, text : Texts, undo : Seq(Undoable), at : Nat,
                       bottom : Undoable]
      BY <1>2, <2>2 DEF Buffers
    <3>2. QED
      BY <1>2, <2>1, <3>1 DEF Buffers
  <2>4. QED
    BY <1>2, <2>1, <2>3 DEF Items, TopOf
<1>3. CASE /\ buffer.at > 0
           /\ buffer' = [buffer EXCEPT !.version = NewVersion,
                           !.text = IF buffer.at = 1 THEN buffer.bottom.text
                                    ELSE buffer.undo[buffer.at - 1].text,
                           !.at = @ - 1]
  <2> DEFINE k == buffer.at - 1
             item == IF k = 0 THEN buffer.bottom ELSE buffer.undo[k]
  <2>1. k \in Nat /\ k <= Len(buffer.undo) /\ (k # 0 => k \in DOMAIN buffer.undo)
    BY <1>1, <1>3
  <2>2. item \in Items(buffer)
    BY <2>1 DEF Items
  <2>3. item.text = IF buffer.at = 1 THEN buffer.bottom.text ELSE buffer.undo[buffer.at - 1].text
    BY <1>1
  <2>4. buffer' = [buffer EXCEPT !.version = clock + 1, !.text = item.text, !.at = k]
    BY <1>1, <1>3, <2>3 DEF NewVersion
  <2> HIDE DEF k
  <2>5. QED
    BY <1>2, <2>1, <2>2, <2>4 DEF Undo, NewVersion
<1>4. CASE /\ buffer.at < Len(buffer.undo)
           /\ buffer' = [buffer EXCEPT !.version = NewVersion,
                           !.text = buffer.undo[buffer.at + 1].text,
                           !.at = @ + 1]
  <2> DEFINE k == buffer.at + 1
             item == IF k = 0 THEN buffer.bottom ELSE buffer.undo[k]
  <2>1. k \in Nat /\ k <= Len(buffer.undo) /\ k # 0 /\ k \in DOMAIN buffer.undo
    BY <1>1, <1>4
  <2>2. item \in Items(buffer)
    BY <2>1 DEF Items
  <2>3. item.text = buffer.undo[buffer.at + 1].text
    BY <2>1
  <2>4. buffer' = [buffer EXCEPT !.version = clock + 1, !.text = item.text, !.at = k]
    BY <1>1, <1>4, <2>3 DEF NewVersion
  <2> HIDE DEF k
  <2>5. QED
    BY <1>2, <2>1, <2>2, <2>4 DEF Undo, NewVersion
<1>5. QED
  BY <1>3, <1>4 DEF Undo

\* A version that matches the buffer stands for its text.
LEMMA MatchIsPair ==
  ASSUME buffer \in Buffers, TopShown, NEW v, VersionMatch(v)
  PROVE  Item(v, buffer.text) \in Pairs
<1>1. Top \in Items(buffer) /\ Top \in Undoable
  BY DEF Top, Items, Buffers
<1>2. Top = Item(Top.version, Top.text)
  BY <1>1, UndoableItem
<1>3. QED
  BY <1>1, <1>2 DEF VersionMatch, TopShown, Pairs

-----------------------------------------------------------------------------
\* What a text read from the file does to the buffer.

Told(v) == [e \in Editors |-> IF e \in views THEN v ELSE viewBase[e]]

Taken(text, v) ==
  /\ buffer' = Refreshed(v, text) /\ base' = v /\ viewBase' = Told(v)
  /\ UNCHANGED <<diffs, pending>> /\ owed' \in BOOLEAN /\ refusal' \in BOOLEAN

Diffed(text, v) ==
  /\ \E others \in SUBSET diffs, b \in Nat :
       /\ Item(b, buffer.text) \in Pairs
       /\ diffs' = others \cup {[version |-> v, base |-> b, old |-> buffer.text,
                                new |-> text, done |-> FALSE]}
  /\ pending' = v /\ owed' \in BOOLEAN
  /\ UNCHANGED <<base, buffer, viewBase, refusal>>

Refused ==
  /\ diffs' \in SUBSET diffs /\ pending' = None
  /\ owed' \in BOOLEAN /\ refusal' \in BOOLEAN
  /\ UNCHANGED <<base, buffer, viewBase>>

LEMMA PopulateIs ==
  ASSUME NEW text, NEW b \in Nat, NEW v, Populate(text, b, v), Item(b, buffer.text) \in Pairs
  PROVE  Taken(text, v) \/ Diffed(text, v)
<1>1. CASE incremental
  <2>1. \A others \in WithoutPending : others \in SUBSET diffs
    BY DEF WithoutPending
  <2>2. QED
    BY <1>1, <2>1 DEF Populate, Diffed
<1>2. CASE ~incremental
  BY <1>2 DEF Populate, Answer, Taken, Told
<1>3. QED
  BY <1>1, <1>2

\* A reload replaces only what the version of the file or of the model stands for.
LEMMA FileUpdatedIs ==
  ASSUME buffer \in Buffers, TopShown, NEW text, NEW b \in Nat, NEW v, FileUpdated(text, b, v)
  PROVE  \/ /\ Taken(text, v) \/ Diffed(text, v)
            /\ VersionMatch(b) \/ VersionMatch(base)
         \/ Refused
<1>1. buffer.version \in Nat /\ VersionMatch(buffer.version)
  BY DEF Buffers, VersionMatch
<1>2. CASE VersionMatch(b) /\ Populate(text, b, v)
  BY <1>2, MatchIsPair, PopulateIs
<1>3. CASE VersionMatch(base) /\ Populate(text, buffer.version, v)
  BY <1>1, <1>3, MatchIsPair, PopulateIs
<1>4. CASE diffs' \in WithoutPending /\ pending' = None /\ Answer(FALSE, b) /\ UNCHANGED <<base, buffer>>
  BY <1>4 DEF Answer, Refused, WithoutPending
<1>5. QED
  BY <1>2, <1>3, <1>4 DEF FileUpdated

-----------------------------------------------------------------------------
\* What the steps do, given the invariant.

LEMMA DiffFits == ASSUME IInv PROVE DiffFitsBuffer
<1> SUFFICES ASSUME NEW d \in diffs, VersionMatch(d.base) PROVE buffer.text = d.old
  BY DEF DiffFitsBuffer
<1>1. Item(d.base, buffer.text) \in Pairs
  BY MatchIsPair, BuffersAreTyped DEF IInv, TypeOK
<1>2. Item(d.base, d.old) \in Pairs
  BY DEF Pairs, DiffPairs
<1>3. QED
  BY <1>1, <1>2 DEF IInv, OneText, Item

\* A text that the file's or the model's version matches is stored.
LEMMA MatchIsStored ==
  ASSUME IInv, VersionMatch(fileVersion) \/ VersionMatch(base)
  PROVE  buffer.text \in Stored
<1>1. \E v \in {fileVersion, base} : Item(v, buffer.text) \in Pairs
  BY MatchIsPair, BuffersAreTyped DEF IInv, TypeOK
<1>2. QED
  BY <1>1 DEF IInv, BaseIsStored, Stands, Item, Stored

\* A text that was read arrives: the callbacks of a reload and of a discard.
Arrival(text) ==
  /\ text \in Texts /\ text \in onDisk
  /\ fileVersion' = clock + 1 /\ clock' = clock + 1 /\ clock + 1 \in Nat
  /\ onDisk' = onDisk /\ waived' \in {waived, waived \cup {buffer.text}}
  /\ UNCHANGED <<incremental, disk, watch, changed, load, saves, views, adopted, renamed,
                 missed, crossed, left, deeds>>
  /\ reloads' \subseteq reloads /\ discards' \subseteq discards
  /\ \/ (Taken(text, clock + 1) \/ Diffed(text, clock + 1)) /\ buffer.text \in Stored'
     \/ Refused

LEMMA ReloadDoneIs ==
  ASSUME IInv, NEW r \in reloads, ReloadDone(r)
  PROVE  Arrival(r.text)
<1>1. r.text \in Texts /\ r.text \in onDisk
  BY DEF IInv, TypeOK, TaskTypes, ReadTask, ReadIsStored, ReloadDone
<1>2. clock + 1 \in Nat /\ fileVersion \in Nat
  BY DEF IInv, TypeOK, VersionTypes
<1>3. FileUpdated(r.text, fileVersion, clock + 1)
  BY DEF ReloadDone, NewVersion
<1>4. \/ /\ Taken(r.text, clock + 1) \/ Diffed(r.text, clock + 1)
         /\ VersionMatch(fileVersion) \/ VersionMatch(base)
      \/ Refused
  BY <1>2, <1>3, FileUpdatedIs, BuffersAreTyped DEF IInv, TypeOK
<1>5. Stored' = Stored
  BY DEF ReloadDone, Stored, keptTexts
<1>6. \/ (Taken(r.text, clock + 1) \/ Diffed(r.text, clock + 1)) /\ buffer.text \in Stored'
      \/ Refused
  BY <1>4, <1>5, MatchIsStored
<1>7. QED
  BY <1>1, <1>2, <1>6 DEF Arrival, ReloadDone, NewVersion, keptTexts

LEMMA DiscardDoneIs ==
  ASSUME IInv, NEW r \in discards, DiscardDone(r)
  PROVE  Arrival(r.text)
<1>1. r.text \in Texts /\ r.text \in onDisk
  BY DEF IInv, TypeOK, TaskTypes, ReadTask, ReadIsStored, DiscardDone
<1>2. clock + 1 \in Nat /\ buffer.version \in Nat
  BY BuffersAreTyped DEF IInv, TypeOK, VersionTypes, Buffers
<1>3. Populate(r.text, buffer.version, clock + 1)
  BY DEF DiscardDone, NewVersion
<1>4. Item(buffer.version, buffer.text) \in Pairs
  BY DEF Pairs
<1>5. Taken(r.text, clock + 1) \/ Diffed(r.text, clock + 1)
  BY <1>2, <1>3, <1>4, PopulateIs
<1>6. buffer.text \in Stored'
  BY DEF DiscardDone, Stored
<1>7. QED
  BY <1>1, <1>2, <1>5, <1>6 DEF Arrival, DiscardDone, NewVersion

\* The file is loaded: nothing was, and nothing was shown before.
LEMMA LoadDoneIs ==
  ASSUME IInv, LoadDone
  PROVE  /\ clock + 1 \in Nat /\ clock' = clock + 1 /\ load.text \in Texts
         /\ load.text \in onDisk /\ ~Loaded
         /\ fileVersion' = clock + 1 /\ base' = clock + 1
         /\ buffer' = Refreshed(clock + 1, load.text) /\ viewBase' = Told(clock + 1)
  BY DEF IInv, TypeOK, VersionTypes, TaskTypes, ReadIsStored, LoadedFirst, LoadDone,
    NewVersion, Loaded, Told

\* A diff is applied to the text it was made for, or not at all.
LEMMA ApplyDiffIs ==
  ASSUME IInv, NEW d \in diffs, ApplyDiff(d)
  PROVE  \/ /\ base' = d.version /\ viewBase' = Told(d.version)
            /\ buffer' \in Buffers /\ buffer'.version = d.version /\ buffer'.text = d.new
            /\ Items(buffer') \subseteq Items(buffer) \cup {Item(d.version, d.new)}
            /\ TopOf(buffer').text = d.new /\ buffer.text = d.old
         \/ UNCHANGED <<base, buffer, viewBase>>
<1>1. d.version \in Nat /\ d.new \in Texts /\ buffer \in Buffers
  BY BuffersAreTyped DEF IInv, TypeOK, TaskTypes
<1>2. CASE ~VersionMatch(d.base)
  BY <1>2 DEF ApplyDiff, Answer
<1>3. CASE VersionMatch(d.base)
  <2>1. buffer.text = d.old
    BY <1>3, DiffFits DEF DiffFitsBuffer
  <2>2. base' = d.version /\ viewBase' = Told(d.version)
    BY <1>3 DEF ApplyDiff, Answer, Told
  <2>3. CASE d.old = d.new
    <3>1. buffer' = WithVersion(d.version)
      BY <1>3, <2>3 DEF ApplyDiff
    <3>2. TopOf(buffer).text = buffer.text
      BY DEF IInv, TopShown, Top, TopOf
    <3>3. Item(d.version, d.new).text = d.new
      BY DEF Item
    <3>4. QED
      BY <1>1, <2>1, <2>2, <2>3, <3>1, <3>2, <3>3, WithVersionIs
  <2>4. CASE d.old # d.new
    <3>1. buffer' = Refreshed(d.version, d.new)
      BY <1>3, <2>1, <2>4 DEF ApplyDiff
    <3>2. Item(d.version, d.new).text = d.new
      BY DEF Item
    <3>3. QED
      BY <1>1, <2>1, <2>2, <3>1, <3>2, RefreshedIs
  <2>5. QED
    BY <2>3, <2>4
<1>4. QED
  BY <1>2, <1>3

\* An edit makes a new item.
LEMMA EditIs ==
  ASSUME IInv, Edit
  PROVE  \E item \in Undoable :
           /\ item = Item(clock + 1, clock + 1) /\ clock + 1 \in Nat /\ clock' = clock + 1
           /\ buffer' \in Buffers /\ buffer'.version = item.version /\ buffer'.text = item.text
           /\ Items(buffer') \subseteq Items(buffer) \cup {item} /\ TopOf(buffer') = item
<1> DEFINE item == Item(clock + 1, clock + 1)
<1>1. clock + 1 \in Nat /\ clock + 1 \in Texts /\ buffer \in Buffers
  BY BuffersAreTyped DEF IInv, TypeOK, VersionTypes, Texts
<1>2. item \in Undoable
  BY <1>1, ItemType
<1>3. \/ buffer' = Pushed(item)
      \/ buffer.at > 0 /\ buffer.at = Len(buffer.undo) /\ buffer' = Merged(item)
  BY DEF Edit, NewVersion, NewText
<1>4. clock' = clock + 1
  BY DEF Edit
<1> HIDE DEF item
<1>5. /\ buffer' \in Buffers /\ buffer'.version = item.version /\ buffer'.text = item.text
      /\ Items(buffer') \subseteq Items(buffer) \cup {item} /\ TopOf(buffer') = item
  BY <1>1, <1>2, <1>3, PushedIs, MergedIs
<1>6. QED
  BY <1>1, <1>2, <1>4, <1>5 DEF item

-----------------------------------------------------------------------------
\* Types.

\* Whatever the text of the buffer becomes, the undo stack shows it.
LEMMA ArrivalBuffer ==
  ASSUME IInv, NEW text, Arrival(text)
  PROVE  buffer' \in Buffers /\ TopOf(buffer').text = buffer'.text
<1>1. text \in Texts /\ clock + 1 \in Nat
  BY DEF Arrival
<1>2. CASE Taken(text, clock + 1)
  BY <1>1, <1>2, RefreshedIs DEF Taken, Item
<1>3. CASE UNCHANGED buffer
  BY <1>3, BuffersAreTyped DEF IInv, TypeOK, TopShown, Top, TopOf
<1>4. QED
  BY <1>2, <1>3 DEF Arrival, Diffed, Refused

LEMMA NextBuffer == IInv /\ [Next]_vars => (buffer' \in Buffers /\ TopOf(buffer').text = buffer'.text)
<1> SUFFICES ASSUME IInv, [Next]_vars PROVE (buffer' \in Buffers /\ TopOf(buffer').text = buffer'.text)
  OBVIOUS
<1>1. CASE Edit
  BY <1>1, EditIs
<1>2. CASE Undo
  BY <1>2, UndoIs, BuffersAreTyped DEF IInv, TypeOK, VersionTypes
<1>3. CASE LoadDone
  <2>1. clock + 1 \in Nat /\ load.text \in Texts /\ buffer' = Refreshed(clock + 1, load.text)
    BY <1>3, LoadDoneIs
  <2>2. QED
    BY <2>1, RefreshedIs DEF Item
<1>4. ASSUME NEW r \in reloads, ReloadDone(r) PROVE (buffer' \in Buffers /\ TopOf(buffer').text = buffer'.text)
  BY <1>4, ReloadDoneIs, ArrivalBuffer
<1>5. ASSUME NEW r \in discards, DiscardDone(r) PROVE (buffer' \in Buffers /\ TopOf(buffer').text = buffer'.text)
  BY <1>5, DiscardDoneIs, ArrivalBuffer
<1>6. ASSUME NEW d \in diffs, ApplyDiff(d) PROVE (buffer' \in Buffers /\ TopOf(buffer').text = buffer'.text)
  BY <1>6, ApplyDiffIs, BuffersAreTyped DEF IInv, TypeOK, TopShown, Top, TopOf
<1>7. ASSUME
      \/ UNCHANGED vars
      \/ WatchStarts
      \/ Rename
      \/ (\E e \in Editors : Save(e))
      \/ (\E e \in Editors : Discard(e))
      \/ (\E e \in Editors : Join(e))
      \/ OutsideWrite
      \/ LoadRead
      \/ Watch
      \/ (\E r \in reloads : ReloadRead(r))
      \/ (\E r \in discards : DiscardRead(r))
      \/ (\E s \in saves : SaveWrites(s))
      \/ (\E s \in saves : SaveDone(s))
      \/ (\E d \in diffs : DiffComputed(d))
      PROVE UNCHANGED buffer
  BY <1>7 DEF WatchStarts, Rename, Save, Discard, Join, OutsideWrite, LoadRead, Watch,
    ReloadRead, DiscardRead, SaveWrites, SaveDone, DiffComputed, modelVars, taskVars,
    viewVars, history, vars
<1>8. ASSUME UNCHANGED buffer PROVE (buffer' \in Buffers /\ TopOf(buffer').text = buffer'.text)
  BY <1>8, BuffersAreTyped DEF IInv, TypeOK, TopShown, Top, TopOf
<1>9. QED
  BY <1>1, <1>2, <1>3, <1>4, <1>5, <1>6, <1>7, <1>8 DEF Next, UserActs, Tasks

LEMMA ToldType ==
  ASSUME IInv, NEW v \in Nat
  PROVE  Told(v) \in [Editors -> Nat]
  BY DEF Told, IInv, TypeOK, VersionTypes

LEMMA ArrivalVersions ==
  ASSUME IInv, NEW text, Arrival(text)
  PROVE  VersionTypes'
<1>1. fileVersion' \in Nat /\ clock' \in Nat /\ views' \in SUBSET Editors
  BY DEF Arrival, IInv, TypeOK, VersionTypes
<1>2. base' \in Nat /\ pending' \in Nat
  BY DEF Arrival, Taken, Diffed, Refused, None, IInv, TypeOK, VersionTypes
<1>3. viewBase' \in [Editors -> Nat]
  BY ToldType DEF Arrival, Taken, Diffed, Refused, IInv, TypeOK, VersionTypes
<1>4. QED
  BY <1>1, <1>2, <1>3 DEF VersionTypes

LEMMA NextVersionTypes == IInv /\ [Next]_vars => VersionTypes'
<1> SUFFICES ASSUME IInv, [Next]_vars PROVE VersionTypes'
  OBVIOUS
<1>1. CASE Edit
  BY <1>1 DEF Edit, IInv, TypeOK, VersionTypes, NewVersion, modelVars, viewVars
<1>2. CASE Undo
  BY <1>2 DEF Undo, IInv, TypeOK, VersionTypes, NewVersion, modelVars, viewVars
<1>3. CASE OutsideWrite
  BY <1>3 DEF OutsideWrite, IInv, TypeOK, VersionTypes, NewVersion, modelVars, viewVars
<1>4. ASSUME NEW e \in Editors, Save(e) PROVE VersionTypes'
  <2>1. buffer.version \in Nat
    BY BuffersAreTyped DEF IInv, TypeOK, Buffers
  <2>2. QED
    BY <1>4, <2>1 DEF Save, IInv, TypeOK, VersionTypes, None, Loaded, modelVars, viewVars
<1>5. ASSUME NEW e \in Editors, Discard(e) PROVE VersionTypes'
  <2>1. buffer.version \in Nat
    BY BuffersAreTyped DEF IInv, TypeOK, Buffers
  <2>2. QED
    BY <1>5, <2>1 DEF Discard, IInv, TypeOK, VersionTypes, None, Loaded, modelVars,
      viewVars
<1>6. CASE Rename
  <2>1. buffer.version \in Nat
    BY BuffersAreTyped DEF IInv, TypeOK, Buffers
  <2>2. QED
    BY <1>6, <2>1 DEF Rename, IInv, TypeOK, VersionTypes, None, Loaded, modelVars,
      viewVars
<1>7. ASSUME NEW e \in Editors, Join(e) PROVE VersionTypes'
  <2>1. buffer.version \in Nat
    BY BuffersAreTyped DEF IInv, TypeOK, Buffers
  <2>2. QED
    BY <1>7, <2>1 DEF Join, IInv, TypeOK, VersionTypes, None, Loaded, modelVars
<1>8. CASE LoadDone
  BY <1>8, LoadDoneIs, ToldType DEF LoadDone, IInv, TypeOK, VersionTypes
<1>9. ASSUME NEW r \in reloads, ReloadDone(r) PROVE VersionTypes'
  BY <1>9, ReloadDoneIs, ArrivalVersions
<1>10. ASSUME NEW r \in discards, DiscardDone(r) PROVE VersionTypes'
  BY <1>10, DiscardDoneIs, ArrivalVersions
<1>11. ASSUME NEW s \in saves, SaveDone(s) PROVE VersionTypes'
  <2>1. s.version \in Nat
    BY DEF IInv, TypeOK, TaskTypes
  <2>2. viewBase' \in [Editors -> Nat]
    BY <1>11 DEF SaveDone, IInv, TypeOK, VersionTypes
  <2>3. QED
    BY <1>11, <2>1, <2>2 DEF SaveDone, IInv, TypeOK, VersionTypes
<1>12. ASSUME NEW d \in diffs, ApplyDiff(d) PROVE VersionTypes'
  <2>1. d.version \in Nat
    BY DEF IInv, TypeOK, TaskTypes
  <2>2. base' \in Nat /\ viewBase' \in [Editors -> Nat]
    BY <1>12, <2>1, ApplyDiffIs, ToldType DEF IInv, TypeOK, VersionTypes
  <2>3. QED
    BY <1>12, <2>2 DEF ApplyDiff, IInv, TypeOK, VersionTypes, None
<1>13. ASSUME
      \/ UNCHANGED vars
      \/ WatchStarts
      \/ LoadRead
      \/ Watch
      \/ (\E r \in reloads : ReloadRead(r))
      \/ (\E r \in discards : DiscardRead(r))
      \/ (\E s \in saves : SaveWrites(s))
      \/ (\E d \in diffs : DiffComputed(d))
      PROVE UNCHANGED <<fileVersion, base, pending, viewVars, clock>>
  BY <1>13 DEF WatchStarts, LoadRead, Watch, ReloadRead, DiscardRead, SaveWrites,
    DiffComputed, modelVars, taskVars, viewVars, history, vars
<1>14. ASSUME UNCHANGED <<fileVersion, base, pending, viewVars, clock>> PROVE VersionTypes'
  BY <1>14 DEF IInv, TypeOK, VersionTypes, modelVars, viewVars
<1>15. QED
  BY <1>1, <1>2, <1>3, <1>4, <1>5, <1>6, <1>7, <1>8, <1>9, <1>10, <1>11, <1>12, <1>13,
    <1>14 DEF Next, UserActs, Tasks

LEMMA ArrivalTasks ==
  ASSUME IInv, NEW text, Arrival(text)
  PROVE  TaskTypes'
<1>1. /\ load' \in [state : {"reading", "read", "done"}, text : Texts]
      /\ reloads' \in SUBSET ReadTask /\ discards' \in SUBSET ReadTask
      /\ saves' \in SUBSET [version : Nat, text : Texts,
                            state : {"writing", "written", "failed"}]
  BY DEF Arrival, IInv, TypeOK, TaskTypes
<1>2. diffs' \in SUBSET [version : Nat, base : Nat, old : Texts, new : Texts, done : BOOLEAN]
  <2>1. clock + 1 \in Nat /\ text \in Texts /\ buffer.text \in Texts
    BY BuffersAreTyped DEF Arrival, IInv, TypeOK, Buffers
  <2>2. CASE Diffed(text, clock + 1)
    <3>1. PICK others \in SUBSET diffs, b \in Nat :
            diffs' = others \cup {[version |-> clock + 1, base |-> b, old |-> buffer.text,
                                   new |-> text, done |-> FALSE]}
      BY <2>2 DEF Diffed
    <3>2. [version |-> clock + 1, base |-> b, old |-> buffer.text, new |-> text, done |-> FALSE]
            \in [version : Nat, base : Nat, old : Texts, new : Texts, done : BOOLEAN]
      BY <2>1
    <3>3. QED
      BY <3>1, <3>2 DEF IInv, TypeOK, TaskTypes
  <2>3. CASE diffs' \in SUBSET diffs
    BY <2>3 DEF IInv, TypeOK, TaskTypes
  <2>4. QED
    BY <2>2, <2>3 DEF Arrival, Taken, Refused
<1>3. QED
  BY <1>1, <1>2 DEF TaskTypes

LEMMA NextTaskTypes == IInv /\ [Next]_vars => TaskTypes'
<1> SUFFICES ASSUME IInv, [Next]_vars PROVE TaskTypes'
  OBVIOUS
<1>1. CASE LoadRead
  <2>1. disk \in Texts
    BY DEF IInv, TypeOK, FileTypes
  <2>2. QED
    BY <1>1, <2>1 DEF LoadRead, IInv, TypeOK, TaskTypes, modelVars
<1>2. CASE LoadDone
  BY <1>2 DEF LoadDone, IInv, TypeOK, TaskTypes
<1>3. CASE Watch
  <2>1. \A i \in 1..MaxReads : [id |-> i, text |-> Empty, done |-> FALSE] \in ReadTask
    BY DEF ReadTask, Empty, Texts
  <2>2. QED
    BY <1>3, <2>1 DEF Watch, IInv, TypeOK, TaskTypes, modelVars
<1>4. ASSUME NEW e \in Editors, Discard(e) PROVE TaskTypes'
  <2>1. \A i \in 1..MaxReads : [id |-> i, text |-> Empty, done |-> FALSE] \in ReadTask
    BY DEF ReadTask, Empty, Texts
  <2>2. QED
    BY <1>4, <2>1 DEF Discard, IInv, TypeOK, TaskTypes, modelVars
<1>5. ASSUME NEW r \in reloads, ReloadRead(r) PROVE TaskTypes'
  <2>1. r \in ReadTask /\ disk \in Texts
    BY DEF IInv, TypeOK, TaskTypes, FileTypes
  <2>2. ReadBy(r) \in ReadTask
    BY <2>1 DEF ReadBy, ReadTask
  <2>3. QED
    BY <1>5, <2>2 DEF ReloadRead, IInv, TypeOK, TaskTypes, modelVars
<1>6. ASSUME NEW r \in discards, DiscardRead(r) PROVE TaskTypes'
  <2>1. r \in ReadTask /\ disk \in Texts
    BY DEF IInv, TypeOK, TaskTypes, FileTypes
  <2>2. ReadBy(r) \in ReadTask
    BY <2>1 DEF ReadBy, ReadTask
  <2>3. QED
    BY <1>6, <2>2 DEF DiscardRead, IInv, TypeOK, TaskTypes, modelVars
<1>7. ASSUME NEW r \in reloads, ReloadDone(r) PROVE TaskTypes'
  BY <1>7, ReloadDoneIs, ArrivalTasks
<1>8. ASSUME NEW r \in discards, DiscardDone(r) PROVE TaskTypes'
  BY <1>8, DiscardDoneIs, ArrivalTasks
<1>9. ASSUME NEW e \in Editors, Save(e) PROVE TaskTypes'
  <2>1. buffer.version \in Nat /\ buffer.text \in Texts
    BY BuffersAreTyped DEF IInv, TypeOK, Buffers
  <2>2. [version |-> buffer.version, text |-> buffer.text, state |-> "writing"]
          \in [version : Nat, text : Texts, state : {"writing", "written", "failed"}]
    BY <2>1
  <2>3. QED
    BY <1>9, <2>2 DEF Save, IInv, TypeOK, TaskTypes, modelVars
<1>10. CASE Rename
  BY <1>10 DEF Rename, IInv, TypeOK, TaskTypes
<1>11. ASSUME NEW s \in saves, SaveWrites(s) PROVE TaskTypes'
  <2>1. s \in [version : Nat, text : Texts, state : {"writing", "written", "failed"}]
    BY DEF IInv, TypeOK, TaskTypes
  <2>2. \A x \in {"written", "failed"} : [s EXCEPT !.state = x]
          \in [version : Nat, text : Texts, state : {"writing", "written", "failed"}]
    BY <2>1
  <2>3. QED
    BY <1>11, <2>2 DEF SaveWrites, IInv, TypeOK, TaskTypes, modelVars
<1>12. ASSUME NEW s \in saves, SaveDone(s) PROVE TaskTypes'
  BY <1>12 DEF SaveDone, IInv, TypeOK, TaskTypes
<1>13. ASSUME NEW d \in diffs, DiffComputed(d) PROVE TaskTypes'
  <2>1. d \in [version : Nat, base : Nat, old : Texts, new : Texts, done : BOOLEAN]
    BY DEF IInv, TypeOK, TaskTypes
  <2>2. [d EXCEPT !.done = TRUE]
          \in [version : Nat, base : Nat, old : Texts, new : Texts, done : BOOLEAN]
    BY <2>1
  <2>3. QED
    BY <1>13, <2>2 DEF DiffComputed, IInv, TypeOK, TaskTypes, taskVars
<1>14. ASSUME NEW d \in diffs, ApplyDiff(d) PROVE TaskTypes'
  BY <1>14 DEF ApplyDiff, IInv, TypeOK, TaskTypes, taskVars
<1>15. ASSUME
      \/ UNCHANGED vars
      \/ WatchStarts
      \/ Edit
      \/ Undo
      \/ (\E e \in Editors : Join(e))
      \/ OutsideWrite
      PROVE UNCHANGED <<taskVars, diffs>>
  BY <1>15 DEF WatchStarts, Edit, Undo, Join, OutsideWrite, modelVars, taskVars, viewVars,
    history, vars
<1>16. ASSUME UNCHANGED <<taskVars, diffs>> PROVE TaskTypes'
  BY <1>16 DEF IInv, TypeOK, TaskTypes, taskVars
<1>17. QED
  BY <1>1, <1>2, <1>3, <1>4, <1>5, <1>6, <1>7, <1>8, <1>9, <1>10, <1>11, <1>12, <1>13,
    <1>14, <1>15, <1>16 DEF Next, UserActs, Tasks

LEMMA SpendTypes ==
  ASSUME left \in [Deeds -> Nat], deeds \in Nat, NEW x \in Deeds, Spend(x)
  PROVE  left' \in [Deeds -> Nat] /\ deeds' \in Nat
<1>1. left[x] - 1 \in Nat
  BY DEF Spend
<1>2. QED
  BY <1>1 DEF Spend

LEMMA BusyIsBoolean == Busy \in BOOLEAN
  BY DEF Busy

LEMMA ArrivalFile ==
  ASSUME IInv, NEW text, Arrival(text)
  PROVE  FileTypes'
<1>1. buffer.text \in Texts
  BY BuffersAreTyped DEF IInv, TypeOK, Buffers
<1>2. owed' \in BOOLEAN /\ refusal' \in BOOLEAN
  BY DEF Arrival, Taken, Diffed, Refused, IInv, TypeOK, FileTypes
<1>3. UNCHANGED <<incremental, changed, disk, watch, onDisk, adopted, renamed, missed, crossed,
                  left, deeds>>
  BY DEF Arrival
<1>4. waived' \in SUBSET Texts
  BY <1>1 DEF Arrival, IInv, TypeOK, FileTypes
<1>5. QED
  BY <1>2, <1>3, <1>4 DEF IInv, TypeOK, FileTypes

LEMMA NextFileTypes == IInv /\ [Next]_vars => FileTypes'
<1> SUFFICES ASSUME IInv, [Next]_vars PROVE FileTypes'
  OBVIOUS
<1>1. CASE Edit
  <2>1. Spend("edit") /\ "edit" \in Deeds
    BY <1>1 DEF Edit, Deeds
  <2>2. left' \in [Deeds -> Nat] /\ deeds' \in Nat
    BY <2>1, SpendTypes DEF IInv, TypeOK, FileTypes
  <2>3. buffer.text \in Texts /\ clock + 1 \in Texts /\ \A s \in saves : s.text \in Texts
    BY BuffersAreTyped DEF IInv, TypeOK, Buffers, VersionTypes, TaskTypes, Texts
  <2>4. /\ incremental' \in BOOLEAN /\ changed' \in BOOLEAN /\ disk' \in Texts
        /\ onDisk' \in SUBSET Texts /\ waived' \in SUBSET Texts
        /\ adopted' \in SUBSET Texts /\ renamed' \in SUBSET Texts /\ watch' \in Watches
    BY <1>1, <2>3 DEF Edit, IInv, TypeOK, FileTypes, history, keptTexts, Loaded, NewText
  <2>5. /\ owed' \in BOOLEAN /\ refusal' \in BOOLEAN /\ crossed' \in BOOLEAN
        /\ missed' \in BOOLEAN
    BY <1>1, BusyIsBoolean DEF Edit, IInv, TypeOK, FileTypes, history, keptTexts
  <2>6. QED
    BY <2>2, <2>4, <2>5 DEF FileTypes
<1>2. CASE Undo
  <2>1. Spend("undo") /\ "undo" \in Deeds
    BY <1>2 DEF Undo, Deeds
  <2>2. left' \in [Deeds -> Nat] /\ deeds' \in Nat
    BY <2>1, SpendTypes DEF IInv, TypeOK, FileTypes
  <2>3. buffer.text \in Texts /\ clock + 1 \in Texts /\ \A s \in saves : s.text \in Texts
    BY BuffersAreTyped DEF IInv, TypeOK, Buffers, VersionTypes, TaskTypes, Texts
  <2>4. /\ incremental' \in BOOLEAN /\ changed' \in BOOLEAN /\ disk' \in Texts
        /\ onDisk' \in SUBSET Texts /\ waived' \in SUBSET Texts
        /\ adopted' \in SUBSET Texts /\ renamed' \in SUBSET Texts /\ watch' \in Watches
    BY <1>2, <2>3 DEF Undo, IInv, TypeOK, FileTypes, history, keptTexts, Loaded, NewText
  <2>5. /\ owed' \in BOOLEAN /\ refusal' \in BOOLEAN /\ crossed' \in BOOLEAN
        /\ missed' \in BOOLEAN
    BY <1>2, BusyIsBoolean DEF Undo, IInv, TypeOK, FileTypes, history, keptTexts
  <2>6. QED
    BY <2>2, <2>4, <2>5 DEF FileTypes
<1>3. CASE OutsideWrite
  <2>1. Spend("outside") /\ "outside" \in Deeds
    BY <1>3 DEF OutsideWrite, Deeds
  <2>2. left' \in [Deeds -> Nat] /\ deeds' \in Nat
    BY <2>1, SpendTypes DEF IInv, TypeOK, FileTypes
  <2>3. buffer.text \in Texts /\ clock + 1 \in Texts /\ \A s \in saves : s.text \in Texts
    BY BuffersAreTyped DEF IInv, TypeOK, Buffers, VersionTypes, TaskTypes, Texts
  <2>4. /\ incremental' \in BOOLEAN /\ changed' \in BOOLEAN /\ disk' \in Texts
        /\ onDisk' \in SUBSET Texts /\ waived' \in SUBSET Texts
        /\ adopted' \in SUBSET Texts /\ renamed' \in SUBSET Texts /\ watch' \in Watches
    BY <1>3, <2>3 DEF OutsideWrite, IInv, TypeOK, FileTypes, history, keptTexts, Loaded,
      NewText, Watched
  <2>5. /\ owed' \in BOOLEAN /\ refusal' \in BOOLEAN /\ crossed' \in BOOLEAN
        /\ missed' \in BOOLEAN
    BY <1>3, BusyIsBoolean DEF OutsideWrite, IInv, TypeOK, FileTypes, history, keptTexts,
      Watched
  <2>6. QED
    BY <2>2, <2>4, <2>5 DEF FileTypes
<1>4. ASSUME NEW e \in Editors, Save(e) PROVE FileTypes'
  <2>1. Spend("save") /\ "save" \in Deeds
    BY <1>4 DEF Save, Deeds
  <2>2. left' \in [Deeds -> Nat] /\ deeds' \in Nat
    BY <2>1, SpendTypes DEF IInv, TypeOK, FileTypes
  <2>3. buffer.text \in Texts /\ clock + 1 \in Texts /\ \A s \in saves : s.text \in Texts
    BY BuffersAreTyped DEF IInv, TypeOK, Buffers, VersionTypes, TaskTypes, Texts
  <2>4. /\ incremental' \in BOOLEAN /\ changed' \in BOOLEAN /\ disk' \in Texts
        /\ onDisk' \in SUBSET Texts /\ waived' \in SUBSET Texts
        /\ adopted' \in SUBSET Texts /\ renamed' \in SUBSET Texts /\ watch' \in Watches
    BY <1>4, <2>3 DEF Save, IInv, TypeOK, FileTypes, history, keptTexts, Loaded, NewText
  <2>5. /\ owed' \in BOOLEAN /\ refusal' \in BOOLEAN /\ crossed' \in BOOLEAN
        /\ missed' \in BOOLEAN
    BY <1>4, BusyIsBoolean DEF Save, IInv, TypeOK, FileTypes, history, keptTexts
  <2>6. QED
    BY <2>2, <2>4, <2>5 DEF FileTypes
<1>5. ASSUME NEW e \in Editors, Discard(e) PROVE FileTypes'
  <2>1. Spend("discard") /\ "discard" \in Deeds
    BY <1>5 DEF Discard, Deeds
  <2>2. left' \in [Deeds -> Nat] /\ deeds' \in Nat
    BY <2>1, SpendTypes DEF IInv, TypeOK, FileTypes
  <2>3. buffer.text \in Texts /\ clock + 1 \in Texts /\ \A s \in saves : s.text \in Texts
    BY BuffersAreTyped DEF IInv, TypeOK, Buffers, VersionTypes, TaskTypes, Texts
  <2>4. /\ incremental' \in BOOLEAN /\ changed' \in BOOLEAN /\ disk' \in Texts
        /\ onDisk' \in SUBSET Texts /\ waived' \in SUBSET Texts
        /\ adopted' \in SUBSET Texts /\ renamed' \in SUBSET Texts /\ watch' \in Watches
    BY <1>5, <2>3 DEF Discard, IInv, TypeOK, FileTypes, history, keptTexts, Loaded,
      NewText
  <2>5. /\ owed' \in BOOLEAN /\ refusal' \in BOOLEAN /\ crossed' \in BOOLEAN
        /\ missed' \in BOOLEAN
    BY <1>5, BusyIsBoolean DEF Discard, IInv, TypeOK, FileTypes, history, keptTexts
  <2>6. QED
    BY <2>2, <2>4, <2>5 DEF FileTypes
<1>6. ASSUME NEW e \in Editors, Join(e) PROVE FileTypes'
  <2>1. Spend("join") /\ "join" \in Deeds
    BY <1>6 DEF Join, Deeds
  <2>2. left' \in [Deeds -> Nat] /\ deeds' \in Nat
    BY <2>1, SpendTypes DEF IInv, TypeOK, FileTypes
  <2>3. buffer.text \in Texts /\ clock + 1 \in Texts /\ \A s \in saves : s.text \in Texts
    BY BuffersAreTyped DEF IInv, TypeOK, Buffers, VersionTypes, TaskTypes, Texts
  <2>4. /\ incremental' \in BOOLEAN /\ changed' \in BOOLEAN /\ disk' \in Texts
        /\ onDisk' \in SUBSET Texts /\ waived' \in SUBSET Texts
        /\ adopted' \in SUBSET Texts /\ renamed' \in SUBSET Texts /\ watch' \in Watches
    BY <1>6, <2>3 DEF Join, IInv, TypeOK, FileTypes, history, keptTexts, Loaded, NewText
  <2>5. /\ owed' \in BOOLEAN /\ refusal' \in BOOLEAN /\ crossed' \in BOOLEAN
        /\ missed' \in BOOLEAN
    BY <1>6, BusyIsBoolean DEF Join, IInv, TypeOK, FileTypes, history, keptTexts
  <2>6. QED
    BY <2>2, <2>4, <2>5 DEF FileTypes
<1>7. CASE Rename
  <2>1. Spend("rename") /\ "rename" \in Deeds
    BY <1>7 DEF Rename, Deeds
  <2>2. left' \in [Deeds -> Nat] /\ deeds' \in Nat
    BY <2>1, SpendTypes DEF IInv, TypeOK, FileTypes
  <2>3. buffer.text \in Texts /\ clock + 1 \in Texts /\ \A s \in saves : s.text \in Texts
    BY BuffersAreTyped DEF IInv, TypeOK, Buffers, VersionTypes, TaskTypes, Texts
  <2>4. /\ incremental' \in BOOLEAN /\ changed' \in BOOLEAN /\ disk' \in Texts
        /\ onDisk' \in SUBSET Texts /\ waived' \in SUBSET Texts
        /\ adopted' \in SUBSET Texts /\ renamed' \in SUBSET Texts /\ watch' \in Watches
    BY <1>7, <2>3 DEF Rename, IInv, TypeOK, FileTypes, history, keptTexts, Loaded,
      NewText, Watches, WatchMoves
  <2>5. /\ owed' \in BOOLEAN /\ refusal' \in BOOLEAN /\ crossed' \in BOOLEAN
        /\ missed' \in BOOLEAN
    BY <1>7, BusyIsBoolean DEF Rename, IInv, TypeOK, FileTypes, history, keptTexts,
      WatchMoves
  <2>6. QED
    BY <2>2, <2>4, <2>5 DEF FileTypes
<1>8. CASE Watch
  <2>1. /\ owed' \in BOOLEAN /\ refusal' \in BOOLEAN /\ crossed' \in BOOLEAN
        /\ changed' \in BOOLEAN /\ missed' \in BOOLEAN
    BY <1>8, BusyIsBoolean DEF Watch, IInv, TypeOK, FileTypes
  <2>2. UNCHANGED <<incremental, disk, watch, keptTexts, left, deeds>>
    BY <1>8 DEF Watch
  <2>3. QED
    BY <2>1, <2>2 DEF IInv, TypeOK, FileTypes, keptTexts
<1>9. ASSUME NEW r \in reloads, ReloadDone(r) PROVE FileTypes'
  <2>1. Arrival(r.text)
    BY <1>9, ReloadDoneIs
  <2>2. QED
    BY <2>1, ArrivalFile
<1>10. ASSUME NEW r \in discards, DiscardDone(r) PROVE FileTypes'
  <2>1. Arrival(r.text)
    BY <1>10, DiscardDoneIs
  <2>2. QED
    BY <2>1, ArrivalFile
<1>11. ASSUME NEW s \in saves, SaveWrites(s) PROVE FileTypes'
  <2>1. s.text \in Texts
    BY DEF IInv, TypeOK, TaskTypes
  <2>2. QED
    BY <1>11, <2>1 DEF SaveWrites, IInv, TypeOK, FileTypes, Watched
<1>12. ASSUME NEW d \in diffs, ApplyDiff(d) PROVE FileTypes'
  <2>1. owed' \in BOOLEAN /\ refusal' \in BOOLEAN
    BY <1>12 DEF ApplyDiff, Answer
  <2>2. UNCHANGED <<incremental, changed, disk, watch, keptTexts, missed, crossed, left, deeds>>
    BY <1>12 DEF ApplyDiff
  <2>3. QED
    BY <2>1, <2>2 DEF IInv, TypeOK, FileTypes, keptTexts
<1>13. ASSUME
      \/ UNCHANGED vars
      \/ LoadDone
      \/ (\E r \in discards : DiscardRead(r))
      \/ (\E s \in saves : SaveDone(s))
      \/ (\E d \in diffs : DiffComputed(d))
      PROVE UNCHANGED <<incremental, disk, watch, changed, history, left, deeds>>
  BY <1>13 DEF LoadDone, DiscardRead, SaveDone, DiffComputed, modelVars, taskVars,
    viewVars, vars
<1>14. ASSUME UNCHANGED <<incremental, disk, watch, changed, history, left, deeds>>
       PROVE FileTypes'
  BY <1>14 DEF IInv, TypeOK, FileTypes, history, keptTexts
<1>15. CASE WatchStarts
  <2>1. watch' \in Watches /\ UNCHANGED <<incremental, disk, changed, history, left, deeds>>
    BY <1>15 DEF WatchStarts, Watches
  <2>2. QED
    BY <2>1 DEF IInv, TypeOK, FileTypes, history, keptTexts
<1>16. ASSUME LoadRead \/ (\E r \in reloads : ReloadRead(r)) PROVE FileTypes'
  <2>1. /\ missed' = FALSE
        /\ UNCHANGED <<incremental, disk, watch, changed, keptTexts, owed, refusal, crossed,
                       left, deeds>>
    BY <1>16 DEF LoadRead, ReloadRead
  <2>2. QED
    BY <2>1 DEF IInv, TypeOK, FileTypes, keptTexts
<1>17. QED
  BY <1>1, <1>2, <1>3, <1>4, <1>5, <1>6, <1>7, <1>8, <1>9, <1>10, <1>11, <1>12, <1>13,
    <1>14, <1>15, <1>16 DEF Next, UserActs, Tasks

LEMMA NextTypes == IInv /\ [Next]_vars => TypeOK'
  BY NextBuffer, NextVersionTypes, NextTaskTypes, NextFileTypes DEF TypeOK, BufferTypes,
    Buffers

-----------------------------------------------------------------------------
\* Versions and texts.

\* A step adds at most one pair, for a version that is new.
PairStep ==
  \/ Pairs' \subseteq Pairs /\ clock' \in {clock, clock + 1}
  \/ clock' = clock + 1 /\ \E t \in Texts : Pairs' \subseteq Pairs \cup {Item(clock + 1, t)}

LEMMA ArrivalPairs ==
  ASSUME IInv, NEW text, Arrival(text)
  PROVE  /\ Pairs' \subseteq Pairs \cup {Item(clock + 1, text)}
         /\ Refused => Pairs' \subseteq Pairs
         /\ ~Refused => Item(clock + 1, text) \in Pairs'
<1>1. text \in Texts /\ clock + 1 \in Nat /\ saves' = saves
  BY DEF Arrival
<1>2. CASE Taken(text, clock + 1)
  <2>1. diffs' = diffs /\ buffer' = Refreshed(clock + 1, text)
    BY <1>2 DEF Taken
  <2>2. Item(buffer'.version, buffer'.text) = Item(clock + 1, text)
    BY <1>1, <2>1, RefreshedIs
  <2>3. Items(buffer') = {Item(clock + 1, text)}
    BY <1>1, <2>1, RefreshedIs
  <2>4. Pairs' = {Item(clock + 1, text)} \cup DiffPairs(diffs) \cup SavePairs(saves)
    BY <1>1, <2>1, <2>2, <2>3 DEF Pairs, DiffPairs, SavePairs
  <2>5. Refused => buffer' = buffer
    BY DEF Refused
  <2>6. QED
    BY <1>1, <2>1, <2>4, <2>5 DEF Pairs, Refused
<1>3. CASE Diffed(text, clock + 1)
  <2>1. PICK others \in SUBSET diffs, b \in Nat :
          /\ Item(b, buffer.text) \in Pairs
          /\ diffs' = others \cup {[version |-> clock + 1, base |-> b, old |-> buffer.text,
                                   new |-> text, done |-> FALSE]}
    BY <1>3 DEF Diffed
  <2>2. buffer' = buffer
    BY <1>3 DEF Diffed
  <2>3. /\ DiffPairs(diffs') \subseteq DiffPairs(others) \cup {Item(b, buffer.text), Item(clock + 1, text)}
        /\ Item(clock + 1, text) \in DiffPairs(diffs')
    <3> DEFINE x == [version |-> clock + 1, base |-> b, old |-> buffer.text,
                     new |-> text, done |-> FALSE]
    <3>1. x.version = clock + 1 /\ x.base = b /\ x.old = buffer.text /\ x.new = text
      OBVIOUS
    <3>2. diffs' = others \cup {x}
      BY <2>1
    <3> HIDE DEF x
    <3>3. \A d \in diffs' : d \in others \/ d = x
      BY <3>2
    <3>4. x \in diffs'
      BY <3>2
    <3>5. Item(clock + 1, text) \in DiffPairs(diffs')
      BY <3>1, <3>4 DEF DiffPairs
    <3>6. \A p \in DiffPairs(diffs') : p \in DiffPairs(others) \cup {Item(b, buffer.text), Item(clock + 1, text)}
      BY <3>1, <3>3 DEF DiffPairs
    <3>7. QED
      BY <3>5, <3>6
  <2>4. DiffPairs(others) \subseteq DiffPairs(diffs)
    BY <2>1 DEF DiffPairs
  <2>5. Pairs' = {Item(buffer.version, buffer.text)} \cup Items(buffer) \cup DiffPairs(diffs')
                   \cup SavePairs(saves)
    BY <1>1, <2>2 DEF Pairs, Items, DiffPairs, SavePairs
  <2>6. Refused => diffs' \subseteq diffs
    BY DEF Refused
  <2>7. diffs' \subseteq diffs => DiffPairs(diffs') \subseteq DiffPairs(diffs)
    BY DEF DiffPairs
  <2>8. QED
    BY <2>1, <2>3, <2>4, <2>5, <2>6, <2>7 DEF Pairs
<1>4. CASE Refused
  <2>1. diffs' \subseteq diffs /\ buffer' = buffer
    BY <1>4 DEF Refused
  <2>2. DiffPairs(diffs') \subseteq DiffPairs(diffs)
    BY <2>1 DEF DiffPairs
  <2>3. Pairs' = {Item(buffer.version, buffer.text)} \cup Items(buffer) \cup DiffPairs(diffs')
                   \cup SavePairs(saves)
    BY <1>1, <2>1 DEF Pairs, Items, DiffPairs, SavePairs
  <2>4. QED
    BY <1>4, <2>2, <2>3 DEF Pairs
<1>5. QED
  BY <1>2, <1>3, <1>4 DEF Arrival

LEMMA NextPairs == IInv /\ [Next]_vars => PairStep
<1> SUFFICES ASSUME IInv, [Next]_vars PROVE PairStep
  OBVIOUS
<1>1. CASE Edit
  <2>1. PICK item \in Undoable :
          /\ item = Item(clock + 1, clock + 1) /\ clock + 1 \in Nat /\ clock' = clock + 1
          /\ buffer'.version = item.version /\ buffer'.text = item.text
          /\ Items(buffer') \subseteq Items(buffer) \cup {item}
    BY <1>1, EditIs
  <2>2. Item(buffer'.version, buffer'.text) = item /\ clock + 1 \in Texts
    BY <2>1, UndoableItem DEF Texts
  <2>3. Pairs' = {Item(buffer'.version, buffer'.text)} \cup Items(buffer') \cup DiffPairs(diffs)
                   \cup SavePairs(saves)
    BY <1>1 DEF Edit, Pairs, Items, DiffPairs, SavePairs, taskVars, modelVars
  <2>4. Pairs' \subseteq Pairs \cup {Item(clock + 1, clock + 1)}
    BY <2>1, <2>2, <2>3 DEF Pairs
  <2>5. QED
    BY <2>1, <2>2, <2>4 DEF PairStep
<1>2. CASE Undo
  <2>1. PICK item \in Items(buffer) :
          /\ buffer' \in Buffers /\ clock' = clock + 1
          /\ buffer'.version = clock + 1 /\ buffer'.text = item.text
          /\ Items(buffer') = Items(buffer)
    BY <1>2, UndoIs, BuffersAreTyped DEF IInv, TypeOK, VersionTypes
  <2>2. item.text \in Texts
    BY <2>1 DEF Buffers
  <2>3. Pairs' = {Item(buffer'.version, buffer'.text)} \cup Items(buffer') \cup DiffPairs(diffs)
                   \cup SavePairs(saves)
    BY <1>2 DEF Undo, Pairs, Items, DiffPairs, SavePairs, taskVars, modelVars
  <2>4. Pairs' \subseteq Pairs \cup {Item(clock + 1, item.text)}
    BY <2>1, <2>3 DEF Pairs
  <2>5. QED
    BY <2>1, <2>2, <2>4 DEF PairStep
<1>3. CASE LoadDone
  <2>1. /\ clock + 1 \in Nat /\ clock' = clock + 1 /\ load.text \in Texts
        /\ buffer' = Refreshed(clock + 1, load.text)
    BY <1>3, LoadDoneIs
  <2>2. /\ Item(buffer'.version, buffer'.text) = Item(clock + 1, load.text)
        /\ Items(buffer') = {Item(clock + 1, load.text)}
    BY <2>1, RefreshedIs
  <2>3. Pairs' = {Item(buffer'.version, buffer'.text)} \cup Items(buffer') \cup DiffPairs(diffs)
                   \cup SavePairs(saves)
    BY <1>3 DEF LoadDone, Pairs, Items, DiffPairs, SavePairs, taskVars, modelVars
  <2>4. Pairs' \subseteq Pairs \cup {Item(clock + 1, load.text)}
    BY <2>2, <2>3 DEF Pairs
  <2>5. QED
    BY <2>1, <2>4 DEF PairStep
<1>4. ASSUME NEW r \in reloads, ReloadDone(r) PROVE PairStep
  <2>1. Arrival(r.text)
    BY <1>4, ReloadDoneIs
  <2>2. QED
    BY <2>1, ArrivalPairs DEF Arrival, PairStep
<1>5. ASSUME NEW r \in discards, DiscardDone(r) PROVE PairStep
  <2>1. Arrival(r.text)
    BY <1>5, DiscardDoneIs
  <2>2. QED
    BY <2>1, ArrivalPairs DEF Arrival, PairStep
<1>6. ASSUME NEW e \in Editors, Save(e) PROVE PairStep
  <2>1. SavePairs(saves') \subseteq SavePairs(saves) \cup {Item(buffer.version, buffer.text)}
    <3> DEFINE x == [version |-> buffer.version, text |-> buffer.text, state |-> "writing"]
    <3>1. x.version = buffer.version /\ x.text = buffer.text
      OBVIOUS
    <3>2. saves' = saves \cup {x}
      BY <1>6 DEF Save
    <3> HIDE DEF x
    <3>3. \A s \in saves' : s \in saves \/ s = x
      BY <3>2
    <3>4. QED
      BY <3>1, <3>3 DEF SavePairs
  <2>2. Pairs' = {Item(buffer.version, buffer.text)} \cup Items(buffer) \cup DiffPairs(diffs)
                   \cup SavePairs(saves')
    BY <1>6 DEF Save, Pairs, Items, DiffPairs, SavePairs, taskVars, modelVars
  <2>3. QED
    BY <1>6, <2>1, <2>2 DEF Save, Pairs, PairStep
<1>7. CASE Rename
  <2>1. SavePairs(saves') = {} /\ DiffPairs(diffs') = {}
    BY <1>7 DEF Rename, SavePairs, DiffPairs
  <2>2. Pairs' = {Item(buffer.version, buffer.text)} \cup Items(buffer) \cup DiffPairs(diffs')
                   \cup SavePairs(saves')
    BY <1>7 DEF Rename, Pairs, Items, DiffPairs, SavePairs, taskVars, modelVars
  <2>3. QED
    BY <1>7, <2>1, <2>2 DEF Rename, Pairs, PairStep
<1>8. ASSUME NEW s \in saves, SaveWrites(s) PROVE PairStep
  <2>1. PICK x \in {"written", "failed"} : saves' = (saves \ {s}) \cup {[s EXCEPT !.state = x]}
    BY <1>8 DEF SaveWrites
  <2>2. s \in [version : Nat, text : Texts, state : {"writing", "written", "failed"}]
    BY DEF IInv, TypeOK, TaskTypes
  <2>3. [s EXCEPT !.state = x].version = s.version /\ [s EXCEPT !.state = x].text = s.text
    BY <2>2
  <2>4. SavePairs(saves') \subseteq SavePairs(saves)
    BY <2>1, <2>3 DEF SavePairs
  <2>5. Pairs' = {Item(buffer.version, buffer.text)} \cup Items(buffer) \cup DiffPairs(diffs)
                   \cup SavePairs(saves')
    BY <1>8 DEF SaveWrites, Pairs, Items, DiffPairs, SavePairs, taskVars, modelVars
  <2>6. QED
    BY <1>8, <2>4, <2>5 DEF SaveWrites, Pairs, PairStep
<1>9. ASSUME NEW s \in saves, SaveDone(s) PROVE PairStep
  <2>1. SavePairs(saves') \subseteq SavePairs(saves)
    BY <1>9 DEF SaveDone, SavePairs
  <2>2. Pairs' = {Item(buffer.version, buffer.text)} \cup Items(buffer) \cup DiffPairs(diffs)
                   \cup SavePairs(saves')
    BY <1>9 DEF SaveDone, Pairs, Items, DiffPairs, SavePairs, taskVars, modelVars
  <2>3. QED
    BY <1>9, <2>1, <2>2 DEF SaveDone, Pairs, PairStep
<1>10. ASSUME NEW d \in diffs, DiffComputed(d) PROVE PairStep
  <2>1. d \in [version : Nat, base : Nat, old : Texts, new : Texts, done : BOOLEAN]
    BY DEF IInv, TypeOK, TaskTypes
  <2>2. /\ [d EXCEPT !.done = TRUE].base = d.base /\ [d EXCEPT !.done = TRUE].old = d.old
        /\ [d EXCEPT !.done = TRUE].version = d.version /\ [d EXCEPT !.done = TRUE].new = d.new
    BY <2>1
  <2>3. DiffPairs(diffs') \subseteq DiffPairs(diffs)
    BY <1>10, <2>2 DEF DiffComputed, DiffPairs
  <2>4. Pairs' = {Item(buffer.version, buffer.text)} \cup Items(buffer) \cup DiffPairs(diffs')
                   \cup SavePairs(saves)
    BY <1>10 DEF DiffComputed, Pairs, Items, DiffPairs, SavePairs, taskVars, modelVars
  <2>5. QED
    BY <1>10, <2>3, <2>4 DEF DiffComputed, Pairs, PairStep
<1>11. ASSUME NEW d \in diffs, ApplyDiff(d) PROVE PairStep
  <2>1. DiffPairs(diffs') \subseteq DiffPairs(diffs) /\ Item(d.version, d.new) \in DiffPairs(diffs)
    BY <1>11 DEF ApplyDiff, DiffPairs
  <2>2. Pairs' = {Item(buffer'.version, buffer'.text)} \cup Items(buffer') \cup DiffPairs(diffs')
                   \cup SavePairs(saves)
    BY <1>11 DEF ApplyDiff, Pairs, Items, DiffPairs, SavePairs, taskVars
  <2>3. \/ /\ Item(buffer'.version, buffer'.text) = Item(d.version, d.new)
           /\ Items(buffer') \subseteq Items(buffer) \cup {Item(d.version, d.new)}
        \/ buffer' = buffer
    BY <1>11, ApplyDiffIs
  <2>4. clock' = clock
    BY <1>11 DEF ApplyDiff
  <2>5. Pairs' \subseteq Pairs
    BY <2>1, <2>2, <2>3 DEF Pairs
  <2>6. QED
    BY <2>4, <2>5 DEF PairStep
<1>12. CASE OutsideWrite
  <2>1. Pairs' = Pairs
    BY <1>12 DEF OutsideWrite, Pairs, Items, DiffPairs, SavePairs, taskVars, modelVars
  <2>2. QED
    BY <1>12, <2>1 DEF OutsideWrite, PairStep
<1>13. ASSUME
      \/ UNCHANGED vars
      \/ WatchStarts
      \/ (\E e \in Editors : Discard(e))
      \/ (\E e \in Editors : Join(e))
      \/ LoadRead
      \/ Watch
      \/ (\E r \in reloads : ReloadRead(r))
      \/ (\E r \in discards : DiscardRead(r))
      PROVE UNCHANGED <<buffer, diffs, saves, clock>>
  BY <1>13 DEF WatchStarts, Discard, Join, LoadRead, Watch, ReloadRead, DiscardRead,
    modelVars, taskVars, viewVars, history, vars
<1>14. ASSUME UNCHANGED <<buffer, diffs, saves, clock>> PROVE PairStep
  <2>1. Pairs' = Pairs
    BY <1>14 DEF Pairs, Items, DiffPairs, SavePairs
  <2>2. QED
    BY <1>14, <2>1 DEF PairStep
<1>15. QED
  BY <1>1, <1>2, <1>3, <1>4, <1>5, <1>6, <1>7, <1>8, <1>9, <1>10, <1>11, <1>12, <1>13,
    <1>14 DEF Next, UserActs, Tasks

LEMMA NextOneText == IInv /\ [Next]_vars => OneText'
<1> SUFFICES ASSUME IInv, [Next]_vars PROVE OneText'
  OBVIOUS
<1>1. clock \in Nat /\ PairStep
  BY NextPairs DEF IInv, TypeOK, VersionTypes
<1>2. OneText
  BY DEF IInv
<1>3. CASE Pairs' \subseteq Pairs /\ clock' \in {clock, clock + 1}
  BY <1>1, <1>2, <1>3 DEF OneText
<1>4. ASSUME NEW t \in Texts, Pairs' \subseteq Pairs \cup {Item(clock + 1, t)}, clock' = clock + 1
      PROVE OneText'
  <2>1. Item(clock + 1, t).version = clock + 1
    BY DEF Item
  <2>2. \A p \in Pairs' : p \in Pairs \/ p = Item(clock + 1, t)
    BY <1>4
  <2>3. \A p \in Pairs : p.version # clock + 1 /\ p.version \in 1..clock
    BY <1>1, <1>2 DEF OneText
  <2>4. \A p, q \in Pairs' : p.version = q.version => p.text = q.text
    BY <1>2, <2>1, <2>2, <2>3 DEF OneText
  <2>5. \A p \in Pairs' : p.version \in 1..clock'
    BY <1>1, <1>4, <2>1, <2>2, <2>3
  <2>6. QED
    BY <2>4, <2>5 DEF OneText
<1>5. QED
  BY <1>1, <1>3, <1>4 DEF PairStep

\* What an old version stands for stays so.
LEMMA VersionKept ==
  ASSUME IInv, [Next]_vars, NEW v \in Nat, v <= clock, NEW S, Stands(Pairs, v, S)
  PROVE  Stands(Pairs', v, S)
<1>1. clock \in Nat /\ PairStep
  BY NextPairs DEF IInv, TypeOK, VersionTypes
<1>2. \A t : Item(clock + 1, t).version # v
  BY <1>1 DEF Item
<1>3. QED
  BY <1>1, <1>2 DEF PairStep, Stands

\* The version of a pair stands for its text.
LEMMA PairStands ==
  ASSUME IInv, NEW q \in Pairs
  PROVE  /\ q.version \in Nat /\ q.version <= clock /\ q.version > 0
         /\ Stands(Pairs, q.version, {q.text})
  BY DEF Stands, IInv, OneText, TypeOK, VersionTypes

LEMMA NewPairStands ==
  ASSUME IInv, [Next]_vars, NEW v, NEW t, NEW S, t \in S, Item(v, t) \in Pairs'
  PROVE  Stands(Pairs', v, S)
  BY NextOneText DEF OneText, Item, Stands

LEMMA BufferPair ==
  ASSUME IInv
  PROVE  /\ Item(buffer.version, buffer.text) \in Pairs
         /\ buffer.version \in Nat /\ buffer.version <= clock
         /\ Stands(Pairs, buffer.version, {buffer.text})
<1>1. Item(buffer.version, buffer.text) \in Pairs
  BY DEF Pairs
<1>2. QED
  BY <1>1, PairStands DEF Item

LEMMA SavePair ==
  ASSUME IInv, NEW s \in saves
  PROVE  /\ s.version \in Nat /\ s.version <= clock
         /\ Stands(Pairs, s.version, {s.text})
<1>1. Item(s.version, s.text) \in Pairs
  BY DEF Pairs, SavePairs
<1>2. QED
  BY <1>1, PairStands DEF Item

LEMMA DiffPair ==
  ASSUME IInv, NEW d \in diffs
  PROVE  /\ d.version \in Nat /\ d.version <= clock
         /\ Stands(Pairs, d.version, {d.new})
<1>1. Item(d.version, d.new) \in Pairs
  BY DEF Pairs, DiffPairs
<1>2. QED
  BY <1>1, PairStands DEF Item

LEMMA ArrivalPast ==
  ASSUME IInv, NEW text, Arrival(text)
  PROVE  Past'
<1>1. fileVersion' <= clock' /\ clock' = clock + 1 /\ clock \in Nat /\ views' = views
  BY DEF Arrival, IInv, TypeOK, VersionTypes
<1>2. base' \in {base, clock + 1} /\ viewBase' \in {viewBase, Told(clock + 1)}
  BY DEF Arrival, Taken, Diffed, Refused
<1>3. base' <= clock'
  BY <1>1, <1>2 DEF IInv, Past, TypeOK, VersionTypes
<1>4. \A e \in Editors : viewBase'[e] \in {viewBase[e], clock + 1}
  BY <1>2 DEF Told
<1>5. \A e \in Editors : viewBase'[e] <= clock'
  BY <1>1, <1>4 DEF IInv, Past, TypeOK, VersionTypes
<1>6. \A e \in Editors \ views : viewBase'[e] = viewBase[e]
  BY <1>2 DEF Told
<1>7. QED
  BY <1>1, <1>3, <1>5, <1>6 DEF IInv, Past

LEMMA NextPast == IInv /\ [Next]_vars => Past'
<1> SUFFICES ASSUME IInv, [Next]_vars PROVE Past'
  OBVIOUS
<1>1. CASE Edit
  <2>1. clock' = clock + 1 /\ UNCHANGED <<fileVersion, base, viewVars>>
    BY <1>1 DEF Edit, modelVars
  <2>2. QED
    BY <2>1 DEF IInv, Past, TypeOK, VersionTypes, viewVars
<1>2. CASE Undo
  <2>1. clock' = clock + 1 /\ UNCHANGED <<fileVersion, base, viewVars>>
    BY <1>2 DEF Undo, modelVars
  <2>2. QED
    BY <2>1 DEF IInv, Past, TypeOK, VersionTypes, viewVars
<1>3. CASE OutsideWrite
  <2>1. clock' = clock + 1 /\ UNCHANGED <<fileVersion, base, viewVars>>
    BY <1>3 DEF OutsideWrite, modelVars
  <2>2. QED
    BY <2>1 DEF IInv, Past, TypeOK, VersionTypes, viewVars
<1>4. ASSUME NEW e \in Editors, Save(e) PROVE Past'
  BY <1>4, BufferPair DEF Save, IInv, Past, TypeOK, VersionTypes, modelVars, viewVars
<1>5. ASSUME NEW e \in Editors, Discard(e) PROVE Past'
  BY <1>5, BufferPair DEF Discard, IInv, Past, TypeOK, VersionTypes, modelVars, viewVars
<1>6. CASE Rename
  BY <1>6, BufferPair DEF Rename, IInv, Past, TypeOK, VersionTypes, modelVars, viewVars
<1>7. ASSUME NEW e \in Editors, Join(e) PROVE Past'
  <2>1. UNCHANGED <<fileVersion, base, clock>>
    BY <1>7 DEF Join, modelVars
  <2>2. \A f \in Editors : viewBase'[f] \in {viewBase[f], buffer.version}
    BY <1>7 DEF Join, IInv, TypeOK, VersionTypes
  <2>3. \A f \in Editors \ views' : viewBase'[f] = viewBase[f] /\ f \notin views
    BY <1>7 DEF Join, IInv, TypeOK, VersionTypes
  <2>4. QED
    BY <2>1, <2>2, <2>3, BufferPair DEF IInv, Past
<1>8. CASE LoadDone
  <2>1. /\ fileVersion' = clock + 1 /\ base' = clock + 1 /\ clock' = clock + 1
        /\ clock + 1 \in Nat /\ clock \in Nat /\ viewBase' = Told(clock + 1) /\ views' = views
    BY <1>8, LoadDoneIs DEF LoadDone, IInv, TypeOK, VersionTypes
  <2>2. \A e \in Editors : viewBase'[e] <= clock'
    BY <2>1 DEF Told, IInv, Past, TypeOK, VersionTypes
  <2>3. \A e \in Editors \ views' : viewBase'[e] = None
    BY <2>1 DEF Told, IInv, Past
  <2>4. QED
    BY <2>1, <2>2, <2>3 DEF Past
<1>9. ASSUME NEW r \in reloads, ReloadDone(r) PROVE Past'
  <2>1. Arrival(r.text)
    BY <1>9, ReloadDoneIs
  <2>2. QED
    BY <2>1, ArrivalPast
<1>10. ASSUME NEW r \in discards, DiscardDone(r) PROVE Past'
  <2>1. Arrival(r.text)
    BY <1>10, DiscardDoneIs
  <2>2. QED
    BY <2>1, ArrivalPast
<1>11. ASSUME NEW s \in saves, SaveDone(s) PROVE Past'
  <2>1. fileVersion' \in {fileVersion, s.version} /\ base' \in {base, s.version}
    BY <1>11 DEF SaveDone
  <2>2. clock' = clock /\ views' = views
    BY <1>11 DEF SaveDone
  <2>3. \A e \in Editors : viewBase'[e] = viewBase[e] \/ (e \in views /\ viewBase'[e] = base)
    BY <1>11 DEF SaveDone
  <2>4. QED
    BY <2>1, <2>2, <2>3, SavePair DEF IInv, Past
<1>12. ASSUME NEW d \in diffs, ApplyDiff(d) PROVE Past'
  <2>1. base' \in {base, d.version} /\ viewBase' \in {viewBase, Told(d.version)}
    BY <1>12, ApplyDiffIs
  <2>2. UNCHANGED <<fileVersion, clock, views>>
    BY <1>12 DEF ApplyDiff
  <2>3. \A e \in Editors : viewBase'[e] = viewBase[e] \/ (e \in views /\ viewBase'[e] = d.version)
    BY <2>1 DEF Told
  <2>4. QED
    BY <2>1, <2>2, <2>3, DiffPair DEF IInv, Past
<1>13. ASSUME
      \/ UNCHANGED vars
      \/ WatchStarts
      \/ LoadRead
      \/ Watch
      \/ (\E r \in reloads : ReloadRead(r))
      \/ (\E r \in discards : DiscardRead(r))
      \/ (\E s \in saves : SaveWrites(s))
      \/ (\E d \in diffs : DiffComputed(d))
      PROVE UNCHANGED <<fileVersion, base, viewVars, clock>>
  BY <1>13 DEF WatchStarts, LoadRead, Watch, ReloadRead, DiscardRead, SaveWrites,
    DiffComputed, modelVars, taskVars, viewVars, history, vars
<1>14. ASSUME UNCHANGED <<fileVersion, base, viewVars, clock>> PROVE Past'
  BY <1>14 DEF IInv, Past, viewVars
<1>15. QED
  BY <1>1, <1>2, <1>3, <1>4, <1>5, <1>6, <1>7, <1>8, <1>9, <1>10, <1>11, <1>12, <1>13,
    <1>14 DEF Next, UserActs, Tasks

-----------------------------------------------------------------------------
\* What is stored.

LEMMA NextTopShown == IInv /\ [Next]_vars => TopShown'
  BY NextBuffer DEF TopShown, Top, TopOf

LEMMA NextLoadedFirst == IInv /\ [Next]_vars => LoadedFirst'
<1> SUFFICES ASSUME IInv, [Next]_vars PROVE LoadedFirst'
  OBVIOUS
<1>1. CASE LoadRead
  BY <1>1 DEF LoadRead, IInv, LoadedFirst, modelVars
<1>2. CASE LoadDone
  <2>1. load \in [state : {"reading", "read", "done"}, text : Texts]
    BY DEF IInv, TypeOK, TaskTypes
  <2>2. load'.state = "done"
    BY <1>2, <2>1 DEF LoadDone
  <2>3. QED
    BY <2>2 DEF LoadedFirst
<1>3. ASSUME NEW e \in Editors, Save(e) PROVE LoadedFirst'
  <2>1. base # None /\ load' = load
    BY <1>3 DEF Save, Loaded
  <2>2. QED
    BY <2>1 DEF IInv, LoadedFirst
<1>4. ASSUME NEW e \in Editors, Discard(e) PROVE LoadedFirst'
  <2>1. base # None /\ load' = load
    BY <1>4 DEF Discard, Loaded
  <2>2. QED
    BY <2>1 DEF IInv, LoadedFirst
<1>5. CASE Rename
  <2>1. base # None /\ load' = load
    BY <1>5 DEF Rename, Loaded
  <2>2. QED
    BY <2>1 DEF IInv, LoadedFirst
<1>6. CASE Watch
  <2>1. UNCHANGED <<fileVersion, base, discards, saves, diffs, load>>
    BY <1>6 DEF Watch, modelVars
  <2>2. fileVersion = None => reloads' = reloads
    BY <1>6 DEF Watch
  <2>3. QED
    BY <2>1, <2>2 DEF IInv, LoadedFirst
<1>7. ASSUME NEW r \in reloads, ReloadRead(r) PROVE LoadedFirst'
  <2>1. load' = load
    BY <1>7 DEF ReloadRead, taskVars
  <2>2. load.state = "done"
    BY DEF IInv, LoadedFirst
  <2>3. QED
    BY <2>1, <2>2 DEF LoadedFirst
<1>8. ASSUME NEW r \in reloads, ReloadDone(r) PROVE LoadedFirst'
  <2>1. load' = load
    BY <1>8 DEF ReloadDone, taskVars
  <2>2. load.state = "done"
    BY DEF IInv, LoadedFirst
  <2>3. QED
    BY <2>1, <2>2 DEF LoadedFirst
<1>9. ASSUME NEW r \in discards, DiscardRead(r) PROVE LoadedFirst'
  <2>1. load' = load
    BY <1>9 DEF DiscardRead, taskVars
  <2>2. load.state = "done"
    BY DEF IInv, LoadedFirst
  <2>3. QED
    BY <2>1, <2>2 DEF LoadedFirst
<1>10. ASSUME NEW r \in discards, DiscardDone(r) PROVE LoadedFirst'
  <2>1. load' = load
    BY <1>10 DEF DiscardDone, taskVars
  <2>2. load.state = "done"
    BY DEF IInv, LoadedFirst
  <2>3. QED
    BY <2>1, <2>2 DEF LoadedFirst
<1>11. ASSUME NEW s \in saves, SaveWrites(s) PROVE LoadedFirst'
  <2>1. load' = load
    BY <1>11 DEF SaveWrites, taskVars
  <2>2. load.state = "done"
    BY DEF IInv, LoadedFirst
  <2>3. QED
    BY <2>1, <2>2 DEF LoadedFirst
<1>12. ASSUME NEW s \in saves, SaveDone(s) PROVE LoadedFirst'
  <2>1. load' = load
    BY <1>12 DEF SaveDone, taskVars
  <2>2. load.state = "done"
    BY DEF IInv, LoadedFirst
  <2>3. QED
    BY <2>1, <2>2 DEF LoadedFirst
<1>13. ASSUME NEW d \in diffs, DiffComputed(d) PROVE LoadedFirst'
  <2>1. load' = load
    BY <1>13 DEF DiffComputed, taskVars
  <2>2. load.state = "done"
    BY DEF IInv, LoadedFirst
  <2>3. QED
    BY <2>1, <2>2 DEF LoadedFirst
<1>14. ASSUME NEW d \in diffs, ApplyDiff(d) PROVE LoadedFirst'
  <2>1. load' = load
    BY <1>14 DEF ApplyDiff, taskVars
  <2>2. load.state = "done"
    BY DEF IInv, LoadedFirst
  <2>3. QED
    BY <2>1, <2>2 DEF LoadedFirst
<1>15. ASSUME
      \/ UNCHANGED vars
      \/ WatchStarts
      \/ Edit
      \/ Undo
      \/ (\E e \in Editors : Join(e))
      \/ OutsideWrite
      PROVE UNCHANGED <<load, fileVersion, base, reloads, discards, saves, diffs>>
  BY <1>15 DEF WatchStarts, Edit, Undo, Join, OutsideWrite, modelVars, taskVars, viewVars,
    history, vars
<1>16. ASSUME UNCHANGED <<load, fileVersion, base, reloads, discards, saves, diffs>> PROVE LoadedFirst'
  BY <1>16 DEF IInv, LoadedFirst
<1>17. QED
  BY <1>1, <1>2, <1>3, <1>4, <1>5, <1>6, <1>7, <1>8, <1>9, <1>10, <1>11, <1>12, <1>13,
    <1>14, <1>15, <1>16 DEF Next, UserActs, Tasks

TextsGrow ==
  /\ onDisk \subseteq onDisk' /\ waived \subseteq waived'
  /\ adopted \subseteq adopted' /\ renamed \subseteq renamed'

LEMMA StoredGrows == IInv /\ [Next]_vars => TextsGrow
<1> SUFFICES ASSUME IInv, [Next]_vars PROVE TextsGrow
  OBVIOUS
<1>1. CASE OutsideWrite
  BY <1>1 DEF OutsideWrite, history, keptTexts, TextsGrow
<1>2. ASSUME NEW s \in saves, SaveWrites(s) PROVE TextsGrow
  BY <1>2 DEF SaveWrites, history, keptTexts, TextsGrow
<1>3. ASSUME NEW e \in Editors, Discard(e) PROVE TextsGrow
  BY <1>3 DEF Discard, history, keptTexts, TextsGrow
<1>4. ASSUME NEW e \in Editors, Join(e) PROVE TextsGrow
  BY <1>4 DEF Join, history, keptTexts, TextsGrow
<1>5. CASE Rename
  BY <1>5 DEF Rename, history, keptTexts, TextsGrow
<1>6. ASSUME NEW r \in discards, DiscardDone(r) PROVE TextsGrow
  BY <1>6 DEF DiscardDone, history, keptTexts, TextsGrow
<1>7. ASSUME
      \/ UNCHANGED vars
      \/ WatchStarts
      \/ Edit
      \/ Undo
      \/ (\E e \in Editors : Save(e))
      \/ LoadRead
      \/ LoadDone
      \/ Watch
      \/ (\E r \in reloads : ReloadRead(r))
      \/ (\E r \in reloads : ReloadDone(r))
      \/ (\E r \in discards : DiscardRead(r))
      \/ (\E s \in saves : SaveDone(s))
      \/ (\E d \in diffs : DiffComputed(d))
      \/ (\E d \in diffs : ApplyDiff(d))
      PROVE UNCHANGED keptTexts
  BY <1>7 DEF WatchStarts, Edit, Undo, Save, LoadRead, LoadDone, Watch, ReloadRead,
    ReloadDone, DiscardRead, SaveDone, DiffComputed, ApplyDiff, modelVars, taskVars,
    viewVars, history, vars
<1>8. ASSUME UNCHANGED keptTexts PROVE TextsGrow
  BY <1>8 DEF keptTexts, TextsGrow
<1>9. QED
  BY <1>1, <1>2, <1>3, <1>4, <1>5, <1>6, <1>7, <1>8 DEF Next, UserActs, Tasks

LEMMA NextReadIsStored == IInv /\ [Next]_vars => ReadIsStored'
<1> SUFFICES ASSUME IInv, [Next]_vars PROVE ReadIsStored'
  OBVIOUS
<1>1. CASE OutsideWrite
  BY <1>1 DEF OutsideWrite, IInv, ReadIsStored, taskVars
<1>2. CASE LoadRead
  BY <1>2 DEF LoadRead, IInv, ReadIsStored, history, keptTexts
<1>3. CASE LoadDone
  <2>1. load \in [state : {"reading", "read", "done"}, text : Texts]
    BY DEF IInv, TypeOK, TaskTypes
  <2>2. load'.state = "done"
    BY <1>3, <2>1 DEF LoadDone
  <2>3. UNCHANGED <<disk, onDisk, reloads, discards, saves>>
    BY <1>3 DEF LoadDone, history, keptTexts
  <2>4. QED
    BY <2>2, <2>3 DEF IInv, ReadIsStored
<1>4. CASE Watch
  <2>1. UNCHANGED <<disk, onDisk, load, discards, saves>>
    BY <1>4 DEF Watch, keptTexts
  <2>2. \A r \in reloads' : r \in reloads \/ ~r.done
    BY <1>4 DEF Watch
  <2>3. QED
    BY <2>1, <2>2 DEF IInv, ReadIsStored
<1>5. ASSUME NEW e \in Editors, Discard(e) PROVE ReadIsStored'
  <2>1. UNCHANGED <<disk, onDisk, load, reloads, saves>>
    BY <1>5 DEF Discard
  <2>2. \A r \in discards' : r \in discards \/ ~r.done
    BY <1>5 DEF Discard
  <2>3. QED
    BY <2>1, <2>2 DEF IInv, ReadIsStored
<1>6. ASSUME NEW r \in reloads, ReloadRead(r) PROVE ReadIsStored'
  <2>1. r \in ReadTask /\ disk \in onDisk
    BY DEF IInv, TypeOK, TaskTypes, ReadIsStored
  <2>2. ReadBy(r).text = disk
    BY <2>1 DEF ReadBy, ReadTask
  <2>3. reloads' = (reloads \ {r}) \cup {ReadBy(r)} /\ UNCHANGED <<disk, onDisk, load, discards, saves>>
    BY <1>6 DEF ReloadRead, history, keptTexts
  <2>4. \A q \in reloads' : q \in reloads \/ q = ReadBy(r)
    BY <2>3
  <2>5. \A q \in reloads' : q.done => q.text \in onDisk
    BY <2>1, <2>2, <2>4 DEF IInv, ReadIsStored
  <2>6. QED
    BY <2>3, <2>5 DEF IInv, ReadIsStored
<1>7. ASSUME NEW r \in discards, DiscardRead(r) PROVE ReadIsStored'
  <2>1. r \in ReadTask /\ disk \in onDisk
    BY DEF IInv, TypeOK, TaskTypes, ReadIsStored
  <2>2. ReadBy(r).text = disk
    BY <2>1 DEF ReadBy, ReadTask
  <2>3. discards' = (discards \ {r}) \cup {ReadBy(r)} /\ UNCHANGED <<disk, onDisk, load, reloads, saves>>
    BY <1>7 DEF DiscardRead, history, keptTexts
  <2>4. \A q \in discards' : q \in discards \/ q = ReadBy(r)
    BY <2>3
  <2>5. \A q \in discards' : q.done => q.text \in onDisk
    BY <2>1, <2>2, <2>4 DEF IInv, ReadIsStored
  <2>6. QED
    BY <2>3, <2>5 DEF IInv, ReadIsStored
<1>8. ASSUME NEW r \in reloads, ReloadDone(r) PROVE ReadIsStored'
  <2>1. Arrival(r.text)
    BY <1>8, ReloadDoneIs
  <2>2. saves' = saves
    BY <2>1 DEF Arrival
  <2>3. QED
    BY <2>1, <2>2 DEF Arrival, IInv, ReadIsStored
<1>9. ASSUME NEW r \in discards, DiscardDone(r) PROVE ReadIsStored'
  <2>1. Arrival(r.text)
    BY <1>9, DiscardDoneIs
  <2>2. saves' = saves
    BY <2>1 DEF Arrival
  <2>3. QED
    BY <2>1, <2>2 DEF Arrival, IInv, ReadIsStored
<1>10. ASSUME NEW e \in Editors, Save(e) PROVE ReadIsStored'
  <2>1. UNCHANGED <<disk, onDisk, load, reloads, discards>>
    BY <1>10 DEF Save, keptTexts
  <2>2. \A s \in saves' : s \in saves \/ s.state = "writing"
    BY <1>10 DEF Save
  <2>3. QED
    BY <2>1, <2>2 DEF IInv, ReadIsStored
<1>11. ASSUME NEW s \in saves, SaveWrites(s) PROVE ReadIsStored'
  <2>1. s \in [version : Nat, text : Texts, state : {"writing", "written", "failed"}]
    BY DEF IInv, TypeOK, TaskTypes
  <2>2. UNCHANGED <<load, reloads, discards>>
    BY <1>11 DEF SaveWrites
  <2>3. CASE /\ saves' = (saves \ {s}) \cup {[s EXCEPT !.state = "written"]}
             /\ disk' = s.text /\ onDisk' = onDisk \cup {s.text}
    <3>1. [s EXCEPT !.state = "written"].text = s.text
      BY <2>1
    <3>2. \A q \in saves' : q \in saves \/ q = [s EXCEPT !.state = "written"]
      BY <2>3
    <3>3. \A q \in saves' : q.state = "written" => q.text \in onDisk'
      BY <2>3, <3>1, <3>2 DEF IInv, ReadIsStored
    <3>4. QED
      BY <2>2, <2>3, <3>3 DEF IInv, ReadIsStored
  <2>4. CASE /\ saves' = (saves \ {s}) \cup {[s EXCEPT !.state = "failed"]}
             /\ UNCHANGED <<disk, onDisk>>
    <3>1. [s EXCEPT !.state = "failed"].state # "written"
      BY <2>1
    <3>2. \A q \in saves' : q \in saves \/ q = [s EXCEPT !.state = "failed"]
      BY <2>4
    <3>3. QED
      BY <2>2, <2>4, <3>1, <3>2 DEF IInv, ReadIsStored
  <2>5. QED
    BY <1>11, <2>3, <2>4 DEF SaveWrites
<1>12. ASSUME NEW s \in saves, SaveDone(s) PROVE ReadIsStored'
  BY <1>12 DEF SaveDone, IInv, ReadIsStored, history, keptTexts
<1>13. CASE Rename
  BY <1>13 DEF Rename, IInv, ReadIsStored, history, keptTexts
<1>14. ASSUME
      \/ UNCHANGED vars
      \/ WatchStarts
      \/ Edit
      \/ Undo
      \/ (\E e \in Editors : Join(e))
      \/ (\E d \in diffs : DiffComputed(d))
      \/ (\E d \in diffs : ApplyDiff(d))
      PROVE UNCHANGED <<disk, onDisk, load, reloads, discards, saves>>
  BY <1>14 DEF WatchStarts, Edit, Undo, Join, DiffComputed, ApplyDiff, modelVars,
    taskVars, viewVars, history, keptTexts, vars
<1>15. ASSUME UNCHANGED <<disk, onDisk, load, reloads, discards, saves>> PROVE ReadIsStored'
  BY <1>15 DEF IInv, ReadIsStored
<1>16. QED
  BY <1>1, <1>2, <1>3, <1>4, <1>5, <1>6, <1>7, <1>8, <1>9, <1>10, <1>11, <1>12, <1>13,
    <1>14, <1>15 DEF Next, UserActs, Tasks

LEMMA ArrivalDiffs ==
  ASSUME IInv, [Next]_vars, NEW text, Arrival(text)
  PROVE  DiffIsStored'
<1>1. Stored \subseteq Stored' /\ onDisk \subseteq onDisk' /\ text \in onDisk'
  BY StoredGrows DEF TextsGrow, Stored, Arrival
<1>2. CASE diffs' \subseteq diffs
  BY <1>1, <1>2 DEF IInv, DiffIsStored
<1>3. CASE Diffed(text, clock + 1) /\ buffer.text \in Stored'
  <2>1. PICK others \in SUBSET diffs, b \in Nat :
          diffs' = others \cup {[version |-> clock + 1, base |-> b, old |-> buffer.text,
                                new |-> text, done |-> FALSE]}
    BY <1>3 DEF Diffed
  <2>2. \A d \in diffs' : d \in diffs \/ (d.old = buffer.text /\ d.new = text)
    BY <2>1
  <2>3. QED
    BY <1>1, <1>3, <2>2 DEF IInv, DiffIsStored
<1>4. QED
  BY <1>2, <1>3 DEF Arrival, Taken, Refused

LEMMA NextDiffIsStored == IInv /\ [Next]_vars => DiffIsStored'
<1> SUFFICES ASSUME IInv, [Next]_vars PROVE DiffIsStored'
  OBVIOUS
<1>1. ASSUME NEW r \in reloads, ReloadDone(r) PROVE DiffIsStored'
  BY <1>1, ReloadDoneIs, ArrivalDiffs
<1>2. ASSUME NEW r \in discards, DiscardDone(r) PROVE DiffIsStored'
  BY <1>2, DiscardDoneIs, ArrivalDiffs
<1>3. ASSUME NEW d \in diffs, DiffComputed(d) PROVE DiffIsStored'
  <2>1. d \in [version : Nat, base : Nat, old : Texts, new : Texts, done : BOOLEAN]
    BY DEF IInv, TypeOK, TaskTypes
  <2>2. [d EXCEPT !.done = TRUE].old = d.old /\ [d EXCEPT !.done = TRUE].new = d.new
    BY <2>1
  <2>3. \A q \in diffs' : q \in diffs \/ q = [d EXCEPT !.done = TRUE]
    BY <1>3 DEF DiffComputed
  <2>4. Stored \subseteq Stored' /\ onDisk \subseteq onDisk'
    BY StoredGrows DEF TextsGrow, Stored
  <2>5. QED
    BY <2>2, <2>3, <2>4 DEF IInv, DiffIsStored
<1>4. ASSUME NEW d \in diffs, ApplyDiff(d) PROVE DiffIsStored'
  <2>1. diffs' \subseteq diffs
    BY <1>4 DEF ApplyDiff
  <2>2. Stored \subseteq Stored' /\ onDisk \subseteq onDisk'
    BY StoredGrows DEF TextsGrow, Stored
  <2>3. QED
    BY <2>1, <2>2 DEF IInv, DiffIsStored
<1>5. CASE Rename
  <2>1. diffs' \subseteq diffs
    BY <1>5 DEF Rename
  <2>2. Stored \subseteq Stored' /\ onDisk \subseteq onDisk'
    BY StoredGrows DEF TextsGrow, Stored
  <2>3. QED
    BY <2>1, <2>2 DEF IInv, DiffIsStored
<1>6. ASSUME
      \/ UNCHANGED vars
      \/ WatchStarts
      \/ Edit
      \/ Undo
      \/ (\E e \in Editors : Save(e))
      \/ (\E e \in Editors : Discard(e))
      \/ (\E e \in Editors : Join(e))
      \/ OutsideWrite
      \/ LoadRead
      \/ LoadDone
      \/ Watch
      \/ (\E r \in reloads : ReloadRead(r))
      \/ (\E r \in discards : DiscardRead(r))
      \/ (\E s \in saves : SaveWrites(s))
      \/ (\E s \in saves : SaveDone(s))
      PROVE UNCHANGED diffs
  BY <1>6 DEF WatchStarts, Edit, Undo, Save, Discard, Join, OutsideWrite, LoadRead,
    LoadDone, Watch, ReloadRead, DiscardRead, SaveWrites, SaveDone, modelVars, taskVars,
    viewVars, history, vars
<1>7. ASSUME UNCHANGED diffs PROVE DiffIsStored'
  <2>1. Stored \subseteq Stored' /\ onDisk \subseteq onDisk'
    BY StoredGrows DEF TextsGrow, Stored
  <2>2. QED
    BY <1>7, <2>1 DEF IInv, DiffIsStored
<1>8. QED
  BY <1>1, <1>2, <1>3, <1>4, <1>5, <1>6, <1>7 DEF Next, UserActs, Tasks

-----------------------------------------------------------------------------
\* What is shown as saved.

\* The versions of the file and of the model go on standing for stored texts.
LEMMA BaseKept ==
  ASSUME IInv, [Next]_vars
  PROVE  Stands(Pairs', fileVersion, Stored') /\ Stands(Pairs', base, onDisk')
<1>1. Stored \subseteq Stored' /\ onDisk \subseteq onDisk'
  BY StoredGrows DEF TextsGrow, Stored
<1>2. Stands(Pairs, fileVersion, Stored') /\ Stands(Pairs, base, onDisk')
  BY <1>1 DEF IInv, BaseIsStored, Stands
<1>3. fileVersion \in Nat /\ fileVersion <= clock /\ base \in Nat /\ base <= clock
  BY DEF IInv, TypeOK, VersionTypes, Past
<1>4. QED
  BY <1>2, <1>3, VersionKept

\* The version of a text that arrives stands for it, if for any.
LEMMA ArrivalStands ==
  ASSUME IInv, [Next]_vars, NEW text, Arrival(text)
  PROVE  Stands(Pairs', clock + 1, onDisk') /\ Stands(Pairs', clock + 1, Stored')
<1>1. text \in onDisk' /\ text \in Stored'
  BY DEF Arrival, Stored
<1>2. CASE ~Refused
  BY <1>1, <1>2, ArrivalPairs, NewPairStands
<1>3. CASE Refused
  <2>1. Pairs' \subseteq Pairs
    BY <1>3, ArrivalPairs
  <2>2. \A p \in Pairs : p.version # clock + 1
    BY DEF IInv, OneText, TypeOK, VersionTypes
  <2>3. QED
    BY <2>1, <2>2 DEF Stands
<1>4. QED
  BY <1>2, <1>3

LEMMA BufferIsPair == Item(buffer'.version, buffer'.text) \in Pairs'
  BY DEF Pairs

LEMMA NextBaseIsStored == IInv /\ [Next]_vars => BaseIsStored'
<1> SUFFICES ASSUME IInv, [Next]_vars PROVE BaseIsStored'
  OBVIOUS
<1>1. CASE Rename
  <2>1. fileVersion' = buffer.version /\ base' = base /\ buffer.text \in Stored'
    BY <1>1 DEF Rename, Stored
  <2>2. Stands(Pairs, buffer.version, Stored')
    BY <2>1, BufferPair DEF Stands
  <2>3. Stands(Pairs', buffer.version, Stored')
    BY <2>2, BufferPair, VersionKept
  <2>4. QED
    BY <2>1, <2>3, BaseKept DEF BaseIsStored
<1>2. CASE LoadDone
  <2>1. /\ fileVersion' = clock + 1 /\ base' = clock + 1 /\ load.text \in onDisk
        /\ clock + 1 \in Nat /\ load.text \in Texts
        /\ buffer' = Refreshed(clock + 1, load.text)
    BY <1>2, LoadDoneIs
  <2>2. Item(clock + 1, load.text) \in Pairs'
    BY <2>1, BufferIsPair, RefreshedIs
  <2>3. load.text \in Stored' /\ load.text \in onDisk'
    BY <2>1, StoredGrows DEF TextsGrow, Stored
  <2>4. QED
    BY <2>1, <2>2, <2>3, NewPairStands DEF BaseIsStored
<1>3. ASSUME NEW r \in reloads, ReloadDone(r) PROVE BaseIsStored'
  <2>1. Arrival(r.text)
    BY <1>3, ReloadDoneIs
  <2>2. fileVersion' = clock + 1 /\ base' \in {base, clock + 1}
    BY <2>1 DEF Arrival, Taken, Diffed, Refused
  <2>3. QED
    BY <2>1, <2>2, ArrivalStands, BaseKept DEF BaseIsStored
<1>4. ASSUME NEW r \in discards, DiscardDone(r) PROVE BaseIsStored'
  <2>1. Arrival(r.text)
    BY <1>4, DiscardDoneIs
  <2>2. fileVersion' = clock + 1 /\ base' \in {base, clock + 1}
    BY <2>1 DEF Arrival, Taken, Diffed, Refused
  <2>3. QED
    BY <2>1, <2>2, ArrivalStands, BaseKept DEF BaseIsStored
<1>5. ASSUME NEW s \in saves, SaveDone(s) PROVE BaseIsStored'
  <2>1. CASE s.state = "written"
    <3>1. fileVersion' = s.version /\ base' = s.version
      BY <1>5, <2>1 DEF SaveDone
    <3>2. s.text \in Stored' /\ s.text \in onDisk'
      BY <2>1, StoredGrows DEF TextsGrow, IInv, ReadIsStored, Stored
    <3>3. Stands(Pairs, s.version, Stored') /\ Stands(Pairs, s.version, onDisk')
      BY <3>2, SavePair DEF Stands
    <3>4. QED
      BY <3>1, <3>3, SavePair, VersionKept DEF BaseIsStored
  <2>2. CASE s.state # "written"
    <3>1. UNCHANGED <<fileVersion, base>>
      BY <1>5, <2>2 DEF SaveDone
    <3>2. QED
      BY <3>1, BaseKept DEF BaseIsStored
  <2>3. QED
    BY <2>1, <2>2
<1>6. ASSUME NEW d \in diffs, ApplyDiff(d) PROVE BaseIsStored'
  <2>1. fileVersion' = fileVersion /\ base' \in {base, d.version}
    BY <1>6, ApplyDiffIs DEF ApplyDiff
  <2>2. d.new \in onDisk'
    BY StoredGrows DEF TextsGrow, IInv, DiffIsStored, Stored
  <2>3. Stands(Pairs, d.version, onDisk')
    BY <2>2, DiffPair DEF Stands
  <2>4. Stands(Pairs', d.version, onDisk')
    BY <2>3, DiffPair, VersionKept
  <2>5. QED
    BY <2>1, <2>4, BaseKept DEF BaseIsStored
<1>7. ASSUME
      \/ UNCHANGED vars
      \/ WatchStarts
      \/ Edit
      \/ Undo
      \/ (\E e \in Editors : Save(e))
      \/ (\E e \in Editors : Discard(e))
      \/ (\E e \in Editors : Join(e))
      \/ OutsideWrite
      \/ LoadRead
      \/ Watch
      \/ (\E r \in reloads : ReloadRead(r))
      \/ (\E r \in discards : DiscardRead(r))
      \/ (\E s \in saves : SaveWrites(s))
      \/ (\E d \in diffs : DiffComputed(d))
      PROVE UNCHANGED <<fileVersion, base>>
  BY <1>7 DEF WatchStarts, Edit, Undo, Save, Discard, Join, OutsideWrite, LoadRead, Watch,
    ReloadRead, DiscardRead, SaveWrites, DiffComputed, modelVars, taskVars, viewVars,
    history, vars
<1>8. ASSUME UNCHANGED <<fileVersion, base>> PROVE BaseIsStored'
  BY <1>8, BaseKept DEF BaseIsStored
<1>9. QED
  BY <1>1, <1>2, <1>3, <1>4, <1>5, <1>6, <1>7, <1>8 DEF Next, UserActs, Tasks

\* So do the versions of the editors, while what was being saved may be shown.
LEMMA ViewKept ==
  ASSUME IInv, [Next]_vars, NEW e \in views, Shown \subseteq Shown'
  PROVE  Stands(Pairs', viewBase[e], Shown')
<1>1. Stands(Pairs, viewBase[e], Shown')
  BY DEF IInv, ViewIsStored, Stands
<1>2. viewBase[e] \in Nat /\ viewBase[e] <= clock
  BY DEF IInv, TypeOK, VersionTypes, Past
<1>3. QED
  BY <1>1, <1>2, VersionKept

LEMMA StandsForMore ==
  ASSUME NEW P, NEW v, NEW S, NEW T, Stands(P, v, S), S \subseteq T
  PROVE  Stands(P, v, T)
  BY DEF Stands

LEMMA SavingKept ==
  ASSUME IInv, [Next]_vars, Saving \subseteq Saving'
  PROVE  Shown \subseteq Shown' /\ onDisk' \subseteq Shown' /\ Exempt' \subseteq Shown'
         /\ Saving' \subseteq Shown'
  BY StoredGrows DEF TextsGrow, Shown, Exempt

LEMMA NextViewIsStored == IInv /\ [Next]_vars => ViewIsStored'
<1> SUFFICES ASSUME IInv, [Next]_vars PROVE ViewIsStored'
  OBVIOUS
<1>1. ASSUME NEW e \in Editors, Save(e) PROVE ViewIsStored'
  <2>1. views' = views /\ viewBase' = [viewBase EXCEPT ![e] = buffer.version]
    BY <1>1 DEF Save
  <2>2. Saving \subseteq Saving' /\ buffer.text \in Saving'
    <3> DEFINE x == [version |-> buffer.version, text |-> buffer.text, state |-> "writing"]
    <3>1. saves' = saves \cup {x}
      BY <1>1 DEF Save
    <3>2. x.text = buffer.text
      OBVIOUS
    <3> HIDE DEF x
    <3>3. QED
      BY <3>1, <3>2 DEF Saving
  <2>3. \A f \in views : Stands(Pairs', viewBase[f], Shown')
    BY <2>2, SavingKept, ViewKept
  <2>4. Stands(Pairs, buffer.version, Shown')
    BY <2>2, BufferPair, SavingKept DEF Stands
  <2>5. Stands(Pairs', buffer.version, Shown')
    BY <2>4, BufferPair, VersionKept
  <2>6. \A f \in views : viewBase'[f] \in {viewBase[f], buffer.version}
    BY <2>1 DEF IInv, TypeOK, VersionTypes
  <2>7. QED
    BY <2>1, <2>3, <2>5, <2>6 DEF ViewIsStored
<1>2. ASSUME NEW e \in Editors, Discard(e) PROVE ViewIsStored'
  <2>1. views' = views /\ viewBase' = [viewBase EXCEPT ![e] = buffer.version] /\ saves' = saves
    BY <1>2 DEF Discard
  <2>2. Saving' = Saving /\ buffer.text \in Exempt'
    BY <1>2, <2>1 DEF Discard, Saving, Exempt
  <2>3. \A f \in views : Stands(Pairs', viewBase[f], Shown')
    BY <2>2, SavingKept, ViewKept
  <2>4. Stands(Pairs, buffer.version, Shown')
    BY <2>2, BufferPair, SavingKept DEF Stands
  <2>5. Stands(Pairs', buffer.version, Shown')
    BY <2>4, BufferPair, VersionKept
  <2>6. \A f \in views : viewBase'[f] \in {viewBase[f], buffer.version}
    BY <2>1 DEF IInv, TypeOK, VersionTypes
  <2>7. QED
    BY <2>1, <2>3, <2>5, <2>6 DEF ViewIsStored
<1>3. ASSUME NEW e \in Editors, Join(e) PROVE ViewIsStored'
  <2>1. views' = views \cup {e} /\ e \notin views /\ saves' = saves
    BY <1>3 DEF Join, taskVars
  <2>2. Saving' = Saving
    BY <2>1 DEF Saving
  <2>3. \A f \in views : Stands(Pairs', viewBase[f], Shown')
    BY <2>2, SavingKept, ViewKept
  <2>4. \A f \in views : viewBase'[f] = viewBase[f]
    BY <1>3, <2>1 DEF Join, IInv, TypeOK, VersionTypes
  <2>5. Stands(Pairs', viewBase'[e], Shown')
    <3>1. CASE Loaded
      <4>1. viewBase'[e] = buffer.version /\ buffer.text \in Exempt'
        BY <1>3, <3>1 DEF Join, Exempt, IInv, TypeOK, VersionTypes
      <4>2. Stands(Pairs, buffer.version, Shown')
        BY <2>2, <4>1, BufferPair, SavingKept DEF Stands
      <4>3. QED
        BY <4>1, <4>2, BufferPair, VersionKept
    <3>2. CASE ~Loaded
      <4>1. viewBase'[e] = None
        BY <1>3, <3>2, <2>1 DEF Join, IInv, Past
      <4>2. \A p \in Pairs' : p.version # None
        BY NextOneText DEF OneText, None
      <4>3. QED
        BY <4>1, <4>2 DEF Stands
    <3>3. QED
      BY <3>1, <3>2
  <2>6. QED
    BY <2>1, <2>3, <2>4, <2>5 DEF ViewIsStored
<1>4. CASE Rename
  <2>1. UNCHANGED <<views, viewBase>>
    BY <1>4 DEF Rename, viewVars
  <2>2. Saving \subseteq Exempt'
    BY <1>4 DEF Rename, Saving, Exempt
  <2>3. Shown \subseteq Shown'
    BY <2>2, StoredGrows DEF TextsGrow, Shown, Exempt
  <2>4. QED
    BY <2>1, <2>3, ViewKept DEF ViewIsStored
<1>5. CASE LoadDone
  <2>1. /\ viewBase' = Told(clock + 1) /\ load.text \in onDisk
        /\ clock + 1 \in Nat /\ load.text \in Texts
        /\ buffer' = Refreshed(clock + 1, load.text) /\ views' = views
    BY <1>5, LoadDoneIs DEF LoadDone
  <2>2. Item(clock + 1, load.text) \in Pairs'
    BY <2>1, BufferIsPair, RefreshedIs
  <2>3. load.text \in Shown'
    BY <2>1, StoredGrows DEF TextsGrow, Shown
  <2>4. Stands(Pairs', clock + 1, Shown')
    BY <2>2, <2>3, NewPairStands
  <2>5. \A e \in views : viewBase'[e] = clock + 1
    BY <2>1 DEF Told, IInv, TypeOK, VersionTypes
  <2>6. QED
    BY <2>1, <2>4, <2>5 DEF ViewIsStored
<1>6. ASSUME NEW r \in reloads, ReloadDone(r) PROVE ViewIsStored'
  <2>1. Arrival(r.text)
    BY <1>6, ReloadDoneIs
  <2>2. saves' = saves /\ views' = views /\ viewBase' \in {viewBase, Told(clock + 1)}
    BY <2>1 DEF Arrival, Taken, Diffed, Refused
  <2>3. \A e \in views : viewBase'[e] \in {viewBase[e], clock + 1}
    BY <2>2 DEF Told, IInv, TypeOK, VersionTypes
  <2>4. Saving' = Saving
    BY <2>2 DEF Saving
  <2>5. \A e \in views : Stands(Pairs', viewBase[e], Shown')
    BY <2>4, SavingKept, ViewKept
  <2>6. Stands(Pairs', clock + 1, Shown')
    BY <2>1, <2>4, ArrivalStands, StandsForMore, SavingKept
  <2>7. QED
    BY <2>2, <2>3, <2>5, <2>6 DEF ViewIsStored
<1>7. ASSUME NEW r \in discards, DiscardDone(r) PROVE ViewIsStored'
  <2>1. Arrival(r.text)
    BY <1>7, DiscardDoneIs
  <2>2. saves' = saves /\ views' = views /\ viewBase' \in {viewBase, Told(clock + 1)}
    BY <2>1 DEF Arrival, Taken, Diffed, Refused
  <2>3. \A e \in views : viewBase'[e] \in {viewBase[e], clock + 1}
    BY <2>2 DEF Told, IInv, TypeOK, VersionTypes
  <2>4. Saving' = Saving
    BY <2>2 DEF Saving
  <2>5. \A e \in views : Stands(Pairs', viewBase[e], Shown')
    BY <2>4, SavingKept, ViewKept
  <2>6. Stands(Pairs', clock + 1, Shown')
    BY <2>1, <2>4, ArrivalStands, StandsForMore, SavingKept
  <2>7. QED
    BY <2>2, <2>3, <2>5, <2>6 DEF ViewIsStored
<1>8. ASSUME NEW s \in saves, SaveWrites(s) PROVE ViewIsStored'
  <2>1. PICK x \in {"written", "failed"} : saves' = (saves \ {s}) \cup {[s EXCEPT !.state = x]}
    BY <1>8 DEF SaveWrites
  <2>2. s \in [version : Nat, text : Texts, state : {"writing", "written", "failed"}]
    BY DEF IInv, TypeOK, TaskTypes
  <2>3. [s EXCEPT !.state = x].text = s.text
    BY <2>2
  <2>4. Saving \subseteq Saving'
    BY <2>1, <2>3 DEF Saving
  <2>5. UNCHANGED <<views, viewBase>>
    BY <1>8 DEF SaveWrites, viewVars
  <2>6. QED
    BY <2>4, <2>5, SavingKept, ViewKept DEF ViewIsStored
<1>9. ASSUME NEW s \in saves, SaveDone(s) PROVE ViewIsStored'
  <2>1. views' = views /\ saves' = saves \ {s}
    BY <1>9 DEF SaveDone
  <2>2. CASE s.state = "written"
    <3>1. viewBase' = viewBase
      BY <1>9, <2>2 DEF SaveDone
    <3>2. s.text \in onDisk'
      BY <2>2, StoredGrows DEF TextsGrow, IInv, ReadIsStored
    <3>3. \A t \in Saving : t \in Saving' \/ t = s.text
      BY <2>1 DEF Saving
    <3>4. Shown \subseteq Shown'
      BY <3>2, <3>3, StoredGrows DEF TextsGrow, Shown, Exempt
    <3>5. QED
      BY <2>1, <3>1, <3>4, ViewKept DEF ViewIsStored
  <2>3. CASE s.state # "written"
    <3>1. \A e \in views : viewBase'[e] = base
      BY <1>9, <2>3 DEF SaveDone, IInv, TypeOK, VersionTypes
    <3>2. Stands(Pairs', base, Shown')
      BY BaseKept, StandsForMore DEF Shown
    <3>3. QED
      BY <2>1, <3>1, <3>2 DEF ViewIsStored
  <2>4. QED
    BY <2>2, <2>3
<1>10. ASSUME NEW d \in diffs, ApplyDiff(d) PROVE ViewIsStored'
  <2>1. UNCHANGED <<views, saves>> /\ viewBase' \in {viewBase, Told(d.version)}
    BY <1>10, ApplyDiffIs DEF ApplyDiff, taskVars
  <2>2. \A e \in views : viewBase'[e] \in {viewBase[e], d.version}
    BY <2>1 DEF Told, IInv, TypeOK, VersionTypes
  <2>3. Saving' = Saving
    BY <2>1 DEF Saving
  <2>4. \A e \in views : Stands(Pairs', viewBase[e], Shown')
    BY <2>3, SavingKept, ViewKept
  <2>5. d.new \in onDisk'
    BY StoredGrows DEF TextsGrow, IInv, DiffIsStored
  <2>6. Stands(Pairs, d.version, Shown')
    BY <2>5, DiffPair DEF Stands, Shown
  <2>7. Stands(Pairs', d.version, Shown')
    BY <2>6, DiffPair, VersionKept
  <2>8. QED
    BY <2>1, <2>2, <2>4, <2>7 DEF ViewIsStored
<1>11. ASSUME
      \/ UNCHANGED vars
      \/ WatchStarts
      \/ Edit
      \/ Undo
      \/ OutsideWrite
      \/ LoadRead
      \/ Watch
      \/ (\E r \in reloads : ReloadRead(r))
      \/ (\E r \in discards : DiscardRead(r))
      \/ (\E d \in diffs : DiffComputed(d))
      PROVE UNCHANGED <<views, viewBase, saves>>
  BY <1>11 DEF WatchStarts, Edit, Undo, OutsideWrite, LoadRead, Watch, ReloadRead,
    DiscardRead, DiffComputed, modelVars, taskVars, viewVars, history, vars
<1>12. ASSUME UNCHANGED <<views, viewBase, saves>> PROVE ViewIsStored'
  <2>1. Saving' = Saving
    BY <1>12 DEF Saving
  <2>2. QED
    BY <1>12, <2>1, SavingKept, ViewKept DEF ViewIsStored
<1>13. QED
  BY <1>1, <1>2, <1>3, <1>4, <1>5, <1>6, <1>7, <1>8, <1>9, <1>10, <1>11, <1>12 DEF Next,
    UserActs, Tasks

-----------------------------------------------------------------------------
\* The invariant always holds.

LEMMA InitIInv == Init => IInv
<1> SUFFICES ASSUME Init PROVE IInv
  OBVIOUS
<1>1. /\ buffer = Refreshed(1, Empty) /\ Empty \in Texts /\ 1 \in Nat /\ 1 \in Texts
      /\ disk = 1 /\ changed = FALSE /\ load = [state |-> "reading", text |-> Empty]
      /\ fileVersion = 0 /\ base = 0 /\ pending = 0 /\ clock = 1
      /\ views \subseteq Editors /\ viewBase = [e \in Editors |-> 0]
      /\ diffs = {} /\ reloads = {} /\ saves = {} /\ discards = {}
      /\ onDisk = {1} /\ waived = {} /\ adopted = {} /\ renamed = {} /\ watch = "nothing"
  <2>1. (CHOOSE e \in Editors : TRUE) \in Editors
    BY FileBufferAssumption DEF FileBufferAssumption
  <2>2. QED
    BY <2>1 DEF Init, None, Empty, Texts
<1>2. /\ buffer \in Buffers /\ buffer.version = 1 /\ buffer.text = Empty
      /\ Items(buffer) = {Item(1, Empty)} /\ TopOf(buffer) = Item(1, Empty)
  BY <1>1, RefreshedIs
<1>3. TypeOK
  <2>1. VersionTypes
    BY <1>1 DEF VersionTypes
  <2>2. BufferTypes
    BY <1>2, BuffersAreTyped
  <2>3. TaskTypes
    BY <1>1 DEF TaskTypes
  <2>4. FileTypes
    BY <1>1, FileBufferAssumption DEF Init, FileTypes, FileBufferAssumption, Texts,
      Watches
  <2>5. QED
    BY <2>1, <2>2, <2>3, <2>4 DEF TypeOK
<1>4. Pairs = {Item(1, Empty)}
  BY <1>1, <1>2 DEF Pairs, DiffPairs, SavePairs
<1>5. Item(1, Empty).version = 1 /\ Item(1, Empty).text = Empty
  BY DEF Item
<1>6. OneText
  BY <1>1, <1>4, <1>5 DEF OneText
<1>7. Past /\ LoadedFirst
  BY <1>1 DEF Past, LoadedFirst, None
<1>8. TopShown
  BY <1>2, <1>5 DEF TopShown, Top, TopOf
<1>9. ReadIsStored /\ DiffIsStored
  BY <1>1 DEF ReadIsStored, DiffIsStored
<1>10. BaseIsStored /\ ViewIsStored
  BY <1>1, <1>4, <1>5 DEF BaseIsStored, ViewIsStored, Stands
<1>11. QED
  BY <1>3, <1>6, <1>7, <1>8, <1>9, <1>10 DEF IInv

LEMMA NextIInv == IInv /\ [Next]_vars => IInv'
  BY NextTypes, NextOneText, NextPast, NextLoadedFirst, NextTopShown, NextReadIsStored,
     NextDiffIsStored, NextBaseIsStored, NextViewIsStored DEF IInv

LEMMA InvariantAlways == Spec => []IInv
  BY InitIInv, NextIInv, PTL DEF Spec

\* An editor without unsaved changes shows a stored text.
LEMMA CleanStands == IInv => CleanIsStored
<1> SUFFICES ASSUME IInv, NEW e \in views, Clean(e)
             PROVE  buffer.text \in onDisk \cup waived \cup adopted \cup {s.text : s \in saves}
  BY DEF CleanIsStored
<1>1. Item(viewBase[e], buffer.text) \in Pairs
  BY MatchIsPair, BuffersAreTyped DEF IInv, TypeOK, Clean
<1>2. buffer.text \in Shown
  BY <1>1 DEF IInv, ViewIsStored, Stands, Item
<1>3. QED
  BY <1>2 DEF Shown, Exempt, Saving

\* One step replaces only a text that may be.
NoLoss == Replaced => buffer.text \in onDisk \cup waived' \cup renamed

LEMMA NothingLost == IInv /\ [Next]_vars => NoLoss
<1> SUFFICES ASSUME IInv, [Next]_vars PROVE NoLoss
  OBVIOUS
<1>1. CASE Edit
  BY <1>1 DEF NoLoss, Replaced
<1>2. CASE Undo
  BY <1>2 DEF NoLoss, Replaced
<1>3. CASE LoadDone
  BY <1>3, LoadDoneIs DEF NoLoss, Replaced
<1>4. ASSUME NEW r \in reloads, ReloadDone(r) PROVE NoLoss
  <2>1. Arrival(r.text)
    BY <1>4, ReloadDoneIs
  <2>2. buffer.text \in Stored' \/ buffer' = buffer
    BY <2>1 DEF Arrival, Refused
  <2>3. onDisk' = onDisk /\ renamed' = renamed
    BY <2>1 DEF Arrival
  <2>4. QED
    BY <2>2, <2>3 DEF Stored, NoLoss, Replaced
<1>5. ASSUME NEW r \in discards, DiscardDone(r) PROVE NoLoss
  <2>1. Arrival(r.text)
    BY <1>5, DiscardDoneIs
  <2>2. buffer.text \in Stored' \/ buffer' = buffer
    BY <2>1 DEF Arrival, Refused
  <2>3. onDisk' = onDisk /\ renamed' = renamed
    BY <2>1 DEF Arrival
  <2>4. QED
    BY <2>2, <2>3 DEF Stored, NoLoss, Replaced
<1>6. ASSUME NEW d \in diffs, ApplyDiff(d) PROVE NoLoss
  <2>1. buffer.text = d.old \/ buffer' = buffer
    BY <1>6, ApplyDiffIs
  <2>2. d.old \in onDisk \cup waived \cup renamed /\ waived' = waived
    BY <1>6 DEF IInv, DiffIsStored, Stored, ApplyDiff, keptTexts
  <2>3. QED
    BY <2>1, <2>2 DEF NoLoss, Replaced
<1>7. ASSUME
      \/ UNCHANGED vars
      \/ WatchStarts
      \/ Rename
      \/ (\E e \in Editors : Save(e))
      \/ (\E e \in Editors : Discard(e))
      \/ (\E e \in Editors : Join(e))
      \/ OutsideWrite
      \/ LoadRead
      \/ Watch
      \/ (\E r \in reloads : ReloadRead(r))
      \/ (\E r \in discards : DiscardRead(r))
      \/ (\E s \in saves : SaveWrites(s))
      \/ (\E s \in saves : SaveDone(s))
      \/ (\E d \in diffs : DiffComputed(d))
      PROVE UNCHANGED buffer
  BY <1>7 DEF WatchStarts, Rename, Save, Discard, Join, OutsideWrite, LoadRead, Watch,
    ReloadRead, DiscardRead, SaveWrites, SaveDone, DiffComputed, modelVars, taskVars,
    viewVars, history, vars
<1>8. ASSUME UNCHANGED buffer PROVE NoLoss
  BY <1>8 DEF NoLoss, Replaced
<1>9. QED
  BY <1>1, <1>2, <1>3, <1>4, <1>5, <1>6, <1>7, <1>8 DEF Next, UserActs, Tasks

-----------------------------------------------------------------------------
\* The strengthening of CleanIsCurrent.

\* A task on the file is the only one.
Alone ==
  /\ \A r \in reloads : reloads = {r} /\ discards = {} /\ saves = {} /\ diffs = {}
  /\ \A r \in discards : discards = {r} /\ reloads = {} /\ saves = {} /\ diffs = {}
  /\ \A s \in saves : saves = {s} /\ reloads = {} /\ discards = {} /\ diffs = {}
  /\ \A d \in diffs : diffs = {d} /\ reloads = {} /\ discards = {} /\ saves = {}

\* What was read, and was not written over since, is in the file; what was written
\* is yet to be reported, or never will be.
Fresh ==
  ~changed /\ ~missed =>
    /\ load.state = "read" => load.text = disk
    /\ \A r \in reloads \cup discards : r.done => r.text = disk
    /\ \A d \in diffs : d.new = disk
    /\ \A s \in saves : s.state # "written"

\* The versions of the model and of the editors stand for what is in the file, is
\* exempt, or is being saved.
Current ==
  ~changed /\ ~missed /\ ~refusal /\ load.state = "done" /\ reloads = {} /\ diffs = {} =>
    /\ Stands(Pairs, base, {disk} \cup Exempt)
    /\ \A e \in views : Stands(Pairs, viewBase[e], {disk} \cup Exempt \cup Saving)

UncrossedInv == ~crossed => Alone /\ Fresh /\ Current

\* Who begins a task while another is under way crosses it, for good.
LEMMA BeginsAlone ==
  ASSUME IInv, crossed' = (crossed \/ Busy), ~crossed'
  PROVE  /\ ~crossed /\ load.state = "done"
         /\ reloads = {} /\ discards = {} /\ saves = {} /\ diffs = {}
<1>1. crossed \in BOOLEAN /\ Busy \in BOOLEAN
  BY BusyIsBoolean DEF IInv, TypeOK, FileTypes
<1>2. ~crossed /\ ~Busy
  BY <1>1
<1>3. QED
  BY <1>2 DEF Busy

LEMMA NotYetCrossed ==
  ASSUME IInv, [Next]_vars, ~crossed'
  PROVE  ~crossed
<1>1. CASE crossed' = crossed
  BY <1>1
<1>2. CASE crossed' = (crossed \/ Busy)
  BY <1>2, BeginsAlone
<1>4. CASE Watch
  BY <1>1, <1>2, <1>4 DEF Watch
<1>5. ASSUME NEW e \in Editors, Save(e) \/ Discard(e) PROVE crossed' = (crossed \/ Busy)
  BY <1>5 DEF Save, Discard
<1>6. ASSUME NEW r \in reloads, ReloadDone(r) PROVE crossed' = crossed
  BY <1>6 DEF ReloadDone
<1>7. ASSUME NEW r \in discards, DiscardDone(r) PROVE crossed' = crossed
  BY <1>7 DEF DiscardDone
<1>8. ASSUME NEW d \in diffs, ApplyDiff(d) PROVE crossed' = crossed
  BY <1>8 DEF ApplyDiff
<1>9. ASSUME
      \/ UNCHANGED vars
      \/ WatchStarts
      \/ Edit
      \/ Undo
      \/ Rename
      \/ (\E e \in Editors : Join(e))
      \/ OutsideWrite
      \/ LoadRead
      \/ LoadDone
      \/ (\E r \in reloads : ReloadRead(r))
      \/ (\E r \in discards : DiscardRead(r))
      \/ (\E s \in saves : SaveWrites(s))
      \/ (\E s \in saves : SaveDone(s))
      \/ (\E d \in diffs : DiffComputed(d))
      PROVE crossed' = crossed
  BY <1>9 DEF WatchStarts, Edit, Undo, Rename, Join, OutsideWrite, LoadRead, LoadDone,
    ReloadRead, DiscardRead, SaveWrites, SaveDone, DiffComputed, history, vars
<1>10. QED
  BY <1>1, <1>2, <1>4, <1>5, <1>6, <1>7, <1>8, <1>9 DEF Next, UserActs, Tasks

\* A report begins one reload, or is dropped.
LEMMA WatchIs ==
  ASSUME Watch
  PROVE  /\ UNCHANGED <<discards, saves, diffs, load, disk>>
         /\ \/ /\ crossed' = (crossed \/ Busy)
               /\ \E r : reloads' = reloads \cup {r} /\ ~r.done
            \/ reloads' = reloads /\ missed'
<1>1. UNCHANGED <<discards, saves, diffs, load, disk>>
  BY DEF Watch, modelVars
<1>2. CASE fileVersion = None
  BY <1>1, <1>2 DEF Watch
<1>3. CASE fileVersion # None
  <2>1. \E i \in 1..MaxReads : reloads' = reloads \cup {[id |-> i, text |-> Empty, done |-> FALSE]}
    BY <1>3 DEF Watch
  <2>2. \A i \in 1..MaxReads : ~[id |-> i, text |-> Empty, done |-> FALSE].done
    OBVIOUS
  <2>3. \E r : reloads' = reloads \cup {r} /\ ~r.done
    BY <2>1, <2>2
  <2>4. QED
    BY <1>1, <1>3, <2>3 DEF Watch
<1>4. QED
  BY <1>2, <1>3

LEMMA DiscardIs ==
  ASSUME NEW e, Discard(e)
  PROVE  \E r : discards' = discards \cup {r} /\ ~r.done
<1>1. \E i \in 1..MaxReads : discards' = discards \cup {[id |-> i, text |-> Empty, done |-> FALSE]}
  BY DEF Discard
<1>2. \A i \in 1..MaxReads : ~[id |-> i, text |-> Empty, done |-> FALSE].done
  OBVIOUS
<1>3. QED
  BY <1>1, <1>2

\* A text that arrives when nothing else is under way leaves at most one diff, to it.
LEMMA ArrivalAlone ==
  ASSUME NEW text, Arrival(text), diffs = {}
  PROVE  diffs' = {} \/ \E d : diffs' = {d} /\ d.new = text
<1>1. CASE Diffed(text, clock + 1)
  <2>1. PICK others \in SUBSET diffs, b \in Nat :
          diffs' = others \cup {[version |-> clock + 1, base |-> b, old |-> buffer.text,
                                new |-> text, done |-> FALSE]}
    BY <1>1 DEF Diffed
  <2>2. others = {}
    OBVIOUS
  <2>3. [version |-> clock + 1, base |-> b, old |-> buffer.text, new |-> text, done |-> FALSE].new = text
    OBVIOUS
  <2>4. QED
    BY <2>1, <2>2, <2>3
<1>2. CASE diffs' \subseteq diffs
  BY <1>2
<1>3. QED
  BY <1>1, <1>2 DEF Arrival, Taken, Refused

LEMMA NextAlone ==
  ASSUME IInv, [Next]_vars, ~crossed', Alone
  PROVE  Alone'
<1>1. CASE Watch
  <2>1. UNCHANGED <<discards, saves, diffs>>
    BY <1>1, WatchIs
  <2>2. ASSUME NEW r, reloads' = reloads \cup {r}, crossed' = (crossed \/ Busy) PROVE Alone'
    <3>1. reloads = {} /\ discards' = {} /\ saves' = {} /\ diffs' = {}
      BY <2>1, <2>2, BeginsAlone
    <3>2. QED
      BY <2>2, <3>1 DEF Alone
  <2>3. CASE reloads' = reloads
    BY <2>1, <2>3 DEF Alone
  <2>4. QED
    BY <1>1, <2>2, <2>3, WatchIs
<1>2. ASSUME NEW e \in Editors, Save(e) PROVE Alone'
  <2>1. crossed' = (crossed \/ Busy) /\ UNCHANGED <<reloads, discards, diffs>>
    BY <1>2 DEF Save, modelVars
  <2>2. \E s : saves' = saves \cup {s}
    BY <1>2 DEF Save
  <2>3. saves = {} /\ reloads' = {} /\ discards' = {} /\ diffs' = {}
    BY <2>1, BeginsAlone
  <2>4. QED
    BY <2>2, <2>3 DEF Alone
<1>3. ASSUME NEW e \in Editors, Discard(e) PROVE Alone'
  <2>1. crossed' = (crossed \/ Busy) /\ UNCHANGED <<reloads, saves, diffs>>
    BY <1>3 DEF Discard, modelVars
  <2>2. \E r : discards' = discards \cup {r}
    BY <1>3, DiscardIs
  <2>3. discards = {} /\ reloads' = {} /\ saves' = {} /\ diffs' = {}
    BY <2>1, BeginsAlone
  <2>4. QED
    BY <2>2, <2>3 DEF Alone
<1>4. CASE Rename
  BY <1>4 DEF Rename, Alone
<1>5. ASSUME NEW r \in reloads, ReloadRead(r) PROVE Alone'
  <2>1. reloads = {r} /\ discards = {} /\ saves = {} /\ diffs = {}
    BY DEF Alone
  <2>2. reloads' = {ReadBy(r)} /\ UNCHANGED <<discards, saves, diffs>>
    BY <1>5, <2>1 DEF ReloadRead, modelVars
  <2>3. QED
    BY <2>1, <2>2 DEF Alone
<1>6. ASSUME NEW r \in discards, DiscardRead(r) PROVE Alone'
  <2>1. discards = {r} /\ reloads = {} /\ saves = {} /\ diffs = {}
    BY DEF Alone
  <2>2. discards' = {ReadBy(r)} /\ UNCHANGED <<reloads, saves, diffs>>
    BY <1>6, <2>1 DEF DiscardRead, modelVars
  <2>3. QED
    BY <2>1, <2>2 DEF Alone
<1>7. ASSUME NEW r \in reloads, ReloadDone(r) PROVE Alone'
  <2>1. reloads = {r} /\ discards = {} /\ saves = {} /\ diffs = {}
    BY DEF Alone
  <2>2. reloads' = {} /\ UNCHANGED <<discards, saves>>
    BY <1>7, <2>1 DEF ReloadDone
  <2>3. diffs' = {} \/ \E d : diffs' = {d}
    BY <1>7, <2>1, ReloadDoneIs, ArrivalAlone
  <2>4. QED
    BY <2>1, <2>2, <2>3 DEF Alone
<1>8. ASSUME NEW r \in discards, DiscardDone(r) PROVE Alone'
  <2>1. discards = {r} /\ reloads = {} /\ saves = {} /\ diffs = {}
    BY DEF Alone
  <2>2. discards' = {} /\ UNCHANGED <<reloads, saves>>
    BY <1>8, <2>1 DEF DiscardDone
  <2>3. diffs' = {} \/ \E d : diffs' = {d}
    BY <1>8, <2>1, DiscardDoneIs, ArrivalAlone
  <2>4. QED
    BY <2>1, <2>2, <2>3 DEF Alone
<1>9. ASSUME NEW s \in saves, SaveWrites(s) PROVE Alone'
  <2>1. saves = {s} /\ reloads = {} /\ discards = {} /\ diffs = {}
    BY DEF Alone
  <2>2. \E x : saves' = (saves \ {s}) \cup {x}
    BY <1>9 DEF SaveWrites
  <2>3. UNCHANGED <<reloads, discards, diffs>>
    BY <1>9 DEF SaveWrites, modelVars
  <2>4. QED
    BY <2>1, <2>2, <2>3 DEF Alone
<1>10. ASSUME NEW s \in saves, SaveDone(s) PROVE Alone'
  <2>1. saves = {s} /\ reloads = {} /\ discards = {} /\ diffs = {}
    BY DEF Alone
  <2>2. saves' = {} /\ UNCHANGED <<reloads, discards, diffs>>
    BY <1>10, <2>1 DEF SaveDone
  <2>3. QED
    BY <2>1, <2>2 DEF Alone
<1>11. ASSUME NEW d \in diffs, DiffComputed(d) PROVE Alone'
  <2>1. diffs = {d} /\ reloads = {} /\ discards = {} /\ saves = {}
    BY DEF Alone
  <2>2. \E x : diffs' = (diffs \ {d}) \cup {x}
    BY <1>11 DEF DiffComputed
  <2>3. UNCHANGED <<reloads, discards, saves>>
    BY <1>11 DEF DiffComputed, taskVars
  <2>4. QED
    BY <2>1, <2>2, <2>3 DEF Alone
<1>12. ASSUME NEW d \in diffs, ApplyDiff(d) PROVE Alone'
  <2>1. diffs = {d} /\ reloads = {} /\ discards = {} /\ saves = {}
    BY DEF Alone
  <2>2. diffs' = {} /\ UNCHANGED <<reloads, discards, saves>>
    BY <1>12, <2>1 DEF ApplyDiff, taskVars
  <2>3. QED
    BY <2>1, <2>2 DEF Alone
<1>13. ASSUME
      \/ UNCHANGED vars
      \/ WatchStarts
      \/ Edit
      \/ Undo
      \/ (\E e \in Editors : Join(e))
      \/ OutsideWrite
      \/ LoadRead
      \/ LoadDone
      PROVE UNCHANGED <<reloads, discards, saves, diffs>>
  BY <1>13 DEF WatchStarts, Edit, Undo, Join, OutsideWrite, LoadRead, LoadDone, modelVars,
    taskVars, vars
<1>14. ASSUME UNCHANGED <<reloads, discards, saves, diffs>> PROVE Alone'
  BY <1>14 DEF Alone
<1>15. QED
  BY <1>1, <1>2, <1>3, <1>4, <1>5, <1>6, <1>7, <1>8, <1>9, <1>10, <1>11, <1>12, <1>13,
    <1>14 DEF Next, UserActs, Tasks

LEMMA ReadByIs == ASSUME NEW r \in ReadTask PROVE ReadBy(r).text = disk
  BY DEF ReadBy, ReadTask

LEMMA NextFresh ==
  ASSUME IInv, [Next]_vars, ~crossed', Alone, Fresh
  PROVE  Fresh'
<1>1. CASE changed' \/ missed'
  BY <1>1 DEF Fresh
<1>2. CASE Watch
  <2>1. ASSUME NEW r, reloads' = reloads \cup {r}, ~r.done, crossed' = (crossed \/ Busy)
        PROVE  Fresh'
    <3>1. /\ load'.state = "done" /\ reloads = {}
          /\ discards' = {} /\ saves' = {} /\ diffs' = {}
      BY <1>2, <2>1, WatchIs, BeginsAlone
    <3>2. QED
      BY <2>1, <3>1 DEF Fresh
  <2>2. QED
    BY <1>1, <1>2, <2>1, WatchIs
<1>3. ASSUME NEW e \in Editors, Save(e) PROVE Fresh'
  <2>1. /\ crossed' = (crossed \/ Busy)
        /\ UNCHANGED <<disk, changed, missed, load, reloads, discards, diffs>>
    BY <1>3 DEF Save, modelVars
  <2>2. \A s \in saves' : s \in saves \/ s.state = "writing"
    BY <1>3 DEF Save
  <2>3. QED
    BY <2>1, <2>2 DEF Fresh
<1>4. ASSUME NEW e \in Editors, Discard(e) PROVE Fresh'
  <2>1. UNCHANGED <<disk, changed, missed, load, reloads, saves, diffs>>
    BY <1>4 DEF Discard, modelVars
  <2>2. \A r \in discards' : r \in discards \/ ~r.done
    BY <1>4, DiscardIs
  <2>3. QED
    BY <2>1, <2>2 DEF Fresh
<1>5. ASSUME NEW r \in reloads, ReloadRead(r) PROVE Fresh'
  <2>1. load.state = "done" /\ reloads = {r} /\ discards = {} /\ saves = {} /\ diffs = {}
    BY DEF Alone, IInv, LoadedFirst
  <2>2. reloads' = {ReadBy(r)} /\ UNCHANGED <<disk, load, discards, saves, diffs>>
    BY <1>5, <2>1 DEF ReloadRead, modelVars
  <2>3. ReadBy(r).text = disk
    BY ReadByIs DEF IInv, TypeOK, TaskTypes
  <2>4. QED
    BY <2>1, <2>2, <2>3 DEF Fresh
<1>6. ASSUME NEW r \in discards, DiscardRead(r) PROVE Fresh'
  <2>1. UNCHANGED <<disk, changed, missed, load, reloads, saves, diffs>>
    BY <1>6 DEF DiscardRead, history, modelVars
  <2>2. ReadBy(r).text = disk
    BY ReadByIs DEF IInv, TypeOK, TaskTypes
  <2>3. \A q \in discards' : q \in discards \/ q.text = disk
    BY <1>6, <2>2 DEF DiscardRead
  <2>4. QED
    BY <2>1, <2>3 DEF Fresh
<1>7. ASSUME NEW r \in reloads, ReloadDone(r) PROVE Fresh'
  <2>1. Arrival(r.text) /\ diffs = {} /\ r.done /\ reloads' \subseteq reloads
    BY <1>7, ReloadDoneIs DEF Alone, ReloadDone
  <2>2. UNCHANGED <<disk, changed, missed, load, discards, saves>>
    BY <1>7 DEF ReloadDone
  <2>3. \A d \in diffs' : d.new = r.text
    BY <2>1, ArrivalAlone
  <2>4. QED
    BY <2>1, <2>2, <2>3 DEF Fresh
<1>8. ASSUME NEW r \in discards, DiscardDone(r) PROVE Fresh'
  <2>1. Arrival(r.text) /\ diffs = {} /\ r.done /\ discards' \subseteq discards
    BY <1>8, DiscardDoneIs DEF Alone, DiscardDone
  <2>2. UNCHANGED <<disk, changed, missed, load, reloads, saves>>
    BY <1>8 DEF DiscardDone
  <2>3. \A d \in diffs' : d.new = r.text
    BY <2>1, ArrivalAlone
  <2>4. QED
    BY <2>1, <2>2, <2>3 DEF Fresh
<1>9. ASSUME NEW s \in saves, SaveWrites(s) PROVE Fresh'
  <2>1. UNCHANGED <<load, reloads, discards, diffs>>
    BY <1>9 DEF SaveWrites, modelVars
  <2>2. CASE changed' \/ missed'
    BY <2>2 DEF Fresh
  <2>3. CASE saves' = (saves \ {s}) \cup {[s EXCEPT !.state = "failed"]}
             /\ UNCHANGED <<disk, changed, missed>>
    <3>1. [s EXCEPT !.state = "failed"].state = "failed"
      BY DEF IInv, TypeOK, TaskTypes
    <3>2. QED
      BY <2>1, <2>3, <3>1 DEF Fresh
  <2>4. QED
    BY <1>9, <2>2, <2>3 DEF SaveWrites, Watched
<1>10. ASSUME NEW s \in saves, SaveDone(s) PROVE Fresh'
  BY <1>10 DEF SaveDone, Fresh, history
<1>11. ASSUME NEW d \in diffs, DiffComputed(d) PROVE Fresh'
  <2>1. UNCHANGED <<disk, changed, missed, load, reloads, discards, saves>>
    BY <1>11 DEF DiffComputed, history, taskVars
  <2>2. [d EXCEPT !.done = TRUE].new = d.new
    BY DEF IInv, TypeOK, TaskTypes
  <2>3. \A q \in diffs' : q \in diffs \/ q.new = d.new
    BY <1>11, <2>2 DEF DiffComputed
  <2>4. QED
    BY <2>1, <2>3 DEF Fresh
<1>12. ASSUME NEW d \in diffs, ApplyDiff(d) PROVE Fresh'
  BY <1>12 DEF ApplyDiff, taskVars, Fresh
<1>13. CASE LoadRead
  <2>1. reloads = {} /\ discards = {} /\ saves = {} /\ diffs = {}
    BY <1>13 DEF LoadRead, IInv, LoadedFirst
  <2>2. UNCHANGED <<disk, reloads, discards, saves, diffs>> /\ load'.text = disk
    BY <1>13 DEF LoadRead, modelVars
  <2>3. QED
    BY <2>1, <2>2 DEF Fresh
<1>14. CASE LoadDone
  <2>1. UNCHANGED <<disk, changed, missed, reloads, discards, saves, diffs>> /\ load'.state = "done"
    BY <1>14 DEF LoadDone, history, IInv, TypeOK, TaskTypes
  <2>2. QED
    BY <2>1 DEF Fresh
<1>15. ASSUME
      \/ UNCHANGED vars
      \/ WatchStarts
      \/ Edit
      \/ Undo
      \/ (\E e \in Editors : Join(e))
      PROVE UNCHANGED <<disk, changed, missed, load, reloads, discards, saves, diffs>>
  BY <1>15 DEF WatchStarts, Edit, Undo, Join, modelVars, taskVars, history, vars
<1>16. ASSUME UNCHANGED <<disk, changed, missed, load, reloads, discards, saves, diffs>> PROVE Fresh'
  BY <1>16 DEF Fresh
<1>17. CASE OutsideWrite
  BY <1>1, <1>17 DEF OutsideWrite, Watched
<1>18. CASE Rename
  <2>1. load'.state = "done" /\ reloads' = {} /\ discards' = {} /\ saves' = {} /\ diffs' = {}
    BY <1>18 DEF Rename, Loaded, IInv, LoadedFirst
  <2>2. QED
    BY <2>1 DEF Fresh
<1>19. QED
  BY <1>1, <1>2, <1>3, <1>4, <1>5, <1>6, <1>7, <1>8, <1>9, <1>10, <1>11, <1>12, <1>13,
    <1>14, <1>15, <1>16, <1>17, <1>18 DEF Next, UserActs, Tasks

\* What an old version stands for, when the file is not written.
LEMMA CurrentKept ==
  ASSUME IInv, [Next]_vars, disk' = disk,
         Stands(Pairs, base, {disk} \cup Exempt),
         \A e \in views : Stands(Pairs, viewBase[e], {disk} \cup Exempt \cup Saving),
         Saving \subseteq Saving'
  PROVE  /\ Stands(Pairs', base, {disk'} \cup Exempt')
         /\ \A e \in views : Stands(Pairs', viewBase[e], {disk'} \cup Exempt' \cup Saving')
<1>1. Exempt \subseteq Exempt'
  BY StoredGrows DEF TextsGrow, Exempt
<1>2. base \in Nat /\ base <= clock /\ \A e \in views : viewBase[e] \in Nat /\ viewBase[e] <= clock
  BY DEF IInv, TypeOK, VersionTypes, Past
<1>3. Stands(Pairs, base, {disk'} \cup Exempt')
  BY <1>1, StandsForMore
<1>4. \A e \in views : Stands(Pairs, viewBase[e], {disk'} \cup Exempt' \cup Saving')
  BY <1>1, StandsForMore
<1>5. QED
  BY <1>2, <1>3, <1>4, VersionKept

\* An update that is taken is what the model and the editors go by.
LEMMA CurrentTaken ==
  ASSUME IInv, NEW v, NEW t, Stands(Pairs', v, {t}), base' = v, viewBase' = Told(v),
         views' = views, ~changed' /\ ~missed' => t = disk'
  PROVE  Current'
<1>1. CASE changed' \/ missed'
  BY <1>1 DEF Current
<1>2. CASE ~changed' /\ ~missed'
  <2>1. \A e \in views : viewBase'[e] = v
    BY DEF Told, IInv, TypeOK, VersionTypes
  <2>2. \A S : t \in S => Stands(Pairs', v, S)
    BY DEF Stands
  <2>3. QED
    BY <1>2, <2>1, <2>2 DEF Current
<1>3. QED
  BY <1>1, <1>2

\* One editor goes by the text as it is, which is given up or being saved.
LEMMA CurrentTold ==
  ASSUME IInv, [Next]_vars, Current, NEW e \in Editors,
         UNCHANGED <<disk, changed, missed, refusal, load, reloads, diffs, base>>,
         Saving \subseteq Saving', views' = views \cup {e},
         viewBase' = [viewBase EXCEPT ![e] = buffer.version],
         buffer.text \in Exempt' \cup Saving'
  PROVE  Current'
<1> SUFFICES ASSUME ~changed, ~missed, ~refusal, load.state = "done", reloads = {}, diffs = {}
             PROVE  /\ Stands(Pairs', base', {disk'} \cup Exempt')
                    /\ \A f \in views' : Stands(Pairs', viewBase'[f], {disk'} \cup Exempt' \cup Saving')
  BY DEF Current
<1>1. /\ Stands(Pairs', base, {disk'} \cup Exempt')
      /\ \A f \in views : Stands(Pairs', viewBase[f], {disk'} \cup Exempt' \cup Saving')
  BY CurrentKept DEF Current
<1>2. Stands(Pairs', buffer.version, {disk'} \cup Exempt' \cup Saving')
  <2>1. Stands(Pairs', buffer.version, {buffer.text})
    BY BufferPair, VersionKept
  <2>2. QED
    BY <2>1, StandsForMore
<1>3. \A f \in views' : viewBase'[f] = IF f = e THEN buffer.version ELSE viewBase[f]
  BY DEF IInv, TypeOK, VersionTypes
<1>4. QED
  BY <1>1, <1>2, <1>3

\* A reload is taken, is diffed, or is refused.
LEMMA ReloadAnswered ==
  ASSUME NEW r \in reloads, ReloadDone(r)
  PROVE  \/ Taken(r.text, clock + 1)
         \/ diffs' # {}
         \/ refusal'
<1>1. \A b : Populate(r.text, b, NewVersion) => Taken(r.text, clock + 1) \/ diffs' # {}
  BY DEF Populate, Taken, Told, Answer, NewVersion
<1>2. \A b : Answer(FALSE, b) => refusal'
  BY DEF Answer
<1>3. QED
  BY <1>1, <1>2 DEF ReloadDone, FileUpdated

LEMMA DiscardAnswered ==
  ASSUME NEW r \in discards, DiscardDone(r)
  PROVE  Taken(r.text, clock + 1) \/ diffs' # {}
  BY DEF DiscardDone, Populate, Taken, Told, Answer, NewVersion

LEMMA NextCurrent ==
  ASSUME IInv, [Next]_vars, ~crossed', Alone, Fresh, Current
  PROVE  Current'
<1>1. CASE changed' \/ missed' \/ reloads' # {} \/ diffs' # {} \/ refusal'
  BY <1>1 DEF Current
<1>2. CASE Watch
  <2>1. reloads' # {} \/ missed'
    BY <1>2, WatchIs
  <2>2. QED
    BY <1>1, <2>1
<1>3. ASSUME NEW e \in Editors, Save(e) PROVE Current'
  <2>1. UNCHANGED <<disk, changed, missed, refusal, load, reloads, diffs, base>>
    BY <1>3 DEF Save, modelVars
  <2>2. views' = views \cup {e} /\ viewBase' = [viewBase EXCEPT ![e] = buffer.version]
    BY <1>3 DEF Save
  <2>3. Saving \subseteq Saving' /\ buffer.text \in Saving'
    <3> DEFINE x == [version |-> buffer.version, text |-> buffer.text, state |-> "writing"]
    <3>1. saves' = saves \cup {x}
      BY <1>3 DEF Save
    <3>2. x.text = buffer.text
      OBVIOUS
    <3> HIDE DEF x
    <3>3. QED
      BY <3>1, <3>2 DEF Saving
  <2>4. QED
    BY <2>1, <2>2, <2>3, CurrentTold
<1>4. ASSUME NEW e \in Editors, Discard(e) PROVE Current'
  <2>1. UNCHANGED <<disk, changed, missed, refusal, load, reloads, diffs, base, saves>>
    BY <1>4 DEF Discard, modelVars
  <2>2. views' = views \cup {e} /\ viewBase' = [viewBase EXCEPT ![e] = buffer.version]
    BY <1>4 DEF Discard
  <2>3. Saving' = Saving /\ buffer.text \in Exempt'
    BY <1>4, <2>1 DEF Saving, Discard, Exempt
  <2>4. QED
    BY <2>1, <2>2, <2>3, CurrentTold
<1>5. ASSUME NEW e \in Editors, Join(e) PROVE Current'
  <2>1. UNCHANGED <<disk, changed, missed, refusal, load, reloads, diffs, base, saves>>
    BY <1>5 DEF Join, modelVars, taskVars
  <2>2. views' = views \cup {e} /\ Saving' = Saving
    BY <1>5, <2>1 DEF Join, Saving
  <2>3. CASE Loaded
    <3>1. viewBase' = [viewBase EXCEPT ![e] = buffer.version] /\ buffer.text \in Exempt'
      BY <1>5, <2>3 DEF Join, Exempt
    <3>2. QED
      BY <2>1, <2>2, <3>1, CurrentTold
  <2>4. CASE ~Loaded
    <3>1. e \notin views /\ viewBase' = viewBase /\ viewBase[e] = None
      BY <1>5, <2>4 DEF Join, IInv, Past
    <3>2. \A S : Stands(Pairs', None, S)
      BY NextOneText DEF OneText, None, Stands
    <3>3. QED
      BY <2>1, <2>2, <3>1, <3>2, CurrentKept DEF Current
  <2>5. QED
    BY <2>3, <2>4
<1>6. CASE LoadDone
  <2>1. /\ viewBase' = Told(clock + 1) /\ base' = clock + 1 /\ views' = views
        /\ clock + 1 \in Nat /\ load.text \in Texts /\ buffer' = Refreshed(clock + 1, load.text)
    BY <1>6, LoadDoneIs DEF LoadDone
  <2>2. Stands(Pairs', clock + 1, {load.text})
    BY <2>1, BufferIsPair, RefreshedIs, NewPairStands
  <2>3. ~changed' /\ ~missed' => load.text = disk'
    BY <1>6 DEF LoadDone, Fresh, history
  <2>4. QED
    BY <2>1, <2>2, <2>3, CurrentTaken
<1>7. ASSUME NEW text, Arrival(text), Taken(text, clock + 1), ~changed /\ ~missed => text = disk PROVE Current'
  <2>1. base' = clock + 1 /\ viewBase' = Told(clock + 1) /\ UNCHANGED <<views, disk, changed, missed>>
    BY <1>7 DEF Arrival, Taken
  <2>2. Stands(Pairs', clock + 1, {text})
    <3>1. text \in Texts /\ clock + 1 \in Nat
      BY <1>7 DEF Arrival
    <3>2. Item(clock + 1, text) \in Pairs'
      BY <1>7, <3>1, BufferIsPair, RefreshedIs DEF Taken
    <3>3. QED
      BY <3>2, NewPairStands
  <2>3. QED
    BY <1>7, <2>1, <2>2, CurrentTaken
<1>8. ASSUME NEW r \in reloads, ReloadDone(r) PROVE Current'
  <2>1. ~changed /\ ~missed => r.text = disk
    BY <1>8 DEF ReloadDone, Fresh
  <2>2. QED
    BY <1>1, <1>7, <1>8, <2>1, ReloadDoneIs, ReloadAnswered
<1>9. ASSUME NEW r \in discards, DiscardDone(r) PROVE Current'
  <2>1. ~changed /\ ~missed => r.text = disk
    BY <1>9 DEF DiscardDone, Fresh
  <2>2. QED
    BY <1>1, <1>7, <1>9, <2>1, DiscardDoneIs, DiscardAnswered
<1>10. ASSUME NEW s \in saves, SaveWrites(s) PROVE Current'
  <2>1. CASE changed' \/ missed'
    BY <1>1, <2>1
  <2>2. CASE saves' = (saves \ {s}) \cup {[s EXCEPT !.state = "failed"]}
             /\ UNCHANGED <<disk, changed, missed>>
    <3>1. [s EXCEPT !.state = "failed"].text = s.text
      BY DEF IInv, TypeOK, TaskTypes
    <3>2. Saving \subseteq Saving'
      BY <2>2, <3>1 DEF Saving
    <3>3. UNCHANGED <<refusal, load, reloads, diffs, base, views, viewBase>>
      BY <1>10 DEF SaveWrites, modelVars, viewVars
    <3>4. QED
      BY <2>2, <3>2, <3>3, CurrentKept DEF Current
  <2>3. QED
    BY <1>10, <2>1, <2>2 DEF SaveWrites, Watched
<1>11. ASSUME NEW s \in saves, SaveDone(s) PROVE Current'
  <2>1. UNCHANGED <<disk, changed, missed, load, reloads, diffs, views, keptTexts, refusal>>
    BY <1>11 DEF SaveDone, history
  <2>2. CASE s.state = "written"
    BY <1>1, <2>1, <2>2 DEF Fresh
  <2>3. CASE s.state # "written"
    <3>1. base' = base /\ \A e \in views : viewBase'[e] = base
      BY <1>11, <2>3 DEF SaveDone, IInv, TypeOK, VersionTypes
    <3> SUFFICES ASSUME ~changed, ~missed, ~refusal, load.state = "done", reloads = {}, diffs = {}
                 PROVE  /\ Stands(Pairs', base', {disk'} \cup Exempt')
                        /\ \A f \in views' : Stands(Pairs', viewBase'[f], {disk'} \cup Exempt' \cup Saving')
      BY <2>1 DEF Current
    <3>2. Stands(Pairs, base, {disk} \cup Exempt) /\ base \in Nat /\ base <= clock
      BY DEF Current, IInv, TypeOK, VersionTypes, Past
    <3>3. Stands(Pairs', base, {disk} \cup Exempt)
      BY <3>2, VersionKept
    <3>4. Stands(Pairs', base, {disk} \cup Exempt \cup Saving')
      BY <3>3, StandsForMore
    <3>5. QED
      BY <2>1, <3>1, <3>3, <3>4 DEF keptTexts, Exempt
  <2>4. QED
    BY <2>2, <2>3
<1>12. ASSUME NEW d \in diffs, ApplyDiff(d) PROVE Current'
  <2>1. UNCHANGED <<disk, changed, missed, views>>
    BY <1>12 DEF ApplyDiff
  <2>2. CASE ~VersionMatch(d.base)
    <3>1. refusal'
      BY <1>12, <2>2 DEF ApplyDiff, Answer
    <3>2. QED
      BY <1>1, <3>1
  <2>3. CASE VersionMatch(d.base)
    <3>1. base' = d.version /\ viewBase' = Told(d.version)
      BY <1>12, <2>3 DEF ApplyDiff, Answer, Told
    <3>2. Stands(Pairs', d.version, {d.new})
      BY DiffPair, VersionKept
    <3>3. ~changed' /\ ~missed' => d.new = disk'
      BY <2>1 DEF Fresh
    <3>4. QED
      BY <2>1, <3>1, <3>2, <3>3, CurrentTaken
  <2>4. QED
    BY <2>2, <2>3
<1>13. ASSUME NEW r \in reloads, ReloadRead(r) PROVE Current'
  <2>1. reloads' # {}
    BY <1>13 DEF ReloadRead
  <2>2. QED
    BY <1>1, <2>1
<1>14. ASSUME NEW d \in diffs, DiffComputed(d) PROVE Current'
  <2>1. diffs' # {}
    BY <1>14 DEF DiffComputed
  <2>2. QED
    BY <1>1, <2>1
<1>15. CASE LoadRead
  <2>1. load'.state # "done"
    BY <1>15 DEF LoadRead
  <2>2. QED
    BY <2>1 DEF Current
<1>16. CASE OutsideWrite
  BY <1>1, <1>16 DEF OutsideWrite, Watched
<1>19. CASE Rename
  <2> SUFFICES ASSUME ~changed', ~missed', ~refusal' PROVE Current'
    BY <1>1
  <2>1. ~changed /\ ~missed /\ ~Busy
    BY <1>19, BusyIsBoolean DEF Rename, WatchMoves, IInv, TypeOK, FileTypes
  <2>2. /\ UNCHANGED <<disk, refusal, base, views, viewBase>>
        /\ load.state = "done" /\ reloads = {} /\ diffs = {} /\ saves = {}
    BY <1>19, <2>1 DEF Rename, viewVars, Busy
  <2>3. Saving = {}
    BY <2>2 DEF Saving
  <2>4. QED
    BY <2>1, <2>2, <2>3, CurrentKept DEF Current
<1>17. ASSUME
      \/ UNCHANGED vars
      \/ WatchStarts
      \/ Edit
      \/ Undo
      \/ (\E r \in discards : DiscardRead(r))
      PROVE UNCHANGED <<disk, changed, missed, refusal, load, reloads, diffs, saves, base, views, viewBase>>
  BY <1>17 DEF WatchStarts, Edit, Undo, DiscardRead, modelVars, taskVars, viewVars,
    history, vars
<1>18. ASSUME UNCHANGED <<disk, changed, missed, refusal, load, reloads, diffs, saves, base, views, viewBase>>
       PROVE Current'
  <2>1. Saving' = Saving
    BY <1>18 DEF Saving
  <2>2. QED
    BY <1>18, <2>1, CurrentKept DEF Current
<1>20. QED
  BY <1>1, <1>2, <1>3, <1>4, <1>5, <1>6, <1>8, <1>9, <1>10, <1>11, <1>12, <1>13,
    <1>14, <1>15, <1>16, <1>17, <1>18, <1>19 DEF Next, UserActs, Tasks

LEMMA InitUncrossed == Init => UncrossedInv
  BY DEF Init, UncrossedInv, Alone, Fresh, Current

LEMMA NextUncrossed == IInv /\ UncrossedInv /\ [Next]_vars => UncrossedInv'
  BY NotYetCrossed, NextAlone, NextFresh, NextCurrent DEF UncrossedInv

LEMMA UncrossedAlways == Spec => []UncrossedInv
  BY InitUncrossed, NextUncrossed, InvariantAlways, PTL DEF Spec

LEMMA UncrossedIsCurrent == IInv /\ UncrossedInv => CleanIsCurrent
<1> SUFFICES ASSUME IInv, UncrossedInv, ~Busy, ~changed, ~missed, ~crossed, ~refusal,
                    buffer.text \notin Exempt, NEW e \in views, Clean(e)
             PROVE  buffer.text = disk
  BY DEF CleanIsCurrent, Exempt
<1>1. Item(viewBase[e], buffer.text) \in Pairs
  BY MatchIsPair, BuffersAreTyped DEF IInv, TypeOK, Clean
<1>2. Saving = {}
  BY DEF Busy, Saving
<1>3. Stands(Pairs, viewBase[e], {disk} \cup Exempt \cup Saving)
  BY DEF UncrossedInv, Current, Busy
<1>4. QED
  BY <1>1, <1>2, <1>3 DEF Stands, Item

-----------------------------------------------------------------------------
\* The results.

\* The versions, the buffer with its undo stack, the tasks under way and the file
\* keep their types, whatever the order in which tasks and callbacks run.
THEOREM TypeCorrect == Spec => []TypeOK
<1>1. IInv => TypeOK
  BY DEF IInv
<1>2. QED
  BY <1>1, InvariantAlways, PTL

\* A diff that passes the version check of apply_diff_result is applied to the text
\* it was computed from, with any number of edits, saves and reloads in between.
THEOREM DiffFitsAlways == Spec => []DiffFitsBuffer
  BY DiffFits, InvariantAlways, PTL

\* An editor that shows nothing to save shows a text that is or was in the file, is
\* being saved, was discarded, or was taken for saved when another editor joined or the
\* file was renamed during its save (has_unsaved_changes of local_code_editor.rs).
THEOREM CleanIsStoredAlways == Spec => []CleanIsStored
  BY CleanStands, InvariantAlways, PTL

\* No reload, discard or diff replaces a text that was never stored and that the
\* user did not discard, unless the buffer had it when its file was renamed
\* (handle_file_model_events, apply_diff_result).
THEOREM OnlyRenameLosesEditsAlways == Spec => OnlyRenameLosesEdits
<1>1. IInv /\ [Next]_vars => [NoLoss]_vars
  BY NothingLost
<1>2. QED
  BY <1>1, InvariantAlways, PTL DEF Spec, OnlyRenameLosesEdits, NoLoss

\* While no file is renamed, no text was there at a rename.
NeverRenamed == left["rename"] = 0 /\ renamed = {}

LEMMA NextNeverRenamed == IInv /\ NeverRenamed /\ [Next]_vars => NeverRenamed'
<1> SUFFICES ASSUME IInv, NeverRenamed, [Next]_vars PROVE NeverRenamed'
  OBVIOUS
<1>1. ASSUME NEW x \in Deeds, x # "rename", Spend(x) PROVE left'["rename"] = 0
  BY <1>1 DEF Spend, NeverRenamed, IInv, TypeOK, FileTypes, Deeds
<1>2. ~Rename
  BY DEF Rename, Spend, NeverRenamed
<1>3. ASSUME
      \/ Edit
      \/ Undo
      \/ OutsideWrite
      \/ (\E e \in Editors : Save(e) \/ Discard(e) \/ Join(e))
      PROVE renamed' = renamed /\ \E x \in Deeds : x # "rename" /\ Spend(x)
  BY <1>3 DEF Edit, Undo, OutsideWrite, Save, Discard, Join, history, keptTexts, Deeds
<1>4. ASSUME
      \/ UNCHANGED vars
      \/ WatchStarts
      \/ LoadRead
      \/ LoadDone
      \/ Watch
      \/ (\E r \in reloads : ReloadRead(r) \/ ReloadDone(r))
      \/ (\E r \in discards : DiscardRead(r) \/ DiscardDone(r))
      \/ (\E s \in saves : SaveWrites(s) \/ SaveDone(s))
      \/ (\E d \in diffs : DiffComputed(d) \/ ApplyDiff(d))
      PROVE renamed' = renamed /\ left' = left
  BY <1>4 DEF WatchStarts, LoadRead, LoadDone, Watch, ReloadRead, ReloadDone, DiscardRead,
    DiscardDone, SaveWrites, SaveDone, DiffComputed, ApplyDiff, history, keptTexts, vars
<1>5. QED
  BY <1>1, <1>2, <1>3, <1>4 DEF NeverRenamed, Next, UserActs, Tasks

\* So the promise of GlobalBufferModel::rename is all that is broken: where no file is
\* renamed, a text goes unsaved only by the user's typing and discards.
THEOREM NoEditOverwrittenWithoutRename ==
  ASSUME Bounds["rename"] = 0
  PROVE  Spec => NoEditOverwritten
<1>1. Init => NeverRenamed
  BY DEF Init, NeverRenamed
<1>2. Spec => []NeverRenamed
  BY <1>1, NextNeverRenamed, InvariantAlways, PTL DEF Spec
<1>3. IInv /\ NeverRenamed /\ [Next]_vars =>
        [Replaced => buffer.text \in onDisk \cup waived']_vars
  BY NothingLost DEF NoLoss, NeverRenamed
<1>4. QED
  BY <1>2, <1>3, InvariantAlways, PTL DEF Spec, NoEditOverwritten

\* When nothing is under way, an editor that shows nothing to save shows what is in the
\* file, unless a change was not reported, two tasks on the file crossed or the last
\* update was a conflict (handle_file_model_events, apply_diff_result).
THEOREM CleanIsCurrentAlways == Spec => []CleanIsCurrent
  BY UncrossedIsCurrent, UncrossedAlways, InvariantAlways, PTL

====
