------------------------- MODULE PtyCompletionProofs -------------------------
(***************************************************************************)
(* What PtyController promises when completions are requested at most      *)
(* once: then nothing is written between the prompt of a completion and    *)
(* its text, so that the count of in-band commands in flight is right,     *)
(* and, if no agent submits commands, the executor never waits for a       *)
(* command that was dropped.  A second request breaks the first, and a     *)
(* command of the agent the last (runs ctl_two_requests, ctl_forgotten).   *)
(***************************************************************************)
EXTENDS PtyControllerProofs, SequenceFacts

-----------------------------------------------------------------------------
(* The phases of the one request.  Nobody is about to wait for text: the   *)
(* key has not been written, nor is the shell waiting or about to tell it. *)
Told(e) == e \in ToSet(events)
KeyQueued == Completion \in ToSet(pending)
NotAsking ==
  /\ Completion \notin ToSet(toShell)
  /\ ~Told("sendPrompt")
  /\ shell.st # "complete"

Unasked == nRequests = 0 /\ ~KeyQueued /\ NotAsking /\ ~Told("completed")

InQueue ==
  /\ KeyQueued /\ Once(pending, Completion)
  /\ NotAsking /\ ~Told("completed")

(* The key is the last thing written, and nothing follows it, ...          *)
InPty ==
  /\ ~KeyQueued /\ native = "prompt"
  /\ toShell # <<>> /\ Last(toShell) = Completion /\ Once(toShell, Completion)
  /\ shell.st # "complete" /\ ~Told("sendPrompt") /\ ~Told("completed")

(* ... until the shell waits and the main thread has been told, ...        *)
Asked ==
  /\ ~KeyQueued /\ native = "prompt"
  /\ toShell = <<>> /\ shell.st = "complete"
  /\ Told("sendPrompt") /\ Once(events, "sendPrompt") /\ ~Told("completed")

(* ... which then writes the text first.                                   *)
Answered ==
  /\ ~KeyQueued /\ Completion \notin ToSet(toShell)
  /\ toShell # <<>> /\ Head(toShell) = Text
  /\ shell.st = "complete" /\ ~Told("sendPrompt")

Over == ~KeyQueued /\ NotAsking

RequestInv ==
  \/ Unasked
  \/ nRequests # 0 /\ (InQueue \/ InPty \/ Asked \/ Answered \/ Over)

-----------------------------------------------------------------------------
(* Writes are told apart by what they are.                                 *)
LEMMA KeyKinds ==
  /\ Completion # Report /\ Completion # Text /\ Text # Report
  /\ StopsTheQueue(Completion)
  /\ \A c : /\ UserWrite(c) # Completion /\ InBandWrite(c) # Completion
            /\ InBandWrite(c) # Report /\ InBandWrite(c) # Text
  /\ \A w \in Writes : w.kind = "complete" <=> w = Completion
  /\ \A w \in Writes : IsCommand(w) => w # Completion /\ w # Text
<1> USE DEF Writes, Report, Completion, Text, UserWrite, InBandWrite, Write,
            IsCommand, StopsTheQueue
<1>1. Completion # Report /\ Completion # Text /\ Text # Report
  OBVIOUS
<1>2. StopsTheQueue(Completion)
  OBVIOUS
<1>3. \A c : /\ UserWrite(c) # Completion /\ InBandWrite(c) # Completion
             /\ InBandWrite(c) # Report /\ InBandWrite(c) # Text
  OBVIOUS
<1>4. \A w \in Writes : w.kind = "complete" <=> w = Completion
  OBVIOUS
<1>5. \A w \in Writes : IsCommand(w) => w # Completion /\ w # Text
  OBVIOUS
<1>6. QED
  BY <1>1, <1>2, <1>3, <1>4, <1>5

LEMMA WithoutKeeps ==
  ASSUME NEW S, NEW q \in Seq(S), NEW w
  PROVE  /\ Without(q, w) \in Seq(S)
         /\ ToSet(Without(q, w)) \subseteq ToSet(q)
         /\ ToSet(q) \subseteq ToSet(Without(q, w)) \cup {w}
         /\ \A e : Once(q, e) => Once(Without(q, w), e)
         /\ w \notin ToSet(q) => Without(q, w) = q
<1>1. CASE w \in ToSet(q)
  <2> DEFINE i == CHOOSE j \in DOMAIN q : q[j] = w
  <2>1. i \in DOMAIN q /\ q[i] = w
    BY <1>1 DEF ToSet
  <2>2. Without(q, w) = RemoveAt(q, i)
    BY <1>1 DEF Without
  <2> HIDE DEF i
  <2>3. /\ RemoveAt(q, i) \in Seq(S)
        /\ ToSet(q) = ToSet(RemoveAt(q, i)) \cup {q[i]}
        /\ \A e : Once(q, e) => Once(RemoveAt(q, i), e)
    BY <2>1, RemovedOnce
  <2>4. QED
    BY <1>1, <2>1, <2>2, <2>3
<1>2. CASE w \notin ToSet(q)
  BY <1>2 DEF Without
<1>3. QED
  BY <1>1, <1>2

(* What a flush does: it moves a prefix of the queue behind the text, none *)
(* unless it may write, and a completion key only as the last of it, which *)
(* then claims the pty.                                                    *)
Moved(q, text, act, nat, front) ==
  /\ front \in Seq(Queueable) /\ pending' \in Seq(Queueable)
  /\ q = front \o pending' /\ toShell' = (toShell \o text) \o front
  /\ ~CanWrite(act, nat) => front = <<>>
  /\ Completion \notin ToSet(front) => native' = nat
  /\ Completion \in ToSet(front)
       => /\ native' = "prompt" /\ Once(front, Completion)
          /\ front # <<>> /\ Last(front) = Completion

LEMMA FlushMoves ==
  ASSUME NEW q \in Seq(Queueable), NEW text, NEW act, NEW expired, NEW nat,
         Flush(q, text, act, expired, nat)
  PROVE  \E front : Moved(q, text, act, nat, front)
<1> DEFINE batch == IF CanWrite(act, nat) THEN Batch(q) ELSE <<>>
           last == IF batch = <<>> THEN Report ELSE Last(batch)
<1>1. /\ pending' = SubSeq(q, Len(batch) + 1, Len(q))
      /\ toShell' = (toShell \o text) \o batch
      /\ native' = IF last.kind = "complete" THEN "prompt" ELSE nat
  BY DEF Flush, WriteEffects
<1>2. Len(q) \in Nat /\ \A i \in 1..Len(q) : q[i] \in Queueable
  BY LenProperties, ElementOfSeq
<1>3. PICK k \in 0..Len(q) :
        /\ batch = SubSeq(q, 1, k)
        /\ \A i \in 1..k : i # k => ~StopsTheQueue(q[i])
        /\ ~CanWrite(act, nat) => k = 0
  <2>1. CASE CanWrite(act, nat)
    BY <2>1, BatchPrefix
  <2>2. CASE ~CanWrite(act, nat)
    <3>1. SubSeq(q, 1, 0) = <<>> /\ 0 \in 0..Len(q)
      BY <1>2, SubSeqEmpty
    <3>2. \A i \in 1..0 : i # 0 => ~StopsTheQueue(q[i])
      OBVIOUS
    <3>3. QED
      BY <2>2, <3>1, <3>2
  <2>3. QED
    BY <2>1, <2>2
<1>4. batch = <<>> => last = Report
  OBVIOUS
<1>5. batch # <<>> => last = Last(batch)
  OBVIOUS
<1> HIDE DEF batch, last
<1>6. /\ batch \in Seq(Queueable) /\ Len(batch) = k /\ DOMAIN batch = 1..k
      /\ \A i \in 1..k : batch[i] = q[i]
  <2>1. \A i \in 1..k : q[i] \in Queueable
    BY <1>2
  <2>2. 1 \in Int /\ k \in Int /\ 1 <= k + 1
    BY <1>2
  <2>3. /\ SubSeq(q, 1, k) \in Seq(Queueable)
        /\ Len(SubSeq(q, 1, k)) = IF 1 <= k THEN k - 1 + 1 ELSE 0
        /\ \A i \in 1..(k - 1 + 1) : SubSeq(q, 1, k)[i] = q[1 + i - 1]
    BY <2>1, <2>2, SubSeqProperties
  <2>4. k - 1 + 1 = k /\ \A i \in 1..k : 1 + i - 1 = i
    BY <1>2
  <2>5. Len(batch) = k /\ batch \in Seq(Queueable) /\ \A i \in 1..k : batch[i] = q[i]
    BY <1>2, <1>3, <2>3, <2>4
  <2>6. QED
    BY <2>5, LenProperties
<1>7. q = batch \o pending'
  <2>1. (<<>> \o SubSeq(q, 1, k)) \o SubSeq(q, k + 1, Len(q)) = <<>> \o q
    <3>1. <<>> \in Seq(Queueable)
      OBVIOUS
    <3>2. QED
      BY <3>1, CutAnywhere
  <2>2. <<>> \o q = q /\ <<>> \o SubSeq(q, 1, k) = batch
    BY <1>3, <1>6, ConcatEmptySeq
  <2>3. pending' = SubSeq(q, k + 1, Len(q))
    BY <1>1, <1>6
  <2>4. (<<>> \o batch) \o pending' = <<>> \o q
    BY <2>1, <2>3, <1>3, Zenon
  <2>5. QED
    BY <2>2, <2>4, <1>3, Zenon
<1>8. pending' \in Seq(Queueable)
  <2>1. \A i \in (k + 1)..Len(q) : q[i] \in Queueable
    BY <1>2
  <2>2. k + 1 \in Int /\ Len(q) \in Int
    BY <1>2
  <2>3. SubSeq(q, k + 1, Len(q)) \in Seq(Queueable)
    BY <2>1, <2>2, SubSeqProperties
  <2>4. QED
    BY <1>1, <1>6, <2>3
<1>9. ~CanWrite(act, nat) => batch = <<>>
  BY <1>3, <1>6, EmptySeq
<1>10. \A i \in 1..k : batch[i] = Completion => i = k
  BY <1>3, <1>6, KeyKinds
<1>11. batch # <<>> => k \in 1..k /\ Last(batch) = batch[k] /\ last \in Writes
  <2>1. batch # <<>> => k # 0
    BY <1>6, EmptySeq
  <2>2. k # 0 => k \in 1..k /\ q[k] \in Writes
    BY <1>2 DEF Queueable
  <2>3. QED
    BY <2>1, <2>2, <1>5, <1>6 DEF Last
<1>12. CASE Completion \in ToSet(batch)
  <2>1. PICK i \in 1..k : batch[i] = Completion
    BY <1>12, <1>6 DEF ToSet
  <2>2. i = k /\ batch # <<>>
    BY <2>1, <1>10, <1>6, EmptySeq
  <2>3. last = Completion /\ Last(batch) = Completion
    BY <2>1, <2>2, <1>11, <1>5
  <2>4. native' = "prompt"
    BY <2>3, <1>1 DEF Completion, Write
  <2>5. Once(batch, Completion)
    BY <1>6, <1>10 DEF Once
  <2>6. QED
    BY <1>1, <1>6, <1>7, <1>8, <1>9, <1>12, <2>2, <2>3, <2>4, <2>5 DEF Moved
<1>13. CASE Completion \notin ToSet(batch)
  <2>1. last \in Writes /\ last # Completion
    <3>1. CASE batch = <<>>
      BY <3>1, <1>4, WriteKinds, KeyKinds DEF Queueable
    <3>2. CASE batch # <<>>
      <4>1. batch[k] # Completion
        BY <3>2, <1>13, <1>6, <1>11 DEF ToSet
      <4>2. QED
        BY <3>2, <4>1, <1>5, <1>11
    <3>3. QED
      BY <3>1, <3>2
  <2>2. native' = nat
    BY <2>1, <1>1, KeyKinds
  <2>3. QED
    BY <1>1, <1>6, <1>7, <1>8, <1>9, <1>13, <2>2 DEF Moved
<1>14. QED
  BY <1>12, <1>13

(* What the pty and the queue hold after a flush.                          *)
LEMMA EndsOfJoined ==
  ASSUME NEW S, NEW s \in Seq(S), NEW t \in Seq(S)
  PROVE  /\ s # <<>> => s \o t # <<>> /\ Head(s \o t) = Head(s)
         /\ t # <<>> => s \o t # <<>> /\ Last(s \o t) = Last(t)
<1>1. /\ Len(s) \in Nat /\ Len(t) \in Nat /\ s \o t \in Seq(S)
      /\ Len(s \o t) = Len(s) + Len(t)
      /\ \A i \in 1..Len(s) : (s \o t)[i] = s[i]
      /\ \A i \in 1..Len(t) : (s \o t)[i + Len(s)] = t[i]
  <2>1. /\ s \o t \in Seq(S) /\ Len(s \o t) = Len(s) + Len(t)
        /\ \A i \in 1..(Len(s) + Len(t)) :
             (s \o t)[i] = IF i <= Len(s) THEN s[i] ELSE t[i - Len(s)]
    BY ConcatProperties
  <2>2. Len(s) \in Nat /\ Len(t) \in Nat
    BY LenProperties
  <2>3. ASSUME NEW i \in 1..Len(s) PROVE (s \o t)[i] = s[i]
    BY <2>1, <2>2
  <2>4. ASSUME NEW i \in 1..Len(t) PROVE (s \o t)[i + Len(s)] = t[i]
    <3>1. /\ i + Len(s) \in 1..(Len(s) + Len(t)) /\ ~(i + Len(s) <= Len(s))
          /\ i + Len(s) - Len(s) = i
      BY <2>2
    <3>2. QED
      BY <2>1, <3>1
  <2>5. QED
    BY <2>1, <2>2, <2>3, <2>4
<1> DEFINE r == s \o t
<1> HIDE DEF r
<1>2. ASSUME s # <<>> PROVE r # <<>> /\ Head(r) = Head(s)
  <2>1. Len(s) \in 1..Len(s) /\ 1 \in 1..Len(s) /\ Len(r) # 0
    BY <1>1, <1>2, EmptySeq DEF r
  <2>2. r # <<>> /\ r[1] = s[1]
    BY <1>1, <2>1, EmptySeq DEF r
  <2>3. Head(s) = s[1] /\ Head(r) = r[1]
    BY <1>1, <1>2, <2>2, HeadTailProperties DEF r
  <2>4. QED
    BY <2>2, <2>3
<1>3. ASSUME t # <<>> PROVE r # <<>> /\ Last(r) = Last(t)
  <2>1. Len(t) \in 1..Len(t) /\ Len(r) = Len(t) + Len(s) /\ Len(r) # 0
    BY <1>1, <1>3, EmptySeq DEF r
  <2>2. r[Len(t) + Len(s)] = t[Len(t)]
    BY <1>1, <2>1 DEF r
  <2>3. QED
    BY <2>1, <2>2, EmptySeq DEF Last
<1>4. QED
  BY <1>2, <1>3 DEF r

LEMMA MovedHolds ==
  ASSUME TypeOK, NEW q \in Seq(Queueable), NEW text \in Seq(Writes),
         NEW act, NEW nat, NEW front, Moved(q, text, act, nat, front)
  PROVE  /\ ToSet(toShell') = ToSet(toShell) \cup ToSet(text) \cup ToSet(front)
         /\ ToSet(q) = ToSet(front) \cup ToSet(pending')
         /\ \A e : Once(q, e) => /\ Once(front, e) /\ Once(pending', e)
                                 /\ ~(e \in ToSet(front) /\ e \in ToSet(pending'))
         /\ \A e : e \notin ToSet(toShell) /\ e \notin ToSet(text) /\ Once(front, e)
                     /\ Once(text, e) /\ Once(toShell, e)
                     => Once(toShell', e)
         /\ text = <<>> /\ front = <<>> => toShell' = toShell
         /\ front # <<>> => toShell' # <<>> /\ Last(toShell') = Last(front)
         /\ toShell # <<>> => toShell' # <<>> /\ Head(toShell') = Head(toShell)
         /\ toShell = <<>> /\ text # <<>>
              => toShell' # <<>> /\ Head(toShell') = Head(text)
<1>1. /\ q = front \o pending' /\ toShell' = (toShell \o text) \o front
      /\ front \in Seq(Queueable) /\ pending' \in Seq(Queueable)
      /\ toShell \in Seq(Writes)
  BY DEF Moved, TypeOK
<1>2. front \in Seq(Writes)
  BY <1>1, SeqMonotonic DEF Queueable
<1> DEFINE s == toShell \o text
<1>3. /\ s \in Seq(Writes) /\ ToSet(s) = ToSet(toShell) \cup ToSet(text)
      /\ \A e : Once(s, e) <=> /\ Once(toShell, e) /\ Once(text, e)
                               /\ ~(e \in ToSet(toShell) /\ e \in ToSet(text))
  BY <1>1, JoinedOnce
<1>4. /\ text = <<>> => s = toShell
      /\ toShell # <<>> => s # <<>> /\ Head(s) = Head(toShell)
      /\ toShell = <<>> => s = text
  BY <1>1, ConcatEmptySeq, EndsOfJoined
<1>5. toShell' = s \o front
  BY <1>1
<1> HIDE DEF s
<1>6. /\ ToSet(toShell') = ToSet(s) \cup ToSet(front)
      /\ \A e : Once(toShell', e) <=> /\ Once(s, e) /\ Once(front, e)
                                      /\ ~(e \in ToSet(s) /\ e \in ToSet(front))
  BY <1>2, <1>3, <1>5, JoinedOnce
<1>7. /\ front = <<>> => toShell' = s
      /\ front # <<>> => toShell' # <<>> /\ Last(toShell') = Last(front)
      /\ s # <<>> => toShell' # <<>> /\ Head(toShell') = Head(s)
  BY <1>2, <1>3, <1>5, ConcatEmptySeq, EndsOfJoined
<1>8. /\ ToSet(q) = ToSet(front) \cup ToSet(pending')
      /\ \A e : Once(q, e) => /\ Once(front, e) /\ Once(pending', e)
                              /\ ~(e \in ToSet(front) /\ e \in ToSet(pending'))
  <2>1. /\ ToSet(front \o pending') = ToSet(front) \cup ToSet(pending')
        /\ \A e : Once(front \o pending', e)
                    <=> /\ Once(front, e) /\ Once(pending', e)
                        /\ ~(e \in ToSet(front) /\ e \in ToSet(pending'))
    BY <1>1, JoinedOnce
  <2>2. QED
    BY <1>1, <2>1
<1>9. \A e : e \notin ToSet(toShell) /\ e \notin ToSet(text) /\ Once(front, e)
               /\ Once(text, e) /\ Once(toShell, e)
               => Once(toShell', e)
  BY <1>3, <1>6
<1>10. QED
  BY <1>3, <1>4, <1>6, <1>7, <1>8, <1>9

LEMMA AbsentIsOnce ==
  ASSUME NEW s, NEW e, e \notin ToSet(s)
  PROVE  Once(s, e)
BY DEF Once, ToSet

LEMMA PlainMove ==
  ASSUME TypeOK, NEW q \in Seq(Queueable), NEW act, NEW nat, NEW front,
         Moved(q, <<>>, act, nat, front)
  PROVE  /\ ToSet(toShell') = ToSet(toShell) \cup ToSet(front)
         /\ ToSet(q) = ToSet(front) \cup ToSet(pending')
         /\ \A e : Once(q, e) => /\ Once(front, e) /\ Once(pending', e)
                                 /\ ~(e \in ToSet(front) /\ e \in ToSet(pending'))
         /\ \A e : e \notin ToSet(toShell) /\ Once(front, e) => Once(toShell', e)
         /\ front = <<>> => toShell' = toShell
         /\ front # <<>> => toShell' # <<>> /\ Last(toShell') = Last(front)
         /\ toShell # <<>> => toShell' # <<>> /\ Head(toShell') = Head(toShell)
<1> DEFINE text == <<>>
<1>1. /\ text \in Seq(Writes) /\ ToSet(text) = {} /\ \A e : Once(text, e)
      /\ Moved(q, text, act, nat, front) /\ text = <<>>
  BY NoneOnce
<1> HIDE DEF text
<1>2. /\ ToSet(toShell') = ToSet(toShell) \cup ToSet(text) \cup ToSet(front)
      /\ ToSet(q) = ToSet(front) \cup ToSet(pending')
      /\ \A e : Once(q, e) => /\ Once(front, e) /\ Once(pending', e)
                              /\ ~(e \in ToSet(front) /\ e \in ToSet(pending'))
      /\ \A e : e \notin ToSet(toShell) /\ e \notin ToSet(text) /\ Once(front, e)
                  /\ Once(text, e) /\ Once(toShell, e)
                  => Once(toShell', e)
      /\ text = <<>> /\ front = <<>> => toShell' = toShell
      /\ front # <<>> => toShell' # <<>> /\ Last(toShell') = Last(front)
      /\ toShell # <<>> => toShell' # <<>> /\ Head(toShell') = Head(toShell)
      /\ toShell = <<>> /\ text # <<>>
           => toShell' # <<>> /\ Head(toShell') = Head(text)
  <2>1. text \in Seq(Writes) /\ Moved(q, text, act, nat, front)
    BY <1>1
  <2>2. QED
    BY <2>1, MovedHolds, Zenon
<1>3. \A e : e \notin ToSet(toShell) /\ Once(front, e) => Once(toShell', e)
  BY <1>1, <1>2, AbsentIsOnce
<1>4. QED
  BY <1>1, <1>2, <1>3

-----------------------------------------------------------------------------
(* A step that writes and reads nothing, tells of no prompt and of no end, *)
(* and at most takes something from the queue.                             *)
LEMMA QuietRequest ==
  ASSUME RequestInv, UNCHANGED <<toShell, native, nRequests>>,
         shell'.st = "complete" <=> shell.st = "complete",
         ToSet(pending') \subseteq ToSet(pending),
         Once(pending, Completion) => Once(pending', Completion),
         "sendPrompt" \in ToSet(events') <=> "sendPrompt" \in ToSet(events),
         "completed" \in ToSet(events') => "completed" \in ToSet(events),
         Once(events, "sendPrompt") => Once(events', "sendPrompt")
  PROVE  RequestInv'
<1> USE DEF Told, KeyQueued, NotAsking
<1>1. CASE Unasked
  BY <1>1 DEF RequestInv, Unasked
<1>2. CASE nRequests # 0 /\ InQueue
  BY <1>2 DEF RequestInv, InQueue, Over
<1>3. CASE nRequests # 0 /\ InPty
  BY <1>3 DEF RequestInv, InPty
<1>4. CASE nRequests # 0 /\ Asked
  BY <1>4 DEF RequestInv, Asked
<1>5. CASE nRequests # 0 /\ Answered
  BY <1>5 DEF RequestInv, Answered
<1>6. CASE nRequests # 0 /\ Over
  BY <1>6 DEF RequestInv, Over
<1>7. QED
  BY <1>1, <1>2, <1>3, <1>4, <1>5, <1>6 DEF RequestInv

(* The key stays in the queue, or is the last that is written.             *)
LEMMA FlushKey ==
  ASSUME TypeOK, NEW q \in Seq(Queueable), NEW act, NEW expired,
         Flush(q, <<>>, act, expired, native), UNCHANGED <<shell, events>>,
         Completion \in ToSet(q), Once(q, Completion),
         NotAsking, ~Told("completed")
  PROVE  (InQueue \/ InPty)'
<1>1. PICK front : Moved(q, <<>>, act, native, front)
  BY FlushMoves
<1>3. Completion \notin ToSet(toShell)
  BY DEF NotAsking
<1>4. /\ ToSet(toShell') = ToSet(toShell) \cup ToSet(front)
      /\ ToSet(q) = ToSet(front) \cup ToSet(pending')
      /\ Once(front, Completion) /\ Once(pending', Completion)
      /\ ~(Completion \in ToSet(front) /\ Completion \in ToSet(pending'))
      /\ Once(toShell', Completion)
      /\ front # <<>> => toShell' # <<>> /\ Last(toShell') = Last(front)
  BY <1>1, <1>3, PlainMove
<1>5. CASE Completion \in ToSet(front)
  <2>1. native' = "prompt" /\ front # <<>> /\ Last(front) = Completion
    BY <1>1, <1>5 DEF Moved
  <2>2. QED
    BY <1>4, <1>5, <2>1 DEF InPty, KeyQueued, NotAsking, Told
<1>6. CASE Completion \notin ToSet(front)
  BY <1>3, <1>4, <1>6 DEF InQueue, KeyQueued, NotAsking, Told
<1>7. QED
  BY <1>5, <1>6

(* A flush leaves a request in its phase or writes its key; it writes      *)
(* nothing while the pty belongs to the completion.                        *)
LEMMA FlushRequest ==
  ASSUME TypeOK, RequestInv, NEW q \in Seq(Queueable), NEW act, NEW expired,
         Flush(q, <<>>, act, expired, native),
         UNCHANGED <<shell, events, nRequests>>,
         Completion \in ToSet(q) <=> KeyQueued,
         Once(pending, Completion) => Once(q, Completion)
  PROVE  RequestInv'
<1>1. PICK front : Moved(q, <<>>, act, native, front)
  BY FlushMoves
<1>3. /\ ToSet(toShell') = ToSet(toShell) \cup ToSet(front)
      /\ ToSet(q) = ToSet(front) \cup ToSet(pending')
      /\ front = <<>> => toShell' = toShell
      /\ toShell # <<>> => toShell' # <<>> /\ Head(toShell') = Head(toShell)
  BY <1>1, PlainMove
<1>4. CASE ~KeyQueued
  <2>1. Completion \notin ToSet(front) /\ ~KeyQueued' /\ native' = native
    BY <1>1, <1>3, <1>4 DEF Moved, KeyQueued
  <2>2. native = "prompt" => toShell' = toShell
    BY <1>1, <1>3 DEF Moved, CanWrite
  <2>3. Completion \in ToSet(toShell') <=> Completion \in ToSet(toShell)
    BY <1>3, <2>1
  <2> USE DEF Told, NotAsking
  <2>4. CASE Unasked
    BY <2>4, <2>1, <2>3 DEF RequestInv, Unasked
  <2>5. CASE nRequests # 0 /\ InPty
    BY <2>5, <2>1, <2>2 DEF RequestInv, InPty
  <2>6. CASE nRequests # 0 /\ Asked
    BY <2>6, <2>1, <2>2 DEF RequestInv, Asked
  <2>7. CASE nRequests # 0 /\ Answered
    BY <2>7, <2>1, <2>3, <1>3 DEF RequestInv, Answered
  <2>8. CASE nRequests # 0 /\ Over
    BY <2>8, <2>1, <2>3 DEF RequestInv, Over
  <2>9. QED
    BY <1>4, <2>4, <2>5, <2>6, <2>7, <2>8 DEF RequestInv, InQueue
<1>5. CASE KeyQueued
  <2>1. nRequests # 0 /\ InQueue
    BY <1>5 DEF RequestInv, Unasked, InPty, Asked, Answered, Over
  <2>2. (InQueue \/ InPty)'
    BY <1>5, <2>1, FlushKey DEF InQueue
  <2>3. QED
    BY <2>1, <2>2 DEF RequestInv
<1>6. QED
  BY <1>4, <1>5

(* The hooks: the prompt is told once, and answered with the text first.   *)
LEMMA EventRequest ==
  ASSUME TypeOK, RequestInv, HandleEvent
  PROVE  RequestInv'
<1>1. /\ events \in Seq(Hooks) /\ events # <<>> /\ events' = Tail(events)
      /\ UNCHANGED <<shell, nRequests>>
  BY DEF HandleEvent, TypeOK, inputVars
<1>2. /\ ToSet(events) = {Head(events)} \cup ToSet(events')
      /\ \A e : Once(events, e) => Once(events', e)
      /\ Once(events, Head(events)) => Head(events) \notin ToSet(events')
  BY <1>1, TailOnce
<1>3. CASE /\ Head(events) \notin {"sendPrompt", "completed"}
           /\ UNCHANGED <<pending, native, toShell>>
  BY <1>1, <1>2, <1>3, QuietRequest
<1>4. CASE Head(events) = "sendPrompt" /\ HandleSendPrompt
  <2>1. Told("sendPrompt")
    BY <1>2, <1>4 DEF Told
  <2>2. nRequests # 0 /\ Asked
    BY <2>1 DEF RequestInv, Unasked, InQueue, InPty, Answered, Over, NotAsking
  <2>3. Flush(pending, <<Text>>, active, due, "results")
    BY <1>4, <2>2 DEF HandleSendPrompt, Asked
  <2>4. pending \in Seq(Queueable)
    BY DEF TypeOK, Queueable
  <2>5. PICK front : Moved(pending, <<Text>>, active, "results", front)
    BY <2>3, <2>4, FlushMoves
  <2> DEFINE text == <<Text>>
  <2>6. /\ text \in Seq(Writes) /\ ToSet(text) = {Text}
        /\ text # <<>> /\ Head(text) = Text
    <3>1. Text \in Writes
      BY WriteKinds
    <3>2. QED
      BY <3>1, OneOnce
  <2>7. Moved(pending, text, active, "results", front)
    BY <2>5
  <2> HIDE DEF text
  <2>8. /\ ToSet(toShell') = ToSet(toShell) \cup ToSet(text) \cup ToSet(front)
        /\ ToSet(pending) = ToSet(front) \cup ToSet(pending')
        /\ toShell = <<>> /\ text # <<>>
             => toShell' # <<>> /\ Head(toShell') = Head(text)
    BY <2>4, <2>6, <2>7, MovedHolds
  <2>9. /\ Completion \notin ToSet(pending) /\ toShell = <<>>
        /\ Completion # Text /\ ToSet(toShell) = {}
    BY <2>2, KeyKinds, NoneOnce DEF Asked, KeyQueued
  <2>10. /\ Completion \notin ToSet(pending') /\ Completion \notin ToSet(toShell')
         /\ toShell' # <<>> /\ Head(toShell') = Text
    BY <2>6, <2>8, <2>9
  <2>11. "sendPrompt" \notin ToSet(events') /\ shell'.st = "complete"
    BY <1>1, <1>2, <1>4, <2>2 DEF Asked
  <2>12. Answered'
    BY <2>10, <2>11 DEF Answered, KeyQueued, Told
  <2>13. QED
    BY <1>1, <2>2, <2>12 DEF RequestInv
<1>5. CASE Head(events) = "completed" /\ HandleCompleted
  <2>1. Told("completed")
    BY <1>2, <1>5 DEF Told
  <2>2. nRequests # 0 /\ (Answered \/ Over)
    BY <2>1 DEF RequestInv, Unasked, InQueue, InPty, Asked
  <2>3. UNCHANGED <<pending, toShell>>
    BY <1>5 DEF HandleCompleted
  <2>4. (Answered \/ Over)'
    BY <1>1, <1>2, <2>2, <2>3 DEF Answered, Over, NotAsking, KeyQueued, Told
  <2>5. QED
    BY <1>1, <2>2, <2>4 DEF RequestInv
<1>6. \/ /\ Head(events) \in {"preexec", "precmd", "endPrompt", "userFinished"}
         /\ UNCHANGED <<pending, native, toShell>>
      \/ Head(events) = "sendPrompt" /\ HandleSendPrompt
      \/ Head(events) = "completed" /\ HandleCompleted
  BY DEF HandleEvent, HandlePreexec, HandlePrecmd, HandleEndPrompt,
         HandleUserFinished, queueVars
<1>7. QED
  BY <1>3, <1>4, <1>5, <1>6

(* The timer and the executor's commands put writes around the key.        *)
LEMMA MainRequest ==
  ASSUME TypeOK, RequestInv, TimerExpires \/ MarkActive \/ HandleExecutor
  PROVE  RequestInv'
<1>0. pending \in Seq(Queueable)
  BY DEF TypeOK, Queueable
<1>1. CASE TimerExpires
  BY <1>1, QuietRequest DEF TimerExpires, queueVars, shellVars, inputVars
<1>2. CASE MarkActive
  <2> DEFINE q == <<Report>> \o pending
  <2>1. /\ Flush(q, <<>>, TRUE, due - 1, native)
        /\ UNCHANGED <<shell, events, nRequests>>
    BY <1>2 DEF MarkActive, inputVars
  <2>2. /\ q \in Seq(Queueable) /\ ToSet(q) = {Report} \cup ToSet(pending)
        /\ \A e : Once(q, e) <=> Once(pending, e) /\ (e = Report => e \notin ToSet(pending))
    BY <1>0, FirstOnce, WriteKinds
  <2> HIDE DEF q
  <2>3. Completion # Report
    BY KeyKinds
  <2>4. QED
    BY <2>1, <2>2, <2>3, FlushRequest DEF KeyQueued
<1>3. CASE HandleExecutor
  <2> DEFINE c == Head(fromExecutor).id
  <2>1. UNCHANGED <<shell, events, nRequests>>
    BY <1>3 DEF HandleExecutor, inputVars
  <2>2. c \in InBand
    <3>1. /\ fromExecutor \in Seq([op : {"execute", "cancel"}, id : InBand])
          /\ fromExecutor # <<>>
      BY <1>3 DEF HandleExecutor, TypeOK
    <3>2. Head(fromExecutor) \in [op : {"execute", "cancel"}, id : InBand]
      BY <3>1, HeadTailProperties
    <3>3. QED
      BY <3>2
  <2>3. QueueInBand(c) \/ CancelInBand(c)
    BY <1>3 DEF HandleExecutor
  <2> HIDE DEF c
  <2>4. CASE CancelInBand(c)
    <3>1. UNCHANGED <<toShell, native>> /\ pending' = Without(pending, InBandWrite(c))
      BY <2>4 DEF CancelInBand
    <3>2. /\ ToSet(pending') \subseteq ToSet(pending)
          /\ Once(pending, Completion) => Once(pending', Completion)
      BY <1>0, <3>1, WithoutKeeps
    <3>3. QED
      BY <2>1, <3>1, <3>2, QuietRequest
  <2>5. CASE QueueInBand(c) /\ userExecuting
    BY <2>1, <2>5, QuietRequest DEF QueueInBand, queueVars
  <2>6. CASE QueueInBand(c) /\ ~userExecuting
    <3> DEFINE q == Append(pending, InBandWrite(c))
    <3>1. Flush(q, <<>>, active, due, native)
      BY <2>6 DEF QueueInBand
    <3>2. InBandWrite(c) \in Queueable /\ InBandWrite(c) # Completion
      BY <2>2, WriteKinds, KeyKinds
    <3>3. /\ q \in Seq(Queueable) /\ ToSet(q) = ToSet(pending) \cup {InBandWrite(c)}
          /\ \A e : Once(pending, e) /\ (e = InBandWrite(c) => e \notin ToSet(pending))
                      => Once(q, e)
      BY <1>0, <3>2, AppendOnce
    <3> HIDE DEF q
    <3>4. QED
      BY <2>1, <3>1, <3>2, <3>3, FlushRequest DEF KeyQueued
  <2>7. QED
    BY <2>3, <2>4, <2>5, <2>6
<1>4. QED
  BY <1>1, <1>2, <1>3

(* The one request puts the key in the queue, where there was none.        *)
LEMMA AskRequest ==
  ASSUME TypeOK, RequestInv, MaxRequests <= 1, RequestCompletions
  PROVE  RequestInv'
<1> DEFINE q == Append(Without(pending, Completion), Completion)
<1>1. /\ nRequests < MaxRequests /\ nRequests' = nRequests + 1
      /\ Flush(q, <<>>, active, due, native) /\ UNCHANGED <<shell, events>>
  BY DEF RequestCompletions
<1>2. nRequests = 0 /\ nRequests' = 1
  BY <1>1, ConstantsAssumption DEF TypeOK
<1>3. Unasked
  BY <1>2 DEF RequestInv
<1>4. pending \in Seq(Queueable) /\ Completion \notin ToSet(pending)
  BY <1>3 DEF TypeOK, Queueable, Unasked, KeyQueued
<1>5. Without(pending, Completion) = pending /\ Completion \in Queueable
  BY <1>4, WithoutKeeps, WriteKinds
<1>6. /\ q \in Seq(Queueable) /\ ToSet(q) = ToSet(pending) \cup {Completion}
      /\ Once(q, Completion)
  <2>1. /\ Append(pending, Completion) \in Seq(Queueable)
        /\ ToSet(Append(pending, Completion)) = ToSet(pending) \cup {Completion}
        /\ Once(Append(pending, Completion), Completion)
    BY <1>4, <1>5, AppendOnce, AbsentIsOnce
  <2>2. QED
    BY <1>5, <2>1
<1> HIDE DEF q
<1>7. (InQueue \/ InPty)'
  BY <1>1, <1>3, <1>6, FlushKey DEF Unasked
<1>8. QED
  BY <1>2, <1>7 DEF RequestInv

(* A command of the user throws the key away, if it is still queued, and   *)
(* is not written while the pty belongs to the completion.                 *)
LEMMA SubmitRequest ==
  ASSUME TypeOK, RequestInv, NEW c \in Cmds, Submit(c)
  PROVE  RequestInv'
<1>1. /\ UNCHANGED <<native, shell, events, nRequests>>
      /\ \/ /\ CanWrite(active, native) /\ pending' = <<>>
            /\ toShell' = Append(toShell, UserWrite(c))
         \/ pending' = <<UserWrite(c)>> /\ toShell' = toShell
  BY DEF Submit
<1>2. UserWrite(c) \in Writes /\ UserWrite(c) # Completion
  BY WriteKinds, KeyKinds DEF Queueable
<1>3. ~KeyQueued'
  BY <1>1, <1>2, OneOnce, NoneOnce DEF KeyQueued
<1>4. toShell \in Seq(Writes)
  BY DEF TypeOK
<1> DEFINE u == UserWrite(c)
<1>5. /\ ToSet(Append(toShell, u)) = ToSet(toShell) \cup {u}
      /\ toShell # <<>> => /\ Append(toShell, u) # <<>>
                           /\ Head(Append(toShell, u)) = Head(toShell)
  <2>1. u \in Writes
    BY <1>2
  <2> HIDE DEF u
  <2>2. ToSet(Append(toShell, u)) = ToSet(toShell) \cup {u}
    BY <1>4, <2>1, AppendOnce
  <2>3. Append(toShell, u) = toShell \o <<u>> /\ <<u>> \in Seq(Writes)
    BY <1>4, <2>1, AppendIsConcat
  <2>4. toShell # <<>> => /\ toShell \o <<u>> # <<>>
                          /\ Head(toShell \o <<u>>) = Head(toShell)
    BY <1>4, <2>3, EndsOfJoined
  <2>5. QED
    BY <2>2, <2>3, <2>4, Zenon
<1>6. /\ Completion \in ToSet(toShell') <=> Completion \in ToSet(toShell)
      /\ toShell # <<>> => toShell' # <<>> /\ Head(toShell') = Head(toShell)
      /\ native = "prompt" => toShell' = toShell
  BY <1>1, <1>2, <1>5 DEF CanWrite
<1> USE DEF Told, NotAsking
<1>7. CASE Unasked
  BY <1>1, <1>3, <1>6, <1>7 DEF RequestInv, Unasked
<1>8. CASE nRequests # 0 /\ (InQueue \/ Over)
  BY <1>1, <1>3, <1>6, <1>8 DEF RequestInv, InQueue, Over
<1>9. CASE nRequests # 0 /\ InPty
  BY <1>1, <1>3, <1>6, <1>9 DEF RequestInv, InPty
<1>10. CASE nRequests # 0 /\ Asked
  BY <1>1, <1>3, <1>6, <1>10 DEF RequestInv, Asked
<1>11. CASE nRequests # 0 /\ Answered
  BY <1>1, <1>3, <1>6, <1>11 DEF RequestInv, Answered
<1>12. QED
  BY <1>7, <1>8, <1>9, <1>10, <1>11 DEF RequestInv

(* What is left of the key when something is read from the pty.            *)
LEMMA ReadKey ==
  ASSUME TypeOK, toShell # <<>>, toShell' = Tail(toShell)
  PROVE  /\ Head(toShell) \in Writes
         /\ Completion \notin ToSet(toShell) => /\ Completion \notin ToSet(toShell')
                                                /\ Head(toShell) # Completion
         /\ Last(toShell) = Completion /\ Once(toShell, Completion)
              => IF Head(toShell) = Completion
                 THEN toShell' = <<>>
                 ELSE /\ toShell' # <<>> /\ Last(toShell') = Completion
                      /\ Once(toShell', Completion)
<1>1. /\ toShell \in Seq(Writes) /\ Head(toShell) \in Writes
      /\ toShell' \in Seq(Writes)
      /\ ToSet(toShell) = {Head(toShell)} \cup ToSet(toShell')
      /\ \A e : Once(toShell, e) => Once(toShell', e)
      /\ Once(toShell, Head(toShell)) => Head(toShell) \notin ToSet(toShell')
  BY TailOnce DEF TypeOK
<1>2. toShell = <<Head(toShell)>> \o toShell' /\ <<Head(toShell)>> \in Seq(Writes)
  BY <1>1
<1> DEFINE h == <<Head(toShell)>>
<1>3. h \in Seq(Writes) /\ toShell = h \o toShell'
  BY <1>2
<1>4. toShell' # <<>> => Last(toShell) = Last(toShell')
  <2> HIDE DEF h
  <2>1. toShell' # <<>> => Last(h \o toShell') = Last(toShell')
    BY <1>1, <1>3, EndsOfJoined
  <2>2. QED
    BY <1>3, <2>1
<1>5. toShell' # <<>> => Last(toShell') \in ToSet(toShell')
  <2>1. Len(toShell') \in Nat /\ DOMAIN toShell' = 1..Len(toShell')
    BY <1>1, LenProperties
  <2>2. toShell' # <<>> => Len(toShell') \in DOMAIN toShell'
    BY <1>1, <2>1, EmptySeq
  <2>3. QED
    BY <2>2 DEF Last, ToSet
<1>6. toShell' = <<>> => Last(toShell) = Head(toShell)
  <2>1. toShell' = <<>> => Len(toShell) = 1
    <3>1. Len(toShell') = Len(toShell) - 1 /\ Len(toShell) \in Nat
      BY <1>1, HeadTailProperties
    <3>2. toShell' = <<>> => Len(toShell') = 0
      BY <1>1, EmptySeq
    <3>3. QED
      BY <3>1, <3>2
  <2>2. QED
    BY <1>1, <2>1 DEF Last
<1>7. QED
  BY <1>1, <1>4, <1>5, <1>6

(* What is read without starting a completion ends the request at most.    *)
LEMMA ReadsRequest ==
  ASSUME TypeOK, RequestInv, toShell # <<>>, toShell' = Tail(toShell),
         UNCHANGED <<pending, native, nRequests>>,
         shell.st # "complete", shell'.st # "complete",
         "sendPrompt" \in ToSet(events') <=> "sendPrompt" \in ToSet(events),
         "completed" \in ToSet(events') <=> "completed" \in ToSet(events)
  PROVE  RequestInv'
<1>1. /\ Completion \notin ToSet(toShell) => Completion \notin ToSet(toShell')
      /\ Last(toShell) = Completion /\ Once(toShell, Completion)
           => IF Head(toShell) = Completion
              THEN toShell' = <<>>
              ELSE /\ toShell' # <<>> /\ Last(toShell') = Completion
                   /\ Once(toShell', Completion)
  BY ReadKey
<1> USE DEF Told, NotAsking, KeyQueued
<1>2. CASE Unasked
  BY <1>1, <1>2 DEF RequestInv, Unasked
<1>3. CASE nRequests # 0 /\ InQueue
  BY <1>1, <1>3 DEF RequestInv, InQueue
<1>4. CASE nRequests # 0 /\ InPty
  <2>1. CASE Head(toShell) = Completion
    BY <1>1, <1>4, <2>1, NoneOnce DEF RequestInv, InPty, Over
  <2>2. CASE Head(toShell) # Completion
    BY <1>1, <1>4, <2>2 DEF RequestInv, InPty
  <2>3. QED
    BY <2>1, <2>2
<1>5. CASE nRequests # 0 /\ Over
  BY <1>1, <1>5 DEF RequestInv, Over
<1>6. QED
  BY <1>2, <1>3, <1>4, <1>5 DEF RequestInv, Asked, Answered

LEMMA HookAdded ==
  ASSUME TypeOK, NEW h \in Hooks, events' = Append(events, h)
  PROVE  /\ ToSet(events') = ToSet(events) \cup {h}
         /\ \A e : Once(events, e) /\ (e = h => e \notin ToSet(events))
                     => Once(events', e)
BY AppendOnce DEF TypeOK

(* The shell runs a command, which is not the key.                         *)
LEMMA BeginsRequest ==
  ASSUME TypeOK, RequestInv,
         ShellTyped \/ \E w \in Writes : ShellExecutes(w)
  PROVE  RequestInv'
<1> DEFINE Begins ==
             /\ events' = Append(events, "preexec") /\ shell'.st = "run"
             /\ UNCHANGED <<pending, native>>
<1>a. \A kind, c : BeginCommand(kind, c) => Begins
  BY DEF BeginCommand, Running, queueVars
<1>1. /\ events' = Append(events, "preexec") /\ "preexec" \in Hooks
      /\ shell.st = "edit" /\ shell'.st = "run"
      /\ UNCHANGED <<pending, native, nRequests>>
      /\ \/ toShell' = toShell
         \/ toShell # <<>> /\ toShell' = Tail(toShell)
  <2>1. "preexec" \in Hooks
    BY DEF Hooks
  <2>2. CASE ShellTyped
    <3>1. /\ BeginCommand(Typed, None) /\ shell.st = "edit"
          /\ UNCHANGED <<toShell, nRequests>>
      BY <2>2 DEF ShellTyped
    <3>2. QED
      BY <1>a, <2>1, <3>1
  <2>3. ASSUME NEW w \in Writes, ShellExecutes(w)
        PROVE  /\ Begins /\ shell.st = "edit" /\ UNCHANGED nRequests
               /\ toShell # <<>> /\ toShell' = Tail(toShell)
    <3>1. /\ BeginCommand(w.kind, w.id) /\ shell.st = "edit"
          /\ UNCHANGED nRequests /\ toShell # <<>> /\ toShell' = Tail(toShell)
      BY <2>3 DEF ShellExecutes, ShellReads, inputVars
    <3>2. QED
      BY <1>a, <3>1
  <2>4. QED
    BY <2>1, <2>2, <2>3
<1>2. /\ ToSet(events') = ToSet(events) \cup {"preexec"}
      /\ \A e : Once(events, e) /\ (e = "preexec" => e \notin ToSet(events))
                  => Once(events', e)
  BY <1>1, HookAdded
<1>3. /\ "sendPrompt" \in ToSet(events') <=> "sendPrompt" \in ToSet(events)
      /\ "completed" \in ToSet(events') <=> "completed" \in ToSet(events)
      /\ Once(events, "sendPrompt") => Once(events', "sendPrompt")
  BY <1>2
<1>4. QED
  BY <1>1, <1>3, QuietRequest, ReadsRequest

(* The shell reads the key, which was written last, or the text.           *)
LEMMA KeyRequest ==
  ASSUME TypeOK, RequestInv, NEW w \in Writes, ShellReadsKey(w)
  PROVE  RequestInv'
<1>1. /\ toShell # <<>> /\ Head(toShell) = w /\ toShell' = Tail(toShell)
      /\ UNCHANGED <<pending, native, nRequests>>
  BY DEF ShellReadsKey, ShellReads, queueVars, inputVars
<1>2. /\ Completion \notin ToSet(toShell) => /\ Completion \notin ToSet(toShell')
                                             /\ Head(toShell) # Completion
      /\ Last(toShell) = Completion /\ Once(toShell, Completion)
           => IF Head(toShell) = Completion
              THEN toShell' = <<>>
              ELSE /\ toShell' # <<>> /\ Last(toShell') = Completion
                   /\ Once(toShell', Completion)
  BY <1>1, ReadKey
<1>3. CASE /\ shell.st = "edit" /\ w \in {Report, Text}
           /\ UNCHANGED <<shell, events>>
  BY <1>1, <1>3, ReadsRequest
<1>4. CASE /\ shell.st = "edit" /\ w = Completion
           /\ shell' = Idle("complete")
           /\ events' = Append(events, "sendPrompt")
  <2>1. nRequests # 0 /\ InPty
    BY <1>1, <1>2, <1>4 DEF RequestInv, Unasked, InQueue, Asked, Answered,
                            Over, NotAsking
  <2>2. toShell' = <<>>
    BY <1>1, <1>2, <1>4, <2>1 DEF InPty
  <2>3. /\ ToSet(events') = ToSet(events) \cup {"sendPrompt"}
        /\ \A e : Once(events, e) /\ (e = "sendPrompt" => e \notin ToSet(events))
                    => Once(events', e)
    BY <1>4, HookAdded DEF Hooks
  <2>4. "sendPrompt" \notin ToSet(events) /\ "completed" \notin ToSet(events)
    BY <2>1 DEF InPty, Told
  <2>5. Once(events', "sendPrompt")
    BY <2>3, <2>4, AbsentIsOnce
  <2>6. "sendPrompt" \in ToSet(events') /\ "completed" \notin ToSet(events')
    BY <2>3, <2>4
  <2>7. shell'.st = "complete"
    BY <1>4 DEF Idle
  <2>8. Asked'
    BY <1>1, <2>1, <2>2, <2>5, <2>6, <2>7 DEF Asked, InPty, KeyQueued, Told
  <2>9. QED
    BY <1>1, <2>1, <2>8 DEF RequestInv
<1>5. CASE /\ shell.st = "complete" /\ w = Text
           /\ shell' = Idle("edit")
           /\ events' = Append(events, "completed")
  <2>1. nRequests # 0 /\ Answered
    BY <1>1, <1>5 DEF RequestInv, Unasked, InQueue, InPty, Asked, Over, NotAsking
  <2>2. ToSet(events') = ToSet(events) \cup {"completed"}
    BY <1>5, HookAdded DEF Hooks
  <2>3. "sendPrompt" \notin ToSet(events')
    BY <2>1, <2>2 DEF Answered, Told
  <2>4. shell'.st # "complete"
    BY <1>5 DEF Idle
  <2>5. Over'
    BY <1>1, <1>2, <2>1, <2>3, <2>4 DEF Over, Answered, NotAsking, KeyQueued, Told
  <2>6. QED
    BY <1>1, <2>1, <2>5 DEF RequestInv
<1>6. CASE shell.st = "complete" /\ w # Text
  BY <1>1, <1>6 DEF RequestInv, Unasked, InQueue, InPty, Asked, Answered, Over,
                    NotAsking
<1>7. QED
  BY <1>3, <1>4, <1>5, <1>6 DEF ShellReadsKey

(* The shell's other steps, a program, and the executor.                   *)
LEMMA PromptHooksHold ==
  "sendPrompt" \notin ToSet(PromptHooks) /\ "completed" \notin ToSet(PromptHooks)
<1>1. CASE Zsh
  <2> DEFINE a == "precmd"
             b == "endPrompt"
  <2>1. PromptHooks = <<a, b>>
    BY <1>1 DEF PromptHooks
  <2>2. ToSet(<<a, b>>) = {a, b}
    BY DEF ToSet
  <2>3. QED
    BY <2>1, <2>2
<1>2. CASE ~Zsh
  <2>1. PromptHooks = <<"precmd">>
    BY <1>2 DEF PromptHooks
  <2>2. ToSet(<<"precmd">>) = {"precmd"}
    BY DEF ToSet
  <2>3. QED
    BY <2>1, <2>2
<1>3. QED
  BY <1>1, <1>2

LEMMA OtherRequest ==
  ASSUME TypeOK, RequestInv,
         \/ ShellFinishes \/ ShellPrompts \/ ProgramReads \/ GiveUp
         \/ \E c \in InBand : Issue(c) \/ SendCancel(c) \/ GeneratorAnswers(c)
         \/ UNCHANGED vars
  PROVE  RequestInv'
<1>1. CASE ShellFinishes
  <2>1. /\ shell.st = "run" /\ shell'.st = "prompt"
        /\ UNCHANGED <<toShell, pending, native, nRequests>>
        /\ events' = events \/ events' = Append(events, "userFinished")
    BY <1>1 DEF ShellFinishes, Idle, queueVars, inputVars
  <2>2. CASE events' = events
    BY <2>1, <2>2, QuietRequest
  <2>3. CASE events' = Append(events, "userFinished")
    <3>1. /\ ToSet(events') = ToSet(events) \cup {"userFinished"}
          /\ \A e : Once(events, e) /\ (e = "userFinished" => e \notin ToSet(events))
                      => Once(events', e)
      BY <2>3, HookAdded DEF Hooks
    <3>2. QED
      BY <2>1, <3>1, QuietRequest
  <2>4. QED
    BY <2>1, <2>2, <2>3
<1>2. CASE ShellPrompts
  <2>1. /\ shell.st = "prompt" /\ shell'.st = "edit"
        /\ UNCHANGED <<toShell, pending, native, nRequests>>
        /\ events' = events \o PromptHooks
    BY <1>2 DEF ShellPrompts, Idle, queueVars, inputVars
  <2>2. events \in Seq(Hooks) /\ PromptHooks \in Seq(Hooks)
    BY PromptHooksType DEF TypeOK
  <2>3. /\ ToSet(events \o PromptHooks) = ToSet(events) \cup ToSet(PromptHooks)
        /\ \A e : Once(events \o PromptHooks, e)
                    <=> /\ Once(events, e) /\ Once(PromptHooks, e)
                        /\ ~(e \in ToSet(events) /\ e \in ToSet(PromptHooks))
    BY <2>2, JoinedOnce
  <2>4. /\ "sendPrompt" \in ToSet(events') <=> "sendPrompt" \in ToSet(events)
        /\ "completed" \in ToSet(events') <=> "completed" \in ToSet(events)
        /\ Once(events, "sendPrompt") => Once(events', "sendPrompt")
    BY <2>1, <2>3, PromptHooksHold, AbsentIsOnce
  <2>5. QED
    BY <2>1, <2>4, QuietRequest
<1>3. CASE ProgramReads
  <2>1. /\ toShell # <<>> /\ toShell' = Tail(toShell)
        /\ shell.st = "run" /\ UNCHANGED <<shell, pending, native, nRequests, events>>
    BY <1>3 DEF ProgramReads, queueVars, inputVars
  <2>2. QED
    BY <2>1, ReadsRequest
<1>4. ASSUME NEW c \in InBand, Issue(c) \/ SendCancel(c) \/ GeneratorAnswers(c)
      PROVE  RequestInv'
  <2>1. UNCHANGED <<toShell, pending, native, nRequests, shell, events>>
    BY <1>4 DEF Issue, SendCancel, GeneratorAnswers, queueVars, shellVars, inputVars
  <2>2. QED
    BY <2>1, QuietRequest
<1>5. CASE GiveUp \/ UNCHANGED vars
  <2>1. UNCHANGED <<toShell, pending, native, nRequests, shell, events>>
    BY <1>5 DEF GiveUp, vars, queueVars, shellVars, inputVars
  <2>2. QED
    BY <2>1, QuietRequest
<1>6. QED
  BY <1>1, <1>2, <1>3, <1>4, <1>5

LEMMA RequestStep ==
  ASSUME TypeOK, RequestInv, MaxRequests <= 1, [Next]_vars
  PROVE  RequestInv'
<1>1. CASE HandleEvent
  BY <1>1, EventRequest
<1>2. CASE TimerExpires \/ MarkActive \/ HandleExecutor
  BY <1>2, MainRequest
<1>3. CASE RequestCompletions
  BY <1>3, AskRequest
<1>4. ASSUME NEW c \in Cmds, Submit(c) PROVE RequestInv'
  BY <1>4, SubmitRequest
<1>5. ASSUME NEW w \in Writes, ShellExecutes(w) PROVE RequestInv'
  BY <1>5, BeginsRequest
<1>6. ASSUME NEW w \in Writes, ShellReadsKey(w) PROVE RequestInv'
  BY <1>6, KeyRequest
<1>7. CASE ShellTyped
  BY <1>7, BeginsRequest
<1>8. CASE ShellFinishes \/ ShellPrompts \/ ProgramReads \/ GiveUp \/ UNCHANGED vars
  BY <1>8, OtherRequest
<1>9. ASSUME NEW c \in InBand, Issue(c) \/ SendCancel(c) \/ GeneratorAnswers(c)
      PROVE  RequestInv'
  BY <1>9, OtherRequest
<1>10. QED
  BY <1>1, <1>2, <1>3, <1>4, <1>5, <1>6, <1>7, <1>8, <1>9
     DEF Next, ShellSteps, Users

LEMMA RequestInit == Init => RequestInv
<1>1. SUFFICES ASSUME Init PROVE Unasked
  BY DEF RequestInv
<1>2. /\ nRequests = 0 /\ pending = <<>> /\ toShell = <<>>
      /\ events = PromptHooks /\ shell.st = "edit"
  <2>1. /\ nRequests = 0 /\ pending = <<>> /\ toShell = <<>>
        /\ events = PromptHooks /\ shell = Idle("edit")
    BY <1>1 DEF Init
  <2>2. QED
    BY <2>1 DEF Idle
<1>3. QED
  BY <1>2, PromptHooksHold, NoneOnce DEF Unasked, KeyQueued, NotAsking, Told

LEMMA RequestSuffices == RequestInv => PromptIsExclusive
BY DEF RequestInv, Unasked, InQueue, InPty, Asked, Answered, Over, NotAsking,
       PromptIsExclusive

(* When completions are requested once, and for any commands of user,      *)
(* agent, executor and programs, the first the shell reads while it waits  *)
(* for the text to complete is that text: the queue stops behind the key,  *)
(* write_command sees that a completion is in flight, and the text is      *)
(* written before the queue goes on (HandleSendPrompt).  A second request  *)
(* may overtake the first (run ctl_two_requests).                          *)
THEOREM OnePromptIsExclusive ==
  MaxRequests <= 1 => (Spec => []PromptIsExclusive)
<1>1. SUFFICES ASSUME MaxRequests <= 1 PROVE Spec => []PromptIsExclusive
  OBVIOUS
<1>2. TypeOK /\ RequestInv /\ [Next]_vars => RequestInv'
  BY <1>1, RequestStep
<1>3. QED
  BY <1>2, RequestInit, RequestSuffices, TypeCorrect, PTL DEF Spec

(* Then the count of in-band commands in flight is right, too: the         *)
(* hypothesis of InFlightCounts holds.                                     *)
THEOREM OneRequestCounts ==
  MaxRequests <= 1 => (Spec => []InFlightIsExact)
<1>1. SUFFICES ASSUME MaxRequests <= 1 PROVE Spec => []InFlightIsExact
  OBVIOUS
<1>2. Spec => []PromptIsExclusive
  BY <1>1, OnePromptIsExclusive
<1>3. QED
  BY <1>2, InFlightCounts, PTL

-----------------------------------------------------------------------------
(* Who has a command the executor waits for.  The executor says so when it *)
(* cancels one, so what the controller throws away on its behalf is known. *)
OnItsWay(c) == InBandWrite(c) \in ToSet(pending) \cup ToSet(toShell)
Kept(c) ==
  \/ c \in cancelled
  \/ Execute(c) \in ToSet(fromExecutor)
  \/ OnItsWay(c)
  \/ shell = Running("inband", c)
  \/ c \in generators

CancelsKnown ==
  \A c \in InBand : Cancel(c) \in ToSet(fromExecutor) => c \in cancelled

WaitInv == CancelsKnown /\ (NothingTyped => \A c \in waiting : Kept(c))

LEMMA MessageKinds ==
  /\ \A c \in InBand :
       /\ Execute(c) \in [op : {"execute", "cancel"}, id : InBand]
       /\ Cancel(c) \in [op : {"execute", "cancel"}, id : InBand]
  /\ \A c, d : /\ Execute(c) = Execute(d) => c = d
               /\ Cancel(c) = Cancel(d) => c = d
               /\ InBandWrite(c) = InBandWrite(d) => c = d
               /\ Execute(c) # Cancel(d) /\ InBandWrite(c) # UserWrite(d)
  /\ \A m \in [op : {"execute", "cancel"}, id : InBand] :
       m = IF m.op = "execute" THEN Execute(m.id) ELSE Cancel(m.id)
<1> USE DEF Execute, Cancel, InBandWrite, UserWrite, Write
<1>1. \A c \in InBand :
        /\ Execute(c) \in [op : {"execute", "cancel"}, id : InBand]
        /\ Cancel(c) \in [op : {"execute", "cancel"}, id : InBand]
  OBVIOUS
<1>2. \A c, d : Execute(c) = Execute(d) => c = d
  OBVIOUS
<1>3. \A c, d : Cancel(c) = Cancel(d) => c = d
  OBVIOUS
<1>4. \A c, d : InBandWrite(c) = InBandWrite(d) => c = d
  OBVIOUS
<1>5. \A c, d : Execute(c) # Cancel(d) /\ InBandWrite(c) # UserWrite(d)
  OBVIOUS
<1>6. \A m \in [op : {"execute", "cancel"}, id : InBand] :
        m = IF m.op = "execute" THEN Execute(m.id) ELSE Cancel(m.id)
  OBVIOUS
<1> QED
  BY <1>1, <1>2, <1>3, <1>4, <1>5, <1>6

(* A flush loses nothing.                                                  *)
LEMMA FlushKeeps ==
  ASSUME TypeOK, NEW q \in Seq(Queueable), NEW text \in {<<>>, <<Text>>},
         NEW act, NEW expired, NEW nat, Flush(q, text, act, expired, nat)
  PROVE  ToSet(toShell) \cup ToSet(q) \subseteq ToSet(pending') \cup ToSet(toShell')
<1>1. PICK front : Moved(q, text, act, nat, front)
  BY FlushMoves
<1>2. text \in Seq(Writes)
  <2>1. Text \in Writes
    BY WriteKinds
  <2>2. CASE text = <<Text>>
    BY <2>1, <2>2
  <2>3. CASE text = <<>>
    BY <2>3
  <2>4. QED
    BY <2>2, <2>3
<1>3. /\ ToSet(toShell') = ToSet(toShell) \cup ToSet(text) \cup ToSet(front)
      /\ ToSet(q) = ToSet(front) \cup ToSet(pending')
  BY <1>1, <1>2, MovedHolds
<1>4. QED
  BY <1>3

(* A step in which nobody begins to wait and nothing that is waited for is *)
(* lost.                                                                   *)
LEMMA KeepsWaiting ==
  ASSUME TypeOK, WaitInv, NothingTyped' => NothingTyped,
         waiting' \subseteq waiting, cancelled \subseteq cancelled',
         \A c \in InBand : Cancel(c) \in ToSet(fromExecutor')
                             => \/ Cancel(c) \in ToSet(fromExecutor)
                                \/ c \in cancelled',
         NothingTyped => \A c \in waiting' : Kept(c) => Kept(c)'
  PROVE  WaitInv'
<1>1. CancelsKnown'
  BY DEF WaitInv, CancelsKnown
<1>2. NothingTyped' => \A c \in waiting' : Kept(c)'
  BY DEF WaitInv
<1>3. QED
  BY <1>1, <1>2 DEF WaitInv

LEMMA FlushWaits ==
  ASSUME TypeOK, WaitInv, NEW q \in Seq(Queueable),
         NEW text \in {<<>>, <<Text>>}, NEW act, NEW expired, NEW nat,
         Flush(q, text, act, expired, nat),
         \A c : InBandWrite(c) \in ToSet(pending) => InBandWrite(c) \in ToSet(q),
         UNCHANGED <<waiting, cancelled, fromExecutor, shell, generators, nTyped>>
  PROVE  WaitInv'
<1>1. ToSet(toShell) \cup ToSet(q) \subseteq ToSet(pending') \cup ToSet(toShell')
  BY FlushKeeps
<1>2. \A c : Kept(c) => Kept(c)'
  BY <1>1 DEF Kept, OnItsWay
<1>3. QED
  BY <1>2, KeepsWaiting DEF NothingTyped

LEMMA MainWaits ==
  ASSUME TypeOK, WaitInv,
         HandleEvent \/ TimerExpires \/ MarkActive \/ RequestCompletions
  PROVE  WaitInv'
<1>0. pending \in Seq(Queueable)
  BY DEF TypeOK, Queueable
<1>1. UNCHANGED <<waiting, cancelled, fromExecutor, shell, generators, nTyped>>
  BY DEF HandleEvent, TimerExpires, MarkActive, RequestCompletions,
         executorVars, shellVars, inputVars
<1>2. CASE UNCHANGED <<pending, toShell>>
  <2>1. \A c : Kept(c) => Kept(c)'
    BY <1>1, <1>2 DEF Kept, OnItsWay
  <2>2. QED
    BY <1>1, <2>1, KeepsWaiting DEF NothingTyped
<1>3. CASE HandleEvent
  <2>1. \/ UNCHANGED <<pending, toShell>>
        \/ Flush(pending, <<Text>>, active, due, "results")
    BY <1>3 DEF HandleEvent, HandlePreexec, HandlePrecmd, HandleEndPrompt,
                HandleUserFinished, HandleSendPrompt, HandleCompleted, queueVars
  <2>2. <<Text>> \in {<<>>, <<Text>>}
    OBVIOUS
  <2>3. CASE Flush(pending, <<Text>>, active, due, "results")
    BY <1>0, <1>1, <2>2, <2>3, FlushWaits
  <2>4. QED
    BY <1>2, <2>1, <2>3
<1>4. CASE TimerExpires
  BY <1>2, <1>4 DEF TimerExpires, queueVars, shellVars
<1>5. CASE MarkActive
  <2> DEFINE q == <<Report>> \o pending
  <2>1. Flush(q, <<>>, TRUE, due - 1, native) /\ <<>> \in {<<>>, <<Text>>}
    BY <1>5 DEF MarkActive
  <2>2. q \in Seq(Queueable) /\ ToSet(q) = {Report} \cup ToSet(pending)
    BY <1>0, FirstOnce, WriteKinds
  <2> HIDE DEF q
  <2>3. QED
    BY <1>1, <2>1, <2>2, FlushWaits
<1>6. CASE RequestCompletions
  <2> DEFINE p == Without(pending, Completion)
             q == Append(p, Completion)
  <2>1. Flush(q, <<>>, active, due, native) /\ <<>> \in {<<>>, <<Text>>}
    BY <1>6 DEF RequestCompletions
  <2>2. p \in Seq(Queueable) /\ ToSet(pending) \subseteq ToSet(p) \cup {Completion}
    BY <1>0, WithoutKeeps
  <2> HIDE DEF p
  <2>3. q \in Seq(Queueable) /\ ToSet(q) = ToSet(p) \cup {Completion}
    BY <2>2, WriteKinds, AppendOnce
  <2> HIDE DEF q
  <2>4. \A c : InBandWrite(c) \in ToSet(pending) => InBandWrite(c) \in ToSet(q)
    BY <2>2, <2>3, KeyKinds
  <2>5. QED
    BY <1>1, <2>1, <2>3, <2>4, FlushWaits
<1>7. QED
  BY <1>3, <1>4, <1>5, <1>6

(* A message to the controller: the command is refused and the executor    *)
(* told, queued, or thrown away once it is cancelled.                      *)
LEMMA MessageWaits ==
  ASSUME TypeOK, WaitInv, HandleExecutor
  PROVE  WaitInv'
<1> DEFINE m == Head(fromExecutor)
           c == m.id
<1>0. pending \in Seq(Queueable)
  BY DEF TypeOK, Queueable
<1>1. /\ fromExecutor \in Seq([op : {"execute", "cancel"}, id : InBand])
      /\ fromExecutor # <<>> /\ fromExecutor' = Tail(fromExecutor)
      /\ UNCHANGED <<cancelled, shell, generators, nTyped>>
      /\ \/ m.op = "execute" /\ QueueInBand(c)
         \/ m.op = "cancel" /\ CancelInBand(c)
  BY DEF HandleExecutor, TypeOK, inputVars
<1>2. /\ m \in [op : {"execute", "cancel"}, id : InBand]
      /\ ToSet(fromExecutor) = {m} \cup ToSet(fromExecutor')
  BY <1>1, TailOnce
<1>3. c \in InBand /\ m = IF m.op = "execute" THEN Execute(c) ELSE Cancel(c)
  BY <1>2, MessageKinds
<1>4. NothingTyped' = NothingTyped
  BY <1>1 DEF NothingTyped
<1>5. \A d \in InBand : Cancel(d) \in ToSet(fromExecutor')
                          => Cancel(d) \in ToSet(fromExecutor)
  BY <1>2
<1>6. waiting' \subseteq waiting
  <2>1. waiting' = waiting \/ waiting' = waiting \ {c}
    BY <1>1 DEF QueueInBand, CancelInBand
  <2>2. QED
    BY <2>1
<1> HIDE DEF m, c
<1>7. CASE m.op = "execute" /\ QueueInBand(c) /\ userExecuting
  <2>1. waiting' = waiting \ {c} /\ UNCHANGED <<pending, toShell>>
    BY <1>7 DEF QueueInBand, queueVars
  <2>2. \A d : d # c /\ Execute(d) \in ToSet(fromExecutor)
                 => Execute(d) \in ToSet(fromExecutor')
    BY <1>2, <1>3, <1>7, MessageKinds
  <2>3. \A d \in waiting' : Kept(d) => Kept(d)'
    BY <1>1, <2>1, <2>2 DEF Kept, OnItsWay
  <2>4. QED
    BY <1>1, <1>4, <1>5, <1>6, <2>3, KeepsWaiting
<1>8. CASE m.op = "execute" /\ QueueInBand(c) /\ ~userExecuting
  <2> DEFINE q == Append(pending, InBandWrite(c))
  <2>1. Flush(q, <<>>, active, due, native) /\ <<>> \in {<<>>, <<Text>>}
    BY <1>8 DEF QueueInBand
  <2>2. q \in Seq(Queueable) /\ ToSet(q) = ToSet(pending) \cup {InBandWrite(c)}
    BY <1>0, <1>3, WriteKinds, AppendOnce
  <2> HIDE DEF q
  <2>3. ToSet(toShell) \cup ToSet(q) \subseteq ToSet(pending') \cup ToSet(toShell')
    BY <2>1, <2>2, FlushKeeps
  <2>4. \A d : d # c /\ Execute(d) \in ToSet(fromExecutor)
                 => Execute(d) \in ToSet(fromExecutor')
    BY <1>2, <1>3, <1>8, MessageKinds
  <2>5. \A d : OnItsWay(d) \/ d = c => OnItsWay(d)'
    BY <2>2, <2>3 DEF OnItsWay
  <2>6. \A d : Kept(d) => Kept(d)'
    BY <1>1, <2>4, <2>5 DEF Kept
  <2>7. QED
    BY <1>1, <1>4, <1>5, <1>6, <2>6, KeepsWaiting
<1>9. CASE m.op = "cancel" /\ CancelInBand(c)
  <2>1. pending' = Without(pending, InBandWrite(c)) /\ UNCHANGED <<waiting, toShell>>
    BY <1>9 DEF CancelInBand
  <2>2. ToSet(pending) \subseteq ToSet(pending') \cup {InBandWrite(c)}
    BY <1>0, <2>1, WithoutKeeps
  <2>3. c \in cancelled
    BY <1>2, <1>3, <1>9 DEF WaitInv, CancelsKnown
  <2>4. \A d : OnItsWay(d) => OnItsWay(d)' \/ d = c
    BY <2>1, <2>2, MessageKinds DEF OnItsWay
  <2>5. \A d : Execute(d) \in ToSet(fromExecutor) => Execute(d) \in ToSet(fromExecutor')
    BY <1>2, <1>3, <1>9, MessageKinds
  <2>6. \A d : Kept(d) => Kept(d)'
    BY <1>1, <2>3, <2>4, <2>5 DEF Kept
  <2>7. QED
    BY <1>1, <1>4, <1>5, <1>6, <2>6, KeepsWaiting
<1>10. QED
  BY <1>1, <1>7, <1>8, <1>9

(* The executor's own steps.                                               *)
LEMMA ExecutorWaits ==
  ASSUME TypeOK, WaitInv, NEW c \in InBand, Issue(c) \/ SendCancel(c) \/ GiveUp
  PROVE  WaitInv'
<1>1. /\ UNCHANGED <<pending, toShell, shell, generators, nTyped>>
      /\ fromExecutor \in Seq([op : {"execute", "cancel"}, id : InBand])
  BY DEF Issue, SendCancel, GiveUp, queueVars, shellVars, inputVars, TypeOK
<1>2. CASE Issue(c)
  <2>1. /\ waiting' = {c} /\ cancelled' = cancelled
        /\ fromExecutor' = Append(fromExecutor, Execute(c))
    BY <1>2 DEF Issue
  <2>2. ToSet(fromExecutor') = ToSet(fromExecutor) \cup {Execute(c)}
    <3> DEFINE m == Execute(c)
               M == [op : {"execute", "cancel"}, id : InBand]
    <3>1. m \in M /\ fromExecutor \in Seq(M)
      BY <1>1 DEF Execute
    <3> HIDE DEF m, M
    <3>2. ToSet(Append(fromExecutor, m)) = ToSet(fromExecutor) \cup {m}
      BY <3>1, AppendOnce
    <3>3. QED
      BY <2>1, <3>2 DEF m
  <2>3. CancelsKnown'
    BY <2>1, <2>2, MessageKinds DEF WaitInv, CancelsKnown
  <2>4. \A d \in waiting' : Kept(d)'
    BY <2>1, <2>2 DEF Kept
  <2>5. QED
    BY <2>3, <2>4 DEF WaitInv
<1>3. CASE SendCancel(c)
  <2>1. /\ waiting' = waiting /\ cancelled' = cancelled \cup {c}
        /\ fromExecutor' = Append(fromExecutor, Cancel(c))
    BY <1>3 DEF SendCancel, executorVars
  <2>2. ToSet(fromExecutor') = ToSet(fromExecutor) \cup {Cancel(c)}
    <3> DEFINE m == Cancel(c)
               M == [op : {"execute", "cancel"}, id : InBand]
    <3>1. m \in M /\ fromExecutor \in Seq(M)
      BY <1>1 DEF Cancel
    <3> HIDE DEF m, M
    <3>2. ToSet(Append(fromExecutor, m)) = ToSet(fromExecutor) \cup {m}
      BY <3>1, AppendOnce
    <3>3. QED
      BY <2>1, <3>2 DEF m
  <2>3. \A d \in InBand : Cancel(d) \in ToSet(fromExecutor')
                            => Cancel(d) \in ToSet(fromExecutor) \/ d \in cancelled'
    BY <2>1, <2>2, MessageKinds
  <2>4. \A d : Kept(d) => Kept(d)'
    BY <1>1, <2>1, <2>2 DEF Kept, OnItsWay
  <2>5. QED
    BY <1>1, <2>1, <2>3, <2>4, KeepsWaiting DEF NothingTyped
<1>4. CASE GiveUp
  <2>1. waiting' = {} /\ UNCHANGED <<cancelled, fromExecutor>>
    BY <1>4 DEF GiveUp
  <2>2. QED
    BY <1>1, <2>1, KeepsWaiting DEF NothingTyped
<1>5. QED
  BY <1>2, <1>3, <1>4

(* The user's command makes the executor forget what it waits for.         *)
LEMMA SubmitWaits ==
  ASSUME TypeOK, WaitInv, Agent = {}, NEW c \in Cmds, Submit(c)
  PROVE  WaitInv'
<1>1. waiting' = {} /\ UNCHANGED <<cancelled, fromExecutor, nTyped>>
  BY DEF Submit
<1>2. QED
  BY <1>1, KeepsWaiting DEF NothingTyped

(* What the shell takes from the pty it runs, or it is no in-band command. *)
LEMMA ShellWaits ==
  ASSUME TypeOK, WaitInv, PromptIsExclusive, NEW w \in Writes,
         ShellExecutes(w) \/ ShellReadsKey(w)
  PROVE  WaitInv'
<1>1. /\ toShell # <<>> /\ Head(toShell) = w /\ toShell' = Tail(toShell)
      /\ toShell \in Seq(Writes)
      /\ UNCHANGED <<pending, waiting, cancelled, fromExecutor, generators, nTyped>>
  BY DEF ShellExecutes, ShellReadsKey, ShellReads, BeginCommand, queueVars,
         executorVars, inputVars, TypeOK
<1>2. ToSet(toShell) = {w} \cup ToSet(toShell')
  BY <1>1, TailOnce
<1>3. ShellReadsKey(w) => w \in {Report, Completion, Text}
  BY <1>1 DEF ShellReadsKey, PromptIsExclusive
<1>4. shell.st # "run" /\ ((shell.st = "edit" /\ ShellExecutes(w)) \/ ShellReadsKey(w))
  BY DEF ShellExecutes, ShellReadsKey
<1>5. \A d : w = InBandWrite(d) => shell' = Running("inband", d)
  <2>1. ASSUME NEW d, w = InBandWrite(d) PROVE ShellExecutes(w)
    BY <1>3, <2>1, KeyKinds
  <2>2. ASSUME NEW d, w = InBandWrite(d), ShellExecutes(w)
        PROVE  shell' = Running("inband", d)
    <3>1. w.kind = "inband" /\ w.id = d
      BY <2>2 DEF InBandWrite, Write
    <3>2. shell' = Running(w.kind, w.id)
      BY <2>2 DEF ShellExecutes, BeginCommand
    <3>3. QED
      BY <3>1, <3>2
  <2>3. QED
    BY <2>1, <2>2
<1>6. \A d : shell # Running("inband", d)
  BY <1>4 DEF Running
<1>7. \A d : Kept(d) => Kept(d)'
  BY <1>1, <1>2, <1>5, <1>6 DEF Kept, OnItsWay
<1>8. QED
  BY <1>1, <1>7, KeepsWaiting DEF NothingTyped

(* A program reads no in-band command: while one runs that was not typed   *)
(* ahead, no command has been written.                                     *)
LEMMA ProgramWaits ==
  ASSUME TypeOK, WaitInv, TurnKept, ProgramReads
  PROVE  WaitInv'
<1>1. /\ shell.st = "run" /\ toShell # <<>> /\ toShell' = Tail(toShell)
      /\ UNCHANGED <<pending, waiting, cancelled, fromExecutor, shell,
                     generators, nTyped>>
  BY DEF ProgramReads, queueVars, executorVars, inputVars
<1>2. ASSUME NothingTyped, NEW c \in InBand PROVE InBandWrite(c) \notin ToSet(toShell)
  <2>1. ~CommandSent
    BY <1>1, <1>2 DEF TurnKept, OneTurn, ShellBusy
  <2>2. InBandWrite(c) \in Commands
    BY WriteKinds DEF Commands, Queueable
  <2>3. QED
    BY <2>1, <2>2 DEF CommandSent, Some, ToSet
<1>3. waiting \subseteq InBand
  BY DEF TypeOK
<1>4. NothingTyped => \A c \in waiting : Kept(c) => Kept(c)'
  BY <1>1, <1>2, <1>3 DEF Kept, OnItsWay
<1>5. QED
  BY <1>1, <1>4, KeepsWaiting DEF NothingTyped

(* An in-band command that finishes is at work in the background, ...      *)
LEMMA FinishesWaits ==
  ASSUME TypeOK, WaitInv, ShellFinishes
  PROVE  WaitInv'
<1>1. /\ UNCHANGED <<pending, toShell, waiting, cancelled, fromExecutor, nTyped>>
      /\ generators' = IF shell.kind = "inband" THEN generators \cup {shell.id}
                                                ELSE generators
  BY DEF ShellFinishes, queueVars, executorVars, inputVars
<1>2. \A d : shell = Running("inband", d) => shell.kind = "inband" /\ shell.id = d
  BY DEF Running
<1>3. \A d : d \in generators \/ shell = Running("inband", d) => d \in generators'
  BY <1>1, <1>2
<1>4. \A d : Kept(d) => Kept(d)'
  BY <1>1, <1>3 DEF Kept, OnItsWay
<1>5. QED
  BY <1>1, <1>4, KeepsWaiting DEF NothingTyped

(* ... until it answers, which the executor waited for.                    *)
LEMMA AnswersWaits ==
  ASSUME TypeOK, WaitInv, NEW c \in InBand, GeneratorAnswers(c)
  PROVE  WaitInv'
<1>1. /\ UNCHANGED <<pending, toShell, shell, cancelled, fromExecutor, nTyped>>
      /\ generators' = generators \ {c} /\ waiting' = waiting \ {c}
  BY DEF GeneratorAnswers, queueVars, inputVars
<1>2. \A d \in waiting' : Kept(d) => Kept(d)'
  BY <1>1 DEF Kept, OnItsWay
<1>3. QED
  BY <1>1, <1>2, KeepsWaiting DEF NothingTyped

LEMMA PromptsWaits ==
  ASSUME TypeOK, WaitInv, ShellPrompts \/ UNCHANGED vars
  PROVE  WaitInv'
<1>1. UNCHANGED <<pending, toShell, waiting, cancelled, fromExecutor,
                  generators, nTyped>>
  BY DEF ShellPrompts, vars, queueVars, executorVars, inputVars, shellVars
<1>2. \A d : shell = Running("inband", d) => shell' = shell
  BY DEF ShellPrompts, Running, vars, shellVars
<1>3. \A d : Kept(d) => Kept(d)'
  BY <1>1, <1>2 DEF Kept, OnItsWay
<1>4. QED
  BY <1>1, <1>3, KeepsWaiting DEF NothingTyped

LEMMA TypedWaits ==
  ASSUME TypeOK, WaitInv, ShellTyped
  PROVE  WaitInv'
<1>1. UNCHANGED <<cancelled, fromExecutor>> /\ ~NothingTyped'
  BY DEF ShellTyped, BeginCommand, executorVars, NothingTyped, TypeOK
<1>2. QED
  BY <1>1 DEF WaitInv, CancelsKnown

LEMMA WaitStep ==
  ASSUME TypeOK, TurnKept, PromptIsExclusive, WaitInv, Agent = {}, [Next]_vars
  PROVE  WaitInv'
<1>1. CASE HandleEvent \/ TimerExpires \/ MarkActive \/ RequestCompletions
  BY <1>1, MainWaits
<1>2. CASE HandleExecutor
  BY <1>2, MessageWaits
<1>3. ASSUME NEW c \in InBand, Issue(c) \/ SendCancel(c) PROVE WaitInv'
  BY <1>3, ExecutorWaits
<1>4. CASE GiveUp
  <2>1. PICK c \in InBand : TRUE
    BY <1>4 DEF GiveUp, TypeOK
  <2>2. QED
    BY <1>4, ExecutorWaits
<1>5. ASSUME NEW c \in Cmds, Submit(c) PROVE WaitInv'
  BY <1>5, SubmitWaits
<1>6. ASSUME NEW w \in Writes, ShellExecutes(w) \/ ShellReadsKey(w) PROVE WaitInv'
  BY <1>6, ShellWaits
<1>7. CASE ProgramReads
  BY <1>7, ProgramWaits
<1>8. CASE ShellFinishes
  BY <1>8, FinishesWaits
<1>9. ASSUME NEW c \in InBand, GeneratorAnswers(c) PROVE WaitInv'
  BY <1>9, AnswersWaits
<1>10. CASE ShellPrompts \/ UNCHANGED vars
  BY <1>10, PromptsWaits
<1>11. CASE ShellTyped
  BY <1>11, TypedWaits
<1>12. QED
  BY <1>1, <1>2, <1>3, <1>4, <1>5, <1>6, <1>7, <1>8, <1>9, <1>10, <1>11
     DEF Next, ShellSteps, Users

LEMMA WaitInit == Init => WaitInv
BY NoneOnce DEF Init, WaitInv, CancelsKnown

LEMMA WaitSuffices == TypeOK /\ WaitInv => NobodyWaitsForDropped
<1>1. SUFFICES ASSUME TypeOK, WaitInv, NothingTyped, NEW c \in waiting
               PROVE  \/ c \in cancelled
                      \/ Execute(c) \in ToSet(fromExecutor)
                      \/ InBandWrite(c) \in ToSet(pending \o toShell)
                      \/ shell = Running("inband", c)
                      \/ c \in generators
  BY DEF NobodyWaitsForDropped
<1>2. Kept(c)
  BY <1>1 DEF WaitInv
<1>3. pending \in Seq(Writes) /\ toShell \in Seq(Writes)
  BY <1>1, SeqMonotonic DEF TypeOK
<1>4. ToSet(pending \o toShell) = ToSet(pending) \cup ToSet(toShell)
  BY <1>3, JoinedOnce
<1>5. QED
  BY <1>2, <1>4 DEF Kept, OnItsWay

(* The executor never waits for a command that nobody has any more, unless *)
(* it cancelled it, whatever the delays of messages, hooks and timers, as  *)
(* long as only the user submits commands and completions are requested    *)
(* once: write_command of the agent throws in-band writes away without     *)
(* telling the executor (run ctl_forgotten), and a completion of two may   *)
(* swallow one (run ctl_two_requests).                                     *)
THEOREM DroppedIsKnown ==
  Agent = {} /\ MaxRequests <= 1 => (Spec => []NobodyWaitsForDropped)
<1>1. SUFFICES ASSUME Agent = {}, MaxRequests <= 1
               PROVE  Spec => []NobodyWaitsForDropped
  OBVIOUS
<1>2. Spec => []PromptIsExclusive
  BY <1>1, OnePromptIsExclusive
<1>3. Init => TurnKept
  BY TurnInit DEF TurnKept
<1>4. TypeOK /\ TurnKept /\ [Next]_vars => TurnKept'
  BY TurnStep, TypedStays DEF TurnKept
<1>5. TypeOK /\ TurnKept /\ PromptIsExclusive /\ WaitInv /\ [Next]_vars => WaitInv'
  BY <1>1, WaitStep
<1>6. QED
  BY <1>2, <1>3, <1>4, <1>5, WaitInit, WaitSuffices, TypeCorrect, PTL DEF Spec
=============================================================================
