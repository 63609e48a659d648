------------------------ MODULE LanguageServerProofs ------------------------
(***************************************************************************)
(* Proofs for LanguageServer: types, that a manual stop is kept, that no   *)
(* process is forgotten, and that a server that was told of everything     *)
(* knows the document as it is.                                            *)
(***************************************************************************)
EXTENDS LanguageServer, TLAPS

-----------------------------------------------------------------------------
\* The strengthening of StopIsKept and OneServer.

\* A start under way is the last one, and the model waits for it.
OneStart ==
  \A g \in Launches : start[g] \in {"resolving", "initializing", "failed"} =>
    state = "Starting" /\ last = g

\* So is a shutdown, and it starts nothing after a manual stop.
OneShutdown ==
  \A g \in Launches : shutdown[g] \in {"asking", "waiting"} =>
    state = "Stopping" /\ last = g /\ (again[g] => ~byHand)

\* A launch not yet made has no process, nor has one that failed.
NoProcessBefore ==
  \A g \in Launches :
    /\ g > last => start[g] = "none"
    /\ start[g] \in {"none", "resolving", "failed"} => ~alive[g]

\* The process answers initialize once, and only a dead one cannot be asked.
AnswersOnce ==
  \A g \in Launches :
    /\ request[g]["initialize"] \in {"none", "spawned", "sending"} =>
         "initialize" \notin inbox[g] /\ answer[g] = "none"
    /\ "initialize" \in inbox[g] => answer[g] = "none"
    /\ request[g]["initialize"] = "failed" => ~alive[g]
    /\ start[g] = "none" => request[g]["initialize"] = "none"
    /\ start[g] = "resolving" => request[g]["initialize"] = "none"

\* A process that was started is used, being shut down, or left behind.
Accounted(g) ==
  \/ state = "Available" /\ last = g
  \/ shutdown[g] \in {"asking", "waiting"}
  \/ LeftBehind(g)

StartedIsOwned ==
  \A g \in Launches : alive[g] /\ start[g] = "ended" => Accounted(g)

IInv ==
  /\ TypeOK /\ OneStart /\ OneShutdown /\ NoProcessBefore /\ AnswersOnce
  /\ StartedIsOwned /\ StopIsKept

-----------------------------------------------------------------------------
\* Types, one group of variables at a time.

LEMMA LaunchBound == MaxLaunches \in Nat /\ MaxLaunches > 0
  BY LanguageServerAssumption DEF LanguageServerAssumption

\* The task of a request takes a step.
LEMMA RequestTyped ==
  ASSUME NEW f \in [Launches -> [Requests -> RequestStates]],
         NEW g, NEW r, NEW s \in RequestStates
  PROVE  [f EXCEPT ![g][r] = s] \in [Launches -> [Requests -> RequestStates]]
<1>1. ASSUME NEW h \in Launches
      PROVE [f EXCEPT ![g][r] = s][h] \in [Requests -> RequestStates]
  <2>1. CASE h = g
    <3>1. f[h] \in [Requests -> RequestStates]
      OBVIOUS
    <3>2. [f[h] EXCEPT ![r] = s] \in [Requests -> RequestStates]
      BY <3>1
    <3>3. QED
      BY <2>1, <3>2
  <2>2. CASE h # g
    BY <2>2
  <2>3. QED
    BY <2>1, <2>2
<1>2. QED
  BY <1>1

\* start() makes one launch.
LEMMA StartCounts ==
  last \in 0..MaxLaunches /\ Start => last' \in 0..MaxLaunches /\ last' > 0
  BY LaunchBound DEF Start

LEMMA InitTypes == Init => TypeOK
<1> SUFFICES ASSUME Init PROVE TypeOK
  OBVIOUS
<1> USE DEF Init
<1>1. ModelTypes
  <2>1. last \in 0..MaxLaunches /\ (state # "Stopped" => last > 0)
    BY LaunchBound
  <2>2. start \in [Launches -> {"none", "resolving", "initializing", "failed", "ended"}]
    OBVIOUS
  <2>3. /\ state \in States /\ byHand \in BOOLEAN /\ removed \in BOOLEAN
        /\ byHand => state \in {"Stopping", "Stopped"}
    BY DEF States
  <2>4. QED
    BY <2>1, <2>2, <2>3 DEF ModelTypes
<1>2. ProcessTypes
  BY DEF ProcessTypes
<1>3. RpcTypes
  BY DEF RpcTypes, RequestStates
<1>4. DocTypes
  BY DEF DocTypes, None, Garbled
<1>5. CounterTypes
  BY LanguageServerAssumption DEF CounterTypes
<1>6. QED
  BY <1>1, <1>2, <1>3, <1>4, <1>5 DEF TypeOK

LEMMA NextModelTypes == ModelTypes /\ OneStart /\ [Next]_vars => ModelTypes'
<1> SUFFICES ASSUME ModelTypes /\ OneStart, [Next]_vars PROVE ModelTypes'
  OBVIOUS
<1> USE DEF modelVars
<1>1. CASE StartAll
  <2>1. last' \in 0..MaxLaunches
    BY <1>1, StartCounts DEF StartAll, ModelTypes
  <2>2. state' # "Stopped" => last' > 0
    BY <1>1, StartCounts DEF StartAll, ModelTypes
  <2>3. start' \in [Launches -> {"none", "resolving", "initializing", "failed", "ended"}]
    BY <1>1 DEF StartAll, Start, ModelTypes, Launches
  <2>4. state' \in States
    BY <1>1 DEF StartAll, Start, ModelTypes, States
  <2>5. byHand' \in BOOLEAN /\ removed' \in BOOLEAN
    BY <1>1 DEF StartAll, Start, ModelTypes
  <2>6. byHand' => state' \in {"Stopping", "Stopped"}
    BY <1>1 DEF StartAll, Start, ModelTypes, OneStart
  <2>7. QED
    BY <2>1, <2>2, <2>3, <2>4, <2>5, <2>6 DEF ModelTypes
<1>2. ASSUME NEW b \in BOOLEAN, Stop(b) PROVE ModelTypes'
  <2>1. last' \in 0..MaxLaunches
    BY <1>2 DEF Stop, BeginShutdown, ModelTypes
  <2>2. state' # "Stopped" => last' > 0
    BY <1>2 DEF Stop, BeginShutdown, ModelTypes, OneStart, Launches
  <2>3. start' \in [Launches -> {"none", "resolving", "initializing", "failed", "ended"}]
    BY <1>2 DEF Stop, BeginShutdown, ModelTypes, Launches
  <2>4. state' \in States
    BY <1>2 DEF Stop, BeginShutdown, ModelTypes, States
  <2>5. byHand' \in BOOLEAN /\ removed' \in BOOLEAN
    BY <1>2 DEF Stop, BeginShutdown, ModelTypes
  <2>6. byHand' => state' \in {"Stopping", "Stopped"}
    BY <1>2 DEF Stop, BeginShutdown, ModelTypes, OneStart
  <2>7. QED
    BY <2>1, <2>2, <2>3, <2>4, <2>5, <2>6 DEF ModelTypes
<1>3. CASE ManualStart
  <2>1. last' \in 0..MaxLaunches
    BY <1>3, StartCounts DEF ManualStart, ModelTypes
  <2>2. state' # "Stopped" => last' > 0
    BY <1>3, StartCounts DEF ManualStart, ModelTypes
  <2>3. start' \in [Launches -> {"none", "resolving", "initializing", "failed", "ended"}]
    BY <1>3 DEF ManualStart, Start, ModelTypes, Launches
  <2>4. state' \in States
    BY <1>3 DEF ManualStart, Start, ModelTypes, States
  <2>5. byHand' \in BOOLEAN /\ removed' \in BOOLEAN
    BY <1>3 DEF ManualStart, Start, ModelTypes
  <2>6. byHand' => state' \in {"Stopping", "Stopped"}
    BY <1>3 DEF ManualStart, Start, ModelTypes, OneStart
  <2>7. QED
    BY <2>1, <2>2, <2>3, <2>4, <2>5, <2>6 DEF ModelTypes
<1>4. CASE Restart
  <2>1. last' \in 0..MaxLaunches
    BY <1>4, LaunchBound DEF Restart, Start, BeginShutdown, ModelTypes
  <2>2. state' # "Stopped" => last' > 0
    BY <1>4, LaunchBound DEF Restart, Start, BeginShutdown, ModelTypes, OneStart, Launches
  <2>3. start' \in [Launches -> {"none", "resolving", "initializing", "failed", "ended"}]
    BY <1>4, LaunchBound DEF Restart, Start, BeginShutdown, ModelTypes, Launches
  <2>4. state' \in States
    BY <1>4, LaunchBound DEF Restart, Start, BeginShutdown, ModelTypes, States
  <2>5. byHand' \in BOOLEAN /\ removed' \in BOOLEAN
    BY <1>4, LaunchBound DEF Restart, Start, BeginShutdown, ModelTypes
  <2>6. byHand' => state' \in {"Stopping", "Stopped"}
    BY <1>4, LaunchBound DEF Restart, Start, BeginShutdown, ModelTypes, OneStart
  <2>7. QED
    BY <2>1, <2>2, <2>3, <2>4, <2>5, <2>6 DEF ModelTypes
<1>5. CASE Remove
  <2>1. last' \in 0..MaxLaunches
    BY <1>5 DEF Remove, BeginShutdown, ModelTypes
  <2>2. state' # "Stopped" => last' > 0
    BY <1>5 DEF Remove, BeginShutdown, ModelTypes, OneStart, Launches
  <2>3. start' \in [Launches -> {"none", "resolving", "initializing", "failed", "ended"}]
    BY <1>5 DEF Remove, BeginShutdown, ModelTypes, Launches
  <2>4. state' \in States
    BY <1>5 DEF Remove, BeginShutdown, ModelTypes, States
  <2>5. byHand' \in BOOLEAN /\ removed' \in BOOLEAN
    BY <1>5 DEF Remove, BeginShutdown, ModelTypes
  <2>6. byHand' => state' \in {"Stopping", "Stopped"}
    BY <1>5 DEF Remove, BeginShutdown, ModelTypes, OneStart
  <2>7. QED
    BY <2>1, <2>2, <2>3, <2>4, <2>5, <2>6 DEF ModelTypes
<1>6. ASSUME NEW g \in Launches, LaunchServer(g) PROVE ModelTypes'
  <2>1. last' \in 0..MaxLaunches
    BY <1>6 DEF LaunchServer, ModelTypes
  <2>2. state' # "Stopped" => last' > 0
    BY <1>6 DEF LaunchServer, ModelTypes, OneStart, Launches
  <2>3. start' \in [Launches -> {"none", "resolving", "initializing", "failed", "ended"}]
    BY <1>6 DEF LaunchServer, ModelTypes, Launches
  <2>4. state' \in States
    BY <1>6 DEF LaunchServer, ModelTypes, States
  <2>5. byHand' \in BOOLEAN /\ removed' \in BOOLEAN
    BY <1>6 DEF LaunchServer, ModelTypes
  <2>6. byHand' => state' \in {"Stopping", "Stopped"}
    BY <1>6 DEF LaunchServer, ModelTypes, OneStart
  <2>7. QED
    BY <2>1, <2>2, <2>3, <2>4, <2>5, <2>6 DEF ModelTypes
<1>7. ASSUME NEW g \in Launches, StartDone(g) PROVE ModelTypes'
  <2>1. last' \in 0..MaxLaunches
    BY <1>7 DEF StartDone, ModelTypes
  <2>2. state' # "Stopped" => last' > 0
    BY <1>7 DEF StartDone, ModelTypes, OneStart, Launches
  <2>3. start' \in [Launches -> {"none", "resolving", "initializing", "failed", "ended"}]
    BY <1>7 DEF StartDone, ModelTypes, Launches
  <2>4. state' \in States
    BY <1>7 DEF StartDone, ModelTypes, States
  <2>5. byHand' \in BOOLEAN /\ removed' \in BOOLEAN
    BY <1>7 DEF StartDone, ModelTypes
  <2>6. byHand' => state' \in {"Stopping", "Stopped"}
    BY <1>7 DEF StartDone, ModelTypes, OneStart
  <2>7. QED
    BY <2>1, <2>2, <2>3, <2>4, <2>5, <2>6 DEF ModelTypes
<1>8. ASSUME NEW g \in Launches, ShutdownDone(g) PROVE ModelTypes'
  <2>1. last' \in 0..MaxLaunches
    BY <1>8, LaunchBound DEF ShutdownDone, Start, ModelTypes
  <2>2. state' # "Stopped" => last' > 0
    BY <1>8, LaunchBound DEF ShutdownDone, Start, ModelTypes, OneStart, Launches
  <2>3. start' \in [Launches -> {"none", "resolving", "initializing", "failed", "ended"}]
    BY <1>8, LaunchBound DEF ShutdownDone, Start, ModelTypes, Launches
  <2>4. state' \in States
    BY <1>8, LaunchBound DEF ShutdownDone, Start, ModelTypes, States
  <2>5. byHand' \in BOOLEAN /\ removed' \in BOOLEAN
    BY <1>8, LaunchBound DEF ShutdownDone, Start, ModelTypes
  <2>6. byHand' => state' \in {"Stopping", "Stopped"}
    BY <1>8, LaunchBound DEF ShutdownDone, Start, ModelTypes, OneStart
  <2>7. QED
    BY <2>1, <2>2, <2>3, <2>4, <2>5, <2>6 DEF ModelTypes
<1>9. ASSUME UNCHANGED <<modelVars>> PROVE ModelTypes'
  BY <1>9 DEF ModelTypes
<1>10. ASSUME
    UNCHANGED vars
      \/ (\E c \in Calls : Call(c))
      \/ (\E g \in Launches, c \in Calls : Cancel(g, c))
      \/ Load
      \/ Edit
      \/ (\E g \in Launches : Die(g))
      \/ (\E g \in Launches : ChildEnds(g))
      \/ (\E g \in Launches, r \in Requests : Answer(g, r))
      \/ (\E g \in Launches : ShutdownWaits(g))
      \/ (\E g \in Launches : Kill(g))
      \/ (\E g \in Launches, r \in Requests : SendRequest(g, r))
      \/ (\E g \in Launches, r \in Requests : ReadReply(g, r))
      \/ (\E d \in docs : RunDoc(d))
      \/ (\E d \in docs : WriteDoc(d))
      PROVE UNCHANGED <<modelVars>>
  BY <1>10 DEF vars, Answer, Call, Cancel, ChildEnds, Die, Edit, Kill, Load,
    ReadReply, RunDoc, SendRequest, ShutdownWaits, WriteDoc, modelVars,
    shutdownVars, processVars, rpcVars, docVars
<1>11. QED
  BY <1>1, <1>2, <1>3, <1>4, <1>5, <1>6, <1>7, <1>8, <1>9, <1>10 DEF Next, Asks, Process, Tasks

LEMMA NextProcessTypes == ProcessTypes /\ [Next]_vars => ProcessTypes'
<1> SUFFICES ASSUME ProcessTypes, [Next]_vars PROVE ProcessTypes'
  OBVIOUS
<1> USE DEF ProcessTypes, shutdownVars, processVars
<1>1. ASSUME NEW b \in BOOLEAN, Stop(b) PROVE ProcessTypes'
  BY <1>1 DEF Stop, BeginShutdown
<1>2. CASE Restart
  BY <1>2 DEF Restart, Start, BeginShutdown
<1>3. CASE Remove
  BY <1>3 DEF Remove, BeginShutdown
<1>4. ASSUME NEW g \in Launches, LaunchServer(g) PROVE ProcessTypes'
  BY <1>4 DEF LaunchServer
<1>5. ASSUME NEW g \in Launches, Kill(g) PROVE ProcessTypes'
  BY <1>5 DEF Kill
<1>6. ASSUME NEW g \in Launches, ShutdownWaits(g) PROVE ProcessTypes'
  BY <1>6 DEF ShutdownWaits
<1>7. ASSUME NEW g \in Launches, ShutdownDone(g) PROVE ProcessTypes'
  BY <1>7 DEF ShutdownDone, Start
<1>8. ASSUME NEW g \in Launches, Die(g) PROVE ProcessTypes'
  BY <1>8 DEF Die
<1>9. ASSUME NEW g \in Launches, ChildEnds(g) PROVE ProcessTypes'
  BY <1>9 DEF ChildEnds
<1>10. ASSUME NEW g \in Launches, NEW r \in Requests, Answer(g, r) PROVE ProcessTypes'
  BY <1>10 DEF Answer
<1>11. ASSUME UNCHANGED <<shutdownVars, processVars>> PROVE ProcessTypes'
  BY <1>11 DEF ProcessTypes
<1>12. ASSUME
    UNCHANGED vars
      \/ StartAll
      \/ ManualStart
      \/ (\E c \in Calls : Call(c))
      \/ (\E g \in Launches, c \in Calls : Cancel(g, c))
      \/ Load
      \/ Edit
      \/ (\E g \in Launches : StartDone(g))
      \/ (\E g \in Launches, r \in Requests : SendRequest(g, r))
      \/ (\E g \in Launches, r \in Requests : ReadReply(g, r))
      \/ (\E d \in docs : RunDoc(d))
      \/ (\E d \in docs : WriteDoc(d))
      PROVE UNCHANGED <<shutdownVars, processVars>>
  BY <1>12 DEF vars, Call, Cancel, Edit, Load, ManualStart, ReadReply, RunDoc,
    SendRequest, StartAll, StartDone, WriteDoc, modelVars, shutdownVars,
    processVars, rpcVars, docVars
<1>13. QED
  BY <1>1, <1>2, <1>3, <1>4, <1>5, <1>6, <1>7, <1>8, <1>9, <1>10, <1>11, <1>12 DEF Next, Asks, Process, Tasks

LEMMA NextRpcTypes == RpcTypes /\ [Next]_vars => RpcTypes'
<1> SUFFICES ASSUME RpcTypes, [Next]_vars PROVE RpcTypes'
  OBVIOUS
<1> USE DEF rpcVars
<1>1. ASSUME NEW b \in BOOLEAN, Stop(b) PROVE RpcTypes'
  <2>1. request' \in [Launches -> [Requests -> RequestStates]]
    BY <1>1, RequestTyped DEF Stop, BeginShutdown, RpcTypes, Requests, RequestStates
  <2>2. pending' \in [Launches -> SUBSET Requests]
    BY <1>1, RequestTyped DEF Stop, BeginShutdown, RpcTypes
  <2>3. inbox' \in [Launches -> SUBSET Requests] /\ outbox' \in [Launches -> SUBSET Requests]
    BY <1>1, RequestTyped DEF Stop, BeginShutdown, RpcTypes
  <2>4. QED
    BY <2>1, <2>2, <2>3 DEF RpcTypes
<1>2. CASE Restart
  <2>1. request' \in [Launches -> [Requests -> RequestStates]]
    <3>1. \/ request' = request
          \/ request' = [request EXCEPT ![last]["shutdown"] = "spawned"]
      BY <1>2 DEF Restart, BeginShutdown
    <3>2. request \in [Launches -> [Requests -> RequestStates]]
      BY DEF RpcTypes
    <3>3. "spawned" \in RequestStates
      BY DEF RequestStates
    <3>4. [request EXCEPT ![last]["shutdown"] = "spawned"] \in [Launches -> [Requests -> RequestStates]]
      BY <3>2, <3>3, RequestTyped
    <3>5. QED
      BY <3>1, <3>2, <3>4
  <2>2. pending' \in [Launches -> SUBSET Requests]
    BY <1>2 DEF Restart, Start, BeginShutdown, RpcTypes
  <2>3. inbox' \in [Launches -> SUBSET Requests] /\ outbox' \in [Launches -> SUBSET Requests]
    BY <1>2 DEF Restart, Start, BeginShutdown, RpcTypes
  <2>4. QED
    BY <2>1, <2>2, <2>3 DEF RpcTypes
<1>3. CASE Remove
  <2>1. request' \in [Launches -> [Requests -> RequestStates]]
    <3>1. \/ request' = request
          \/ request' = [request EXCEPT ![last]["shutdown"] = "spawned"]
      BY <1>3 DEF Remove, BeginShutdown
    <3>2. request \in [Launches -> [Requests -> RequestStates]]
      BY DEF RpcTypes
    <3>3. "spawned" \in RequestStates
      BY DEF RequestStates
    <3>4. [request EXCEPT ![last]["shutdown"] = "spawned"] \in [Launches -> [Requests -> RequestStates]]
      BY <3>2, <3>3, RequestTyped
    <3>5. QED
      BY <3>1, <3>2, <3>4
  <2>2. pending' \in [Launches -> SUBSET Requests]
    BY <1>3 DEF Remove, BeginShutdown, RpcTypes
  <2>3. inbox' \in [Launches -> SUBSET Requests] /\ outbox' \in [Launches -> SUBSET Requests]
    BY <1>3 DEF Remove, BeginShutdown, RpcTypes
  <2>4. QED
    BY <2>1, <2>2, <2>3 DEF RpcTypes
<1>4. ASSUME NEW g \in Launches, LaunchServer(g) PROVE RpcTypes'
  <2>1. request' \in [Launches -> [Requests -> RequestStates]]
    <3>1. \/ request' = request
          \/ request' = [request EXCEPT ![g]["initialize"] = "spawned"]
      BY <1>4 DEF LaunchServer
    <3>2. request \in [Launches -> [Requests -> RequestStates]]
      BY DEF RpcTypes
    <3>3. "spawned" \in RequestStates
      BY DEF RequestStates
    <3>4. [request EXCEPT ![g]["initialize"] = "spawned"] \in [Launches -> [Requests -> RequestStates]]
      BY <3>2, <3>3, RequestTyped
    <3>5. QED
      BY <3>1, <3>2, <3>4
  <2>2. pending' \in [Launches -> SUBSET Requests]
    BY <1>4 DEF LaunchServer, RpcTypes
  <2>3. inbox' \in [Launches -> SUBSET Requests] /\ outbox' \in [Launches -> SUBSET Requests]
    BY <1>4 DEF LaunchServer, RpcTypes
  <2>4. QED
    BY <2>1, <2>2, <2>3 DEF RpcTypes
<1>5. ASSUME NEW c \in Calls, Call(c) PROVE RpcTypes'
  <2>1. request' \in [Launches -> [Requests -> RequestStates]]
    BY <1>5, RequestTyped DEF Call, Ready, RpcTypes, Requests, RequestStates
  <2>2. pending' \in [Launches -> SUBSET Requests]
    BY <1>5, RequestTyped DEF Call, Ready, RpcTypes
  <2>3. inbox' \in [Launches -> SUBSET Requests] /\ outbox' \in [Launches -> SUBSET Requests]
    BY <1>5, RequestTyped DEF Call, Ready, RpcTypes
  <2>4. QED
    BY <2>1, <2>2, <2>3 DEF RpcTypes
<1>6. ASSUME NEW g \in Launches, NEW c \in Calls, Cancel(g, c) PROVE RpcTypes'
  <2>1. request' \in [Launches -> [Requests -> RequestStates]]
    BY <1>6, RequestTyped DEF Cancel, RpcTypes, Requests, RequestStates
  <2>2. pending' \in [Launches -> SUBSET Requests]
    BY <1>6, RequestTyped DEF Cancel, RpcTypes
  <2>3. inbox' \in [Launches -> SUBSET Requests] /\ outbox' \in [Launches -> SUBSET Requests]
    BY <1>6, RequestTyped DEF Cancel, RpcTypes
  <2>4. QED
    BY <2>1, <2>2, <2>3 DEF RpcTypes
<1>7. ASSUME NEW g \in Launches, NEW r \in Requests, SendRequest(g, r) PROVE RpcTypes'
  <2>1. request' \in [Launches -> [Requests -> RequestStates]]
    <3>1. \/ request' = request
          \/ request' = [request EXCEPT ![g][r] = "sending"]
          \/ request' = [request EXCEPT ![g][r] = "waiting"]
          \/ request' = [request EXCEPT ![g][r] = "failed"]
      BY <1>7 DEF SendRequest
    <3>2. request \in [Launches -> [Requests -> RequestStates]]
      BY DEF RpcTypes
    <3>3. "sending" \in RequestStates /\ "waiting" \in RequestStates /\ "failed" \in RequestStates
      BY DEF RequestStates
    <3>4. /\ [request EXCEPT ![g][r] = "sending"]
               \in [Launches -> [Requests -> RequestStates]]
          /\ [request EXCEPT ![g][r] = "waiting"]
               \in [Launches -> [Requests -> RequestStates]]
          /\ [request EXCEPT ![g][r] = "failed"]
               \in [Launches -> [Requests -> RequestStates]]
      BY <3>2, <3>3, RequestTyped
    <3>5. QED
      BY <3>1, <3>2, <3>4
  <2>2. pending' \in [Launches -> SUBSET Requests]
    BY <1>7 DEF SendRequest, Insert, Write, RpcTypes
  <2>3. inbox' \in [Launches -> SUBSET Requests] /\ outbox' \in [Launches -> SUBSET Requests]
    BY <1>7 DEF SendRequest, Insert, Write, RpcTypes
  <2>4. QED
    BY <2>1, <2>2, <2>3 DEF RpcTypes
<1>8. ASSUME NEW g \in Launches, NEW r \in Requests, ReadReply(g, r) PROVE RpcTypes'
  <2>1. request' \in [Launches -> [Requests -> RequestStates]]
    BY <1>8, RequestTyped DEF ReadReply, RpcTypes, Requests, RequestStates
  <2>2. pending' \in [Launches -> SUBSET Requests]
    BY <1>8, RequestTyped DEF ReadReply, RpcTypes
  <2>3. inbox' \in [Launches -> SUBSET Requests] /\ outbox' \in [Launches -> SUBSET Requests]
    BY <1>8, RequestTyped DEF ReadReply, RpcTypes
  <2>4. QED
    BY <2>1, <2>2, <2>3 DEF RpcTypes
<1>9. ASSUME NEW g \in Launches, NEW r \in Requests, Answer(g, r) PROVE RpcTypes'
  <2>1. request' \in [Launches -> [Requests -> RequestStates]]
    BY <1>9 DEF Answer, RpcTypes, Requests, RequestStates
  <2>2. pending' \in [Launches -> SUBSET Requests]
    BY <1>9 DEF Answer, RpcTypes
  <2>3. inbox' \in [Launches -> SUBSET Requests] /\ outbox' \in [Launches -> SUBSET Requests]
    BY <1>9 DEF Answer, RpcTypes
  <2>4. QED
    BY <2>1, <2>2, <2>3 DEF RpcTypes
<1>10. ASSUME UNCHANGED <<rpcVars>> PROVE RpcTypes'
  BY <1>10 DEF RpcTypes
<1>11. ASSUME
    UNCHANGED vars
      \/ StartAll
      \/ ManualStart
      \/ Load
      \/ Edit
      \/ (\E g \in Launches : Die(g))
      \/ (\E g \in Launches : ChildEnds(g))
      \/ (\E g \in Launches : StartDone(g))
      \/ (\E g \in Launches : ShutdownWaits(g))
      \/ (\E g \in Launches : Kill(g))
      \/ (\E g \in Launches : ShutdownDone(g))
      \/ (\E d \in docs : RunDoc(d))
      \/ (\E d \in docs : WriteDoc(d))
      PROVE UNCHANGED <<rpcVars>>
  BY <1>11 DEF vars, ChildEnds, Die, Edit, Kill, Load, ManualStart, RunDoc,
    ShutdownDone, ShutdownWaits, StartAll, StartDone, WriteDoc, modelVars,
    shutdownVars, processVars, rpcVars, docVars
<1>12. QED
  BY <1>1, <1>2, <1>3, <1>4, <1>5, <1>6, <1>7, <1>8, <1>9, <1>10, <1>11 DEF Next, Asks, Process, Tasks

LEMMA NextDocTypes == DocTypes /\ ModelTypes /\ OneStart /\ [Next]_vars => DocTypes'
<1> SUFFICES ASSUME DocTypes /\ ModelTypes /\ OneStart, [Next]_vars PROVE DocTypes'
  OBVIOUS
<1> USE DEF docVars
<1>1. CASE Load
  <2>1. loaded' \in BOOLEAN
    BY <1>1 DEF Load, DocTasks, Ready, DocTypes
  <2>2. version' \in Nat /\ latest' \in Nat
    BY <1>1 DEF Load, DocTasks, Ready, DocTypes
  <2>3. opened' \in [Launches -> Nat]
    BY <1>1 DEF Load, DocTasks, Ready, DocTypes, DocTask
  <2>4. told' \in [Launches -> Nat \cup {Garbled}]
    BY <1>1 DEF Load, DocTasks, Ready, DocTypes, DocTask
  <2>5. docs' \in SUBSET DocTask
    BY <1>1 DEF Load, DocTasks, Ready, DocTypes, DocTask, ModelTypes, Launches, None
  <2>6. blank' \in [Launches -> BOOLEAN] /\ reordered' \in [Launches -> BOOLEAN]
    BY <1>1 DEF Load, DocTasks, Ready, DocTypes
  <2>7. QED
    BY <2>1, <2>2, <2>3, <2>4, <2>5, <2>6 DEF DocTypes
<1>2. CASE Edit
  <2>1. loaded' \in BOOLEAN
    BY <1>2 DEF Edit, DocTasks, Ready, DocTypes
  <2>2. version' \in Nat /\ latest' \in Nat
    BY <1>2 DEF Edit, DocTasks, Ready, DocTypes
  <2>3. opened' \in [Launches -> Nat]
    BY <1>2 DEF Edit, DocTasks, Ready, DocTypes, DocTask
  <2>4. told' \in [Launches -> Nat \cup {Garbled}]
    BY <1>2 DEF Edit, DocTasks, Ready, DocTypes, DocTask
  <2>5. docs' \in SUBSET DocTask
    BY <1>2 DEF Edit, DocTasks, Ready, DocTypes, DocTask, ModelTypes, Launches, None
  <2>6. blank' \in [Launches -> BOOLEAN] /\ reordered' \in [Launches -> BOOLEAN]
    BY <1>2 DEF Edit, DocTasks, Ready, DocTypes
  <2>7. QED
    BY <2>1, <2>2, <2>3, <2>4, <2>5, <2>6 DEF DocTypes
<1>3. ASSUME NEW g \in Launches, StartDone(g) PROVE DocTypes'
  <2>1. loaded' \in BOOLEAN
    BY <1>3 DEF StartDone, OpenAll, DocTasks, DocTypes
  <2>2. version' \in Nat /\ latest' \in Nat
    BY <1>3 DEF StartDone, OpenAll, DocTasks, DocTypes
  <2>3. opened' \in [Launches -> Nat]
    BY <1>3 DEF StartDone, OpenAll, DocTasks, DocTypes, DocTask
  <2>4. told' \in [Launches -> Nat \cup {Garbled}]
    BY <1>3 DEF StartDone, OpenAll, DocTasks, DocTypes, DocTask
  <2>5. docs' \in SUBSET DocTask
    <3>1. last \in Launches
      BY <1>3 DEF StartDone, ModelTypes, OneStart, Launches
    <3>2. DocTasks("open", None, version) \subseteq DocTask
      BY <3>1 DEF DocTasks, DocTask, DocTypes, None
    <3>3. docs' = docs \/ docs' = docs \cup DocTasks("open", None, version)
      BY <1>3 DEF StartDone, OpenAll
    <3>4. QED
      BY <3>2, <3>3 DEF DocTypes
  <2>6. blank' \in [Launches -> BOOLEAN] /\ reordered' \in [Launches -> BOOLEAN]
    BY <1>3 DEF StartDone, OpenAll, DocTasks, DocTypes
  <2>7. QED
    BY <2>1, <2>2, <2>3, <2>4, <2>5, <2>6 DEF DocTypes
<1>4. ASSUME NEW d \in docs, RunDoc(d) PROVE DocTypes'
  <2>1. loaded' \in BOOLEAN
    BY <1>4 DEF RunDoc, Overtakes, DocTypes
  <2>2. version' \in Nat /\ latest' \in Nat
    BY <1>4 DEF RunDoc, Overtakes, DocTypes
  <2>3. opened' \in [Launches -> Nat]
    BY <1>4 DEF RunDoc, Overtakes, DocTypes, DocTask
  <2>4. told' \in [Launches -> Nat \cup {Garbled}]
    BY <1>4 DEF RunDoc, Overtakes, DocTypes, DocTask
  <2>5. docs' \in SUBSET DocTask
    BY <1>4 DEF RunDoc, Overtakes, DocTypes, DocTask, ModelTypes, Launches, None
  <2>6. blank' \in [Launches -> BOOLEAN] /\ reordered' \in [Launches -> BOOLEAN]
    BY <1>4 DEF RunDoc, Overtakes, DocTypes
  <2>7. QED
    BY <2>1, <2>2, <2>3, <2>4, <2>5, <2>6 DEF DocTypes
<1>5. ASSUME NEW d \in docs, WriteDoc(d) PROVE DocTypes'
  <2>1. loaded' \in BOOLEAN
    BY <1>5 DEF WriteDoc, Overtakes, DocTypes
  <2>2. version' \in Nat /\ latest' \in Nat
    BY <1>5 DEF WriteDoc, Overtakes, DocTypes
  <2>3. opened' \in [Launches -> Nat]
    BY <1>5 DEF WriteDoc, Overtakes, DocTypes, DocTask
  <2>4. told' \in [Launches -> Nat \cup {Garbled}]
    BY <1>5 DEF WriteDoc, Overtakes, DocTypes, DocTask
  <2>5. docs' \in SUBSET DocTask
    BY <1>5 DEF WriteDoc, Overtakes, DocTypes, DocTask, ModelTypes, Launches, None
  <2>6. blank' \in [Launches -> BOOLEAN] /\ reordered' \in [Launches -> BOOLEAN]
    BY <1>5 DEF WriteDoc, Overtakes, DocTypes
  <2>7. QED
    BY <2>1, <2>2, <2>3, <2>4, <2>5, <2>6 DEF DocTypes
<1>6. ASSUME UNCHANGED <<docVars>> PROVE DocTypes'
  BY <1>6 DEF DocTypes
<1>7. ASSUME
    UNCHANGED vars
      \/ StartAll
      \/ (\E b \in BOOLEAN : Stop(b))
      \/ ManualStart
      \/ Restart
      \/ Remove
      \/ (\E c \in Calls : Call(c))
      \/ (\E g \in Launches, c \in Calls : Cancel(g, c))
      \/ (\E g \in Launches : Die(g))
      \/ (\E g \in Launches : ChildEnds(g))
      \/ (\E g \in Launches, r \in Requests : Answer(g, r))
      \/ (\E g \in Launches : LaunchServer(g))
      \/ (\E g \in Launches : ShutdownWaits(g))
      \/ (\E g \in Launches : Kill(g))
      \/ (\E g \in Launches : ShutdownDone(g))
      \/ (\E g \in Launches, r \in Requests : SendRequest(g, r))
      \/ (\E g \in Launches, r \in Requests : ReadReply(g, r))
      PROVE UNCHANGED <<docVars>>
  BY <1>7 DEF vars, Answer, BeginShutdown, Call, Cancel, ChildEnds, Die, Kill,
    LaunchServer, ManualStart, ReadReply, Remove, Restart, SendRequest,
    ShutdownDone, ShutdownWaits, StartAll, Stop, modelVars, shutdownVars,
    processVars, rpcVars, docVars
<1>8. QED
  BY <1>1, <1>2, <1>3, <1>4, <1>5, <1>6, <1>7 DEF Next, Asks, Process, Tasks

LEMMA SpendTypes ==
  ASSUME left \in [Deeds -> Nat], deeds \in Nat, NEW d \in Deeds, Spend(d)
  PROVE  left' \in [Deeds -> Nat] /\ deeds' \in Nat
<1>1. left[d] - 1 \in Nat
  BY DEF Spend
<1>2. QED
  BY <1>1 DEF Spend

LEMMA NextCounterTypes == CounterTypes /\ [Next]_vars => CounterTypes'
<1> SUFFICES ASSUME CounterTypes, [Next]_vars PROVE CounterTypes'
  OBVIOUS
<1>1. CASE StartAll
  <2>1. Spend("start all") /\ "start all" \in Deeds
    BY <1>1 DEF StartAll, Deeds
  <2>2. left \in [Deeds -> Nat] /\ deeds \in Nat
    BY DEF CounterTypes
  <2>3. left' \in [Deeds -> Nat] /\ deeds' \in Nat
    BY <2>1, <2>2, SpendTypes
  <2>4. halted' \in BOOLEAN
    BY <1>1 DEF StartAll, CounterTypes
  <2>5. QED
    BY <2>3, <2>4 DEF CounterTypes
<1>2. CASE ManualStart
  <2>1. Spend("manual start") /\ "manual start" \in Deeds
    BY <1>2 DEF ManualStart, Deeds
  <2>2. left \in [Deeds -> Nat] /\ deeds \in Nat
    BY DEF CounterTypes
  <2>3. left' \in [Deeds -> Nat] /\ deeds' \in Nat
    BY <2>1, <2>2, SpendTypes
  <2>4. halted' \in BOOLEAN
    BY <1>2 DEF ManualStart, CounterTypes
  <2>5. QED
    BY <2>3, <2>4 DEF CounterTypes
<1>3. CASE Restart
  <2>1. Spend("restart") /\ "restart" \in Deeds
    BY <1>3 DEF Restart, Deeds
  <2>2. left \in [Deeds -> Nat] /\ deeds \in Nat
    BY DEF CounterTypes
  <2>3. left' \in [Deeds -> Nat] /\ deeds' \in Nat
    BY <2>1, <2>2, SpendTypes
  <2>4. halted' \in BOOLEAN
    BY <1>3 DEF Restart, CounterTypes
  <2>5. QED
    BY <2>3, <2>4 DEF CounterTypes
<1>4. CASE Remove
  <2>1. Spend("remove") /\ "remove" \in Deeds
    BY <1>4 DEF Remove, Deeds
  <2>2. left \in [Deeds -> Nat] /\ deeds \in Nat
    BY DEF CounterTypes
  <2>3. left' \in [Deeds -> Nat] /\ deeds' \in Nat
    BY <2>1, <2>2, SpendTypes
  <2>4. halted' \in BOOLEAN
    BY <1>4 DEF Remove, CounterTypes
  <2>5. QED
    BY <2>3, <2>4 DEF CounterTypes
<1>5. ASSUME NEW c \in Calls, Call(c) PROVE CounterTypes'
  <2>1. Spend("call") /\ "call" \in Deeds
    BY <1>5 DEF Call, Deeds
  <2>2. left \in [Deeds -> Nat] /\ deeds \in Nat
    BY DEF CounterTypes
  <2>3. left' \in [Deeds -> Nat] /\ deeds' \in Nat
    BY <2>1, <2>2, SpendTypes
  <2>4. halted' \in BOOLEAN
    BY <1>5 DEF Call, CounterTypes
  <2>5. QED
    BY <2>3, <2>4 DEF CounterTypes
<1>6. ASSUME NEW g \in Launches, NEW c \in Calls, Cancel(g, c) PROVE CounterTypes'
  <2>1. Spend("cancel") /\ "cancel" \in Deeds
    BY <1>6 DEF Cancel, Deeds
  <2>2. left \in [Deeds -> Nat] /\ deeds \in Nat
    BY DEF CounterTypes
  <2>3. left' \in [Deeds -> Nat] /\ deeds' \in Nat
    BY <2>1, <2>2, SpendTypes
  <2>4. halted' \in BOOLEAN
    BY <1>6 DEF Cancel, CounterTypes
  <2>5. QED
    BY <2>3, <2>4 DEF CounterTypes
<1>7. CASE Load
  <2>1. Spend("load") /\ "load" \in Deeds
    BY <1>7 DEF Load, Deeds
  <2>2. left \in [Deeds -> Nat] /\ deeds \in Nat
    BY DEF CounterTypes
  <2>3. left' \in [Deeds -> Nat] /\ deeds' \in Nat
    BY <2>1, <2>2, SpendTypes
  <2>4. halted' \in BOOLEAN
    BY <1>7 DEF Load, CounterTypes
  <2>5. QED
    BY <2>3, <2>4 DEF CounterTypes
<1>8. CASE Edit
  <2>1. Spend("edit") /\ "edit" \in Deeds
    BY <1>8 DEF Edit, Deeds
  <2>2. left \in [Deeds -> Nat] /\ deeds \in Nat
    BY DEF CounterTypes
  <2>3. left' \in [Deeds -> Nat] /\ deeds' \in Nat
    BY <2>1, <2>2, SpendTypes
  <2>4. halted' \in BOOLEAN
    BY <1>8 DEF Edit, CounterTypes
  <2>5. QED
    BY <2>3, <2>4 DEF CounterTypes
<1>9. ASSUME NEW b \in BOOLEAN, Stop(b) PROVE CounterTypes'
  <2>1. Spend(IF b THEN "stop" ELSE "stop unused") /\ (IF b THEN "stop" ELSE "stop unused") \in Deeds
    BY <1>9 DEF Stop, Deeds
  <2>2. left \in [Deeds -> Nat] /\ deeds \in Nat
    BY DEF CounterTypes
  <2>3. left' \in [Deeds -> Nat] /\ deeds' \in Nat
    BY <2>1, <2>2, SpendTypes
  <2>4. halted' \in BOOLEAN
    BY <1>9 DEF Stop, CounterTypes
  <2>5. QED
    BY <2>3, <2>4 DEF CounterTypes
<1>10. ASSUME UNCHANGED <<halted, boundVars>> PROVE CounterTypes'
  BY <1>10 DEF CounterTypes, boundVars
<1>11. ASSUME
    UNCHANGED vars
      \/ (\E g \in Launches : Die(g))
      \/ (\E g \in Launches : ChildEnds(g))
      \/ (\E g \in Launches, r \in Requests : Answer(g, r))
      \/ (\E g \in Launches : LaunchServer(g))
      \/ (\E g \in Launches : StartDone(g))
      \/ (\E g \in Launches : ShutdownWaits(g))
      \/ (\E g \in Launches : Kill(g))
      \/ (\E g \in Launches : ShutdownDone(g))
      \/ (\E g \in Launches, r \in Requests : SendRequest(g, r))
      \/ (\E g \in Launches, r \in Requests : ReadReply(g, r))
      \/ (\E d \in docs : RunDoc(d))
      \/ (\E d \in docs : WriteDoc(d))
      PROVE UNCHANGED <<halted, boundVars>>
  BY <1>11 DEF vars, Answer, ChildEnds, Die, Kill, LaunchServer, ReadReply, RunDoc,
    SendRequest, ShutdownDone, ShutdownWaits, StartDone, WriteDoc, modelVars,
    shutdownVars, processVars, rpcVars, docVars
<1>12. QED
  BY <1>1, <1>2, <1>3, <1>4, <1>5, <1>6, <1>7, <1>8, <1>9, <1>10, <1>11 DEF Next, Asks, Process, Tasks

LEMMA NextTypes == TypeOK /\ OneStart /\ [Next]_vars => TypeOK'
  BY NextModelTypes, NextProcessTypes, NextRpcTypes, NextDocTypes, NextCounterTypes DEF TypeOK

-----------------------------------------------------------------------------
\* The invariant.

LEMMA NextOneStart == OneStart /\ ModelTypes /\ NoProcessBefore /\ [Next]_vars => OneStart'
<1> SUFFICES ASSUME OneStart /\ ModelTypes /\ NoProcessBefore, [Next]_vars PROVE OneStart'
  OBVIOUS
<1> USE DEF OneStart, ModelTypes, NoProcessBefore, Launches, modelVars
<1>1. CASE StartAll
  BY <1>1 DEF StartAll, Start
<1>2. ASSUME NEW b \in BOOLEAN, Stop(b) PROVE OneStart'
  BY <1>2 DEF Stop, BeginShutdown
<1>3. CASE ManualStart
  BY <1>3 DEF ManualStart, Start
<1>4. CASE Restart
  BY <1>4 DEF Restart, Start, BeginShutdown
<1>5. CASE Remove
  BY <1>5 DEF Remove, BeginShutdown
<1>6. ASSUME NEW g \in Launches, LaunchServer(g) PROVE OneStart'
  BY <1>6 DEF LaunchServer
<1>7. ASSUME NEW g \in Launches, StartDone(g) PROVE OneStart'
  BY <1>7 DEF StartDone
<1>8. ASSUME NEW g \in Launches, ShutdownDone(g) PROVE OneStart'
  BY <1>8 DEF ShutdownDone, Start
<1>9. ASSUME UNCHANGED <<modelVars>> PROVE OneStart'
  BY <1>9 DEF OneStart
<1>10. ASSUME
    UNCHANGED vars
      \/ (\E c \in Calls : Call(c))
      \/ (\E g \in Launches, c \in Calls : Cancel(g, c))
      \/ Load
      \/ Edit
      \/ (\E g \in Launches : Die(g))
      \/ (\E g \in Launches : ChildEnds(g))
      \/ (\E g \in Launches, r \in Requests : Answer(g, r))
      \/ (\E g \in Launches : ShutdownWaits(g))
      \/ (\E g \in Launches : Kill(g))
      \/ (\E g \in Launches, r \in Requests : SendRequest(g, r))
      \/ (\E g \in Launches, r \in Requests : ReadReply(g, r))
      \/ (\E d \in docs : RunDoc(d))
      \/ (\E d \in docs : WriteDoc(d))
      PROVE UNCHANGED <<modelVars>>
  BY <1>10 DEF vars, Answer, Call, Cancel, ChildEnds, Die, Edit, Kill, Load,
    ReadReply, RunDoc, SendRequest, ShutdownWaits, WriteDoc, modelVars,
    shutdownVars, processVars, rpcVars, docVars
<1>11. QED
  BY <1>1, <1>2, <1>3, <1>4, <1>5, <1>6, <1>7, <1>8, <1>9, <1>10 DEF Next, Asks, Process, Tasks

LEMMA NextOneShutdown == OneShutdown /\ ModelTypes /\ ProcessTypes /\ OneStart /\ [Next]_vars => OneShutdown'
<1> SUFFICES ASSUME OneShutdown /\ ModelTypes /\ ProcessTypes /\ OneStart, [Next]_vars PROVE OneShutdown'
  OBVIOUS
<1> USE DEF OneShutdown, OneStart, ModelTypes, ProcessTypes, Launches, modelVars, shutdownVars
<1>1. CASE StartAll
  BY <1>1 DEF StartAll, Start
<1>2. ASSUME NEW b \in BOOLEAN, Stop(b) PROVE OneShutdown'
  BY <1>2 DEF Stop, BeginShutdown
<1>3. CASE ManualStart
  BY <1>3 DEF ManualStart, Start
<1>4. CASE Restart
  BY <1>4 DEF Restart, Start, BeginShutdown
<1>5. CASE Remove
  BY <1>5 DEF Remove, BeginShutdown
<1>6. ASSUME NEW g \in Launches, LaunchServer(g) PROVE OneShutdown'
  BY <1>6 DEF LaunchServer
<1>7. ASSUME NEW g \in Launches, StartDone(g) PROVE OneShutdown'
  BY <1>7 DEF StartDone
<1>8. ASSUME NEW g \in Launches, ShutdownWaits(g) PROVE OneShutdown'
  BY <1>8 DEF ShutdownWaits
<1>9. ASSUME NEW g \in Launches, ShutdownDone(g) PROVE OneShutdown'
  BY <1>9 DEF ShutdownDone, Start
<1>10. ASSUME UNCHANGED <<modelVars, shutdownVars>> PROVE OneShutdown'
  BY <1>10 DEF OneShutdown
<1>11. ASSUME
    UNCHANGED vars
      \/ (\E c \in Calls : Call(c))
      \/ (\E g \in Launches, c \in Calls : Cancel(g, c))
      \/ Load
      \/ Edit
      \/ (\E g \in Launches : Die(g))
      \/ (\E g \in Launches : ChildEnds(g))
      \/ (\E g \in Launches, r \in Requests : Answer(g, r))
      \/ (\E g \in Launches : Kill(g))
      \/ (\E g \in Launches, r \in Requests : SendRequest(g, r))
      \/ (\E g \in Launches, r \in Requests : ReadReply(g, r))
      \/ (\E d \in docs : RunDoc(d))
      \/ (\E d \in docs : WriteDoc(d))
      PROVE UNCHANGED <<modelVars, shutdownVars>>
  BY <1>11 DEF vars, Answer, Call, Cancel, ChildEnds, Die, Edit, Kill, Load,
    ReadReply, RunDoc, SendRequest, WriteDoc, modelVars, shutdownVars, processVars,
    rpcVars, docVars
<1>12. QED
  BY <1>1, <1>2, <1>3, <1>4, <1>5, <1>6, <1>7, <1>8, <1>9, <1>10, <1>11 DEF Next, Asks, Process, Tasks

\* start() gives the next launch a task; every other launch keeps its own.
LEMMA StartStep ==
  ASSUME ModelTypes, NoProcessBefore, Start
  PROVE  /\ state' = "Starting" /\ last' = last + 1 /\ last' \in Launches
         /\ start[last'] = "none" /\ start'[last'] = "resolving"
         /\ \A h \in Launches : h # last' => start'[h] = start[h]
<1>1. state' = "Starting" /\ last' = last + 1 /\ last' \in Launches
  BY LaunchBound DEF ModelTypes, Start, Launches
<1>2. last' > last
  BY <1>1 DEF ModelTypes
<1>3. start[last'] = "none"
  BY <1>1, <1>2 DEF NoProcessBefore
<1>4. start' = [start EXCEPT ![last'] = "resolving"]
  BY <1>1 DEF Start
<1>5. start'[last'] = "resolving" /\ \A h \in Launches : h # last' => start'[h] = start[h]
  BY <1>1, <1>4 DEF ModelTypes
<1>6. QED
  BY <1>1, <1>3, <1>5

\* The task of one request changes no other.
LEMMA RequestAt ==
  ASSUME RpcTypes, NEW g \in Launches, NEW r \in Requests, NEW s,
         NEW h \in Launches, NEW q \in Requests
  PROVE  [request EXCEPT ![g][r] = s][h][q] = IF h = g /\ q = r THEN s ELSE request[h][q]
<1>1. CASE h = g
  <2>1. request[h] \in [Requests -> RequestStates]
    BY DEF RpcTypes
  <2>2. [request EXCEPT ![g][r] = s][h] = [request[h] EXCEPT ![r] = s]
    BY <1>1 DEF RpcTypes
  <2>3. QED
    BY <1>1, <2>1, <2>2
<1>2. CASE h # g
  BY <1>2 DEF RpcTypes
<1>3. QED
  BY <1>1, <1>2

LEMMA NextNoProcessBefore == NoProcessBefore /\ ModelTypes /\ ProcessTypes /\ OneStart /\ [Next]_vars => NoProcessBefore'
<1> SUFFICES ASSUME NoProcessBefore /\ ModelTypes /\ ProcessTypes /\ OneStart, [Next]_vars PROVE NoProcessBefore'
  OBVIOUS
<1>1. CASE StartAll
  <2>1. Start \/ UNCHANGED <<last, start>>
    BY <1>1 DEF StartAll
  <2>2. UNCHANGED alive
    BY <1>1 DEF StartAll, processVars
  <2>3. CASE Start
    BY <2>2, <2>3, StartStep DEF NoProcessBefore, ModelTypes, Launches
  <2>4. CASE UNCHANGED <<last, start>>
    BY <2>2, <2>4 DEF NoProcessBefore
  <2>5. QED
    BY <2>1, <2>3, <2>4
<1>2. CASE ManualStart
  <2>1. Start \/ UNCHANGED <<last, start>>
    BY <1>2 DEF ManualStart
  <2>2. UNCHANGED alive
    BY <1>2 DEF ManualStart, processVars
  <2>3. CASE Start
    BY <2>2, <2>3, StartStep DEF NoProcessBefore, ModelTypes, Launches
  <2>4. CASE UNCHANGED <<last, start>>
    BY <2>2, <2>4 DEF NoProcessBefore
  <2>5. QED
    BY <2>1, <2>3, <2>4
<1>3. CASE Restart
  <2>1. Start \/ UNCHANGED <<last, start>>
    BY <1>3 DEF Restart, BeginShutdown
  <2>2. UNCHANGED alive
    BY <1>3 DEF Restart, processVars
  <2>3. CASE Start
    BY <2>2, <2>3, StartStep DEF NoProcessBefore, ModelTypes, Launches
  <2>4. CASE UNCHANGED <<last, start>>
    BY <2>2, <2>4 DEF NoProcessBefore
  <2>5. QED
    BY <2>1, <2>3, <2>4
<1>4. ASSUME NEW g \in Launches, LaunchServer(g) PROVE NoProcessBefore'
  BY <1>4 DEF LaunchServer, NoProcessBefore, OneStart, ModelTypes, ProcessTypes, Launches, modelVars
<1>5. ASSUME NEW g \in Launches, StartDone(g) PROVE NoProcessBefore'
  <2>1. UNCHANGED <<last, alive>> /\ start[g] # "none" /\ start'[g] = "ended"
    BY <1>5 DEF StartDone, processVars, ModelTypes
  <2>2. \A h \in Launches : h # g => start'[h] = start[h]
    BY <1>5 DEF StartDone, ModelTypes
  <2>3. QED
    BY <2>1, <2>2 DEF NoProcessBefore
<1>6. ASSUME NEW g \in Launches, Kill(g) PROVE NoProcessBefore'
  BY <1>6 DEF Kill, NoProcessBefore, OneStart, ModelTypes, ProcessTypes, Launches, modelVars
<1>7. ASSUME NEW g \in Launches, ShutdownDone(g) PROVE NoProcessBefore'
  <2>1. Start \/ UNCHANGED <<last, start>>
    BY <1>7 DEF ShutdownDone
  <2>2. UNCHANGED alive
    BY <1>7 DEF ShutdownDone, processVars
  <2>3. CASE Start
    BY <2>2, <2>3, StartStep DEF NoProcessBefore, ModelTypes, Launches
  <2>4. CASE UNCHANGED <<last, start>>
    BY <2>2, <2>4 DEF NoProcessBefore
  <2>5. QED
    BY <2>1, <2>3, <2>4
<1>8. ASSUME NEW g \in Launches, Die(g) PROVE NoProcessBefore'
  BY <1>8 DEF Die, NoProcessBefore, OneStart, ModelTypes, ProcessTypes, Launches, modelVars
<1>9. ASSUME UNCHANGED <<last, start, alive>> PROVE NoProcessBefore'
  BY <1>9 DEF NoProcessBefore
<1>10. ASSUME
    UNCHANGED vars
      \/ (\E b \in BOOLEAN : Stop(b))
      \/ Remove
      \/ (\E c \in Calls : Call(c))
      \/ (\E g \in Launches, c \in Calls : Cancel(g, c))
      \/ Load
      \/ Edit
      \/ (\E g \in Launches : ChildEnds(g))
      \/ (\E g \in Launches, r \in Requests : Answer(g, r))
      \/ (\E g \in Launches : ShutdownWaits(g))
      \/ (\E g \in Launches, r \in Requests : SendRequest(g, r))
      \/ (\E g \in Launches, r \in Requests : ReadReply(g, r))
      \/ (\E d \in docs : RunDoc(d))
      \/ (\E d \in docs : WriteDoc(d))
      PROVE UNCHANGED <<last, start, alive>>
  BY <1>10 DEF vars, Answer, BeginShutdown, Call, Cancel, ChildEnds, Edit, Load,
    ReadReply, Remove, RunDoc, SendRequest, ShutdownWaits, Stop, WriteDoc,
    modelVars, shutdownVars, processVars, rpcVars, docVars
<1>11. QED
  BY <1>1, <1>2, <1>3, <1>4, <1>5, <1>6, <1>7, <1>8, <1>9, <1>10 DEF Next, Asks, Process, Tasks

LEMMA NextAnswersOnce == AnswersOnce /\ ModelTypes /\ ProcessTypes /\ RpcTypes /\ OneStart /\ NoProcessBefore /\ [Next]_vars => AnswersOnce'
<1> SUFFICES ASSUME AnswersOnce /\ ModelTypes /\ ProcessTypes /\ RpcTypes /\ OneStart /\ NoProcessBefore, [Next]_vars PROVE AnswersOnce'
  OBVIOUS
<1>1. CASE StartAll
  <2>1. UNCHANGED <<alive, answer, inbox>>
    BY <1>1 DEF StartAll, processVars, rpcVars
  <2>2. \A h \in Launches : request'[h]["initialize"] = request[h]["initialize"]
    BY <1>1 DEF StartAll, rpcVars
  <2>3. \A h \in Launches : start'[h] = start[h] \/ (start[h] = "none" /\ start'[h] = "resolving")
    <3>1. Start \/ UNCHANGED start
      BY <1>1 DEF StartAll
    <3>2. QED
      BY <3>1, StartStep
  <2>4. QED
    BY <2>1, <2>2, <2>3 DEF AnswersOnce
<1>2. ASSUME NEW b \in BOOLEAN, Stop(b) PROVE AnswersOnce'
  <2>1. UNCHANGED <<alive, answer, inbox>>
    BY <1>2 DEF Stop, processVars, rpcVars
  <2>2. \A h \in Launches : request'[h]["initialize"] = request[h]["initialize"]
    <3>1. request' = request \/ (state = "Available" /\ request' = [request EXCEPT ![last]["shutdown"] = "spawned"])
      BY <1>2 DEF Stop, BeginShutdown, rpcVars
    <3>2. CASE request' = request
      BY <3>2
    <3>3. CASE state = "Available" /\ request' = [request EXCEPT ![last]["shutdown"] = "spawned"]
      <4>1. last \in Launches
        BY <3>3 DEF ModelTypes, Launches
      <4>2. QED
        BY <3>3, <4>1, RequestAt DEF Requests
    <3>4. QED
      BY <3>1, <3>2, <3>3
  <2>3. UNCHANGED start
    BY <1>2 DEF Stop, BeginShutdown, modelVars
  <2>4. QED
    BY <2>1, <2>2, <2>3 DEF AnswersOnce
<1>3. CASE ManualStart
  <2>1. UNCHANGED <<alive, answer, inbox>>
    BY <1>3 DEF ManualStart, processVars, rpcVars
  <2>2. \A h \in Launches : request'[h]["initialize"] = request[h]["initialize"]
    BY <1>3 DEF ManualStart, rpcVars
  <2>3. \A h \in Launches : start'[h] = start[h] \/ (start[h] = "none" /\ start'[h] = "resolving")
    <3>1. Start \/ UNCHANGED start
      BY <1>3 DEF ManualStart
    <3>2. QED
      BY <3>1, StartStep
  <2>4. QED
    BY <2>1, <2>2, <2>3 DEF AnswersOnce
<1>4. CASE Restart
  <2>1. UNCHANGED <<alive, answer, inbox>>
    BY <1>4 DEF Restart, processVars, rpcVars
  <2>2. \A h \in Launches : request'[h]["initialize"] = request[h]["initialize"]
    <3>1. request' = request \/ (state = "Available" /\ request' = [request EXCEPT ![last]["shutdown"] = "spawned"])
      BY <1>4 DEF Restart, BeginShutdown, rpcVars
    <3>2. CASE request' = request
      BY <3>2
    <3>3. CASE state = "Available" /\ request' = [request EXCEPT ![last]["shutdown"] = "spawned"]
      <4>1. last \in Launches
        BY <3>3 DEF ModelTypes, Launches
      <4>2. QED
        BY <3>3, <4>1, RequestAt DEF Requests
    <3>4. QED
      BY <3>1, <3>2, <3>3
  <2>3. \A h \in Launches : start'[h] = start[h] \/ (start[h] = "none" /\ start'[h] = "resolving")
    <3>1. Start \/ UNCHANGED start
      BY <1>4 DEF Restart, BeginShutdown
    <3>2. QED
      BY <3>1, StartStep
  <2>4. QED
    BY <2>1, <2>2, <2>3 DEF AnswersOnce
<1>5. CASE Remove
  <2>1. UNCHANGED <<alive, answer, inbox>>
    BY <1>5 DEF Remove, processVars, rpcVars
  <2>2. \A h \in Launches : request'[h]["initialize"] = request[h]["initialize"]
    <3>1. request' = request \/ (state = "Available" /\ request' = [request EXCEPT ![last]["shutdown"] = "spawned"])
      BY <1>5 DEF Remove, BeginShutdown, rpcVars
    <3>2. CASE request' = request
      BY <3>2
    <3>3. CASE state = "Available" /\ request' = [request EXCEPT ![last]["shutdown"] = "spawned"]
      <4>1. last \in Launches
        BY <3>3 DEF ModelTypes, Launches
      <4>2. QED
        BY <3>3, <4>1, RequestAt DEF Requests
    <3>4. QED
      BY <3>1, <3>2, <3>3
  <2>3. UNCHANGED start
    BY <1>5 DEF Remove, BeginShutdown, modelVars
  <2>4. QED
    BY <2>1, <2>2, <2>3 DEF AnswersOnce
<1>6. ASSUME NEW c \in Calls, Call(c) PROVE AnswersOnce'
  <2>1. UNCHANGED <<alive, answer, inbox>>
    BY <1>6 DEF Call, processVars, rpcVars
  <2>2. \A h \in Launches : request'[h]["initialize"] = request[h]["initialize"]
    <3>1. last \in Launches /\ c # "initialize" /\ c \in Requests
      BY <1>6, LanguageServerAssumption DEF Call, Ready, ModelTypes, Launches, Requests
    <3>2. request' = [request EXCEPT ![last][c] = "spawned"]
      BY <1>6 DEF Call
    <3>3. QED
      BY <3>1, <3>2, RequestAt DEF Requests
  <2>3. UNCHANGED start
    BY <1>6 DEF Call, modelVars
  <2>4. QED
    BY <2>1, <2>2, <2>3 DEF AnswersOnce
<1>7. ASSUME NEW g \in Launches, NEW c \in Calls, Cancel(g, c) PROVE AnswersOnce'
  <2>1. UNCHANGED <<alive, answer, inbox>>
    BY <1>7 DEF Cancel, processVars, rpcVars
  <2>2. \A h \in Launches : request'[h]["initialize"] = request[h]["initialize"]
    <3>1. c # "initialize" /\ c \in Requests
      BY LanguageServerAssumption DEF Requests
    <3>2. request' = [request EXCEPT ![g][c] = "cancelled"]
      BY <1>7 DEF Cancel
    <3>3. QED
      BY <3>1, <3>2, RequestAt DEF Requests
  <2>3. UNCHANGED start
    BY <1>7 DEF Cancel, modelVars
  <2>4. QED
    BY <2>1, <2>2, <2>3 DEF AnswersOnce
<1>8. ASSUME NEW g \in Launches, LaunchServer(g) PROVE AnswersOnce'
  <2>1. UNCHANGED <<answer, inbox>> /\ request[g]["initialize"] = "none"
    BY <1>8 DEF LaunchServer, AnswersOnce
  <2>2. \A h \in Launches : h # g => start'[h] = start[h] /\ alive'[h] = alive[h]
    BY <1>8 DEF LaunchServer, ModelTypes, ProcessTypes
  <2>3. start'[g] \in {"failed", "initializing"}
    BY <1>8 DEF LaunchServer, ModelTypes
  <2>4. request' = request \/ request' = [request EXCEPT ![g]["initialize"] = "spawned"]
    BY <1>8 DEF LaunchServer
  <2>5. /\ request'[g]["initialize"] \in {"none", "spawned"}
        /\ \A h \in Launches : h # g => request'[h]["initialize"] = request[h]["initialize"]
    <3>1. CASE request' = request
      BY <2>1, <3>1
    <3>2. CASE request' = [request EXCEPT ![g]["initialize"] = "spawned"]
      BY <3>2, RequestAt DEF Requests
    <3>3. QED
      BY <2>4, <3>1, <3>2
  <2>6. QED
    BY <2>1, <2>2, <2>3, <2>5 DEF AnswersOnce
<1>9. ASSUME NEW g \in Launches, StartDone(g) PROVE AnswersOnce'
  <2>1. UNCHANGED <<alive, answer, inbox>>
    BY <1>9 DEF StartDone, processVars, rpcVars
  <2>2. \A h \in Launches : request'[h]["initialize"] = request[h]["initialize"]
    BY <1>9 DEF StartDone, rpcVars
  <2>3. \A h \in Launches : start'[h] = start[h] \/ start'[h] = "ended"
    BY <1>9 DEF StartDone, ModelTypes
  <2>4. QED
    BY <2>1, <2>2, <2>3 DEF AnswersOnce
<1>10. ASSUME NEW g \in Launches, Kill(g) PROVE AnswersOnce'
  BY <1>10 DEF Kill, AnswersOnce, ProcessTypes, modelVars, rpcVars
<1>11. ASSUME NEW g \in Launches, ShutdownDone(g) PROVE AnswersOnce'
  <2>1. UNCHANGED <<alive, answer, inbox>>
    BY <1>11 DEF ShutdownDone, processVars, rpcVars
  <2>2. \A h \in Launches : request'[h]["initialize"] = request[h]["initialize"]
    BY <1>11 DEF ShutdownDone, rpcVars
  <2>3. \A h \in Launches : start'[h] = start[h] \/ (start[h] = "none" /\ start'[h] = "resolving")
    <3>1. Start \/ UNCHANGED start
      BY <1>11 DEF ShutdownDone
    <3>2. QED
      BY <3>1, StartStep
  <2>4. QED
    BY <2>1, <2>2, <2>3 DEF AnswersOnce
<1>12. ASSUME NEW g \in Launches, Die(g) PROVE AnswersOnce'
  BY <1>12 DEF Die, AnswersOnce, ProcessTypes, modelVars, rpcVars
<1>13. ASSUME NEW g \in Launches, NEW r \in Requests, Answer(g, r) PROVE AnswersOnce'
  BY <1>13 DEF Answer, AnswersOnce, ProcessTypes, RpcTypes, modelVars
<1>14. ASSUME NEW g \in Launches, NEW r \in Requests, SendRequest(g, r) PROVE AnswersOnce'
  <2>1. UNCHANGED <<start, alive, answer>>
    BY <1>14 DEF SendRequest, modelVars, processVars
  <2>2. \A h \in Launches, q \in Requests :
          \/ request'[h][q] = request[h][q] /\ (q \in inbox'[h] <=> q \in inbox[h])
          \/ request[h][q] = "spawned" /\ request'[h][q] = "sending" /\ inbox'[h] = inbox[h]
          \/ request[h][q] = "sending" /\ request'[h][q] = "waiting"
          \/ /\ request[h][q] = "sending" /\ request'[h][q] = "failed"
             /\ ~alive[h] /\ inbox'[h] = inbox[h]
    <3>1. CASE /\ request[g][r] = "spawned" /\ UNCHANGED inbox
               /\ request' = [request EXCEPT ![g][r] = "sending"]
      BY <3>1, RequestAt
    <3>2. CASE /\ request[g][r] = "sending" /\ Write(g, r)
               /\ request' = [request EXCEPT ![g][r] = "waiting"]
      <4>1. \A h \in Launches, q \in Requests :
              ~(h = g /\ q = r) => (q \in inbox'[h] <=> q \in inbox[h])
        BY <3>2 DEF Write, RpcTypes
      <4>2. QED
        BY <3>2, <4>1, RequestAt
    <3>3. CASE /\ request[g][r] = "sending" /\ ~alive[g] /\ UNCHANGED inbox
               /\ request' = [request EXCEPT ![g][r] = "failed"]
      BY <3>3, RequestAt
    <3>4. QED
      BY <1>14, <3>1, <3>2, <3>3 DEF SendRequest
  <2>3. QED
    BY <2>1, <2>2 DEF AnswersOnce, Requests
<1>15. ASSUME NEW g \in Launches, NEW r \in Requests, ReadReply(g, r) PROVE AnswersOnce'
  <2>1. UNCHANGED <<start, alive, answer, inbox>>
    BY <1>15 DEF ReadReply, modelVars, processVars
  <2>2. \A h \in Launches, q \in Requests :
          request'[h][q] = request[h][q] \/ (request[h][q] = "waiting" /\ request'[h][q] = "replied")
    BY <1>15, RequestAt DEF ReadReply
  <2>3. QED
    BY <2>1, <2>2 DEF AnswersOnce, Requests
<1>16. ASSUME UNCHANGED <<start, alive, answer, request, inbox>> PROVE AnswersOnce'
  BY <1>16 DEF AnswersOnce
<1>17. ASSUME
    UNCHANGED vars
      \/ Load
      \/ Edit
      \/ (\E g \in Launches : ChildEnds(g))
      \/ (\E g \in Launches : ShutdownWaits(g))
      \/ (\E d \in docs : RunDoc(d))
      \/ (\E d \in docs : WriteDoc(d))
      PROVE UNCHANGED <<start, alive, answer, request, inbox>>
  BY <1>17 DEF vars, ChildEnds, Edit, Load, RunDoc, ShutdownWaits, WriteDoc,
    modelVars, shutdownVars, processVars, rpcVars, docVars
<1>18. QED
  BY <1>1, <1>2, <1>3, <1>4, <1>5, <1>6, <1>7, <1>8, <1>9, <1>10, <1>11, <1>12,
    <1>13, <1>14, <1>15, <1>16, <1>17 DEF Next, Asks, Process, Tasks

LEMMA NextStartedIsOwned == StartedIsOwned /\ ModelTypes /\ ProcessTypes /\ OneStart /\ OneShutdown /\ NoProcessBefore /\ AnswersOnce /\ [Next]_vars => StartedIsOwned'
<1> SUFFICES ASSUME StartedIsOwned /\ ModelTypes /\ ProcessTypes /\ OneStart /\ OneShutdown /\ NoProcessBefore /\ AnswersOnce, [Next]_vars PROVE StartedIsOwned'
  OBVIOUS
<1>1. CASE StartAll
  <2> SUFFICES ASSUME NEW h \in Launches, alive'[h], start'[h] = "ended" PROVE Accounted(h)'
    BY DEF StartedIsOwned
  <2>1. alive[h] /\ UNCHANGED <<answer, removed>>
    BY <1>1 DEF StartAll, processVars
  <2>2. CASE Start /\ UNCHANGED shutdown
    <3>1. start[h] = "ended"
      BY <2>2, StartStep
    <3>2. ~(state = "Available" /\ last = h) /\ (~removed \/ state # "Starting")
      BY <1>1, <2>2 DEF StartAll, OneShutdown, Start
    <3>3. QED
      BY <2>1, <2>2, <3>1, <3>2 DEF StartedIsOwned, Accounted, LeftBehind
  <2>3. QED
    BY <1>1, <2>2 DEF StartAll, shutdownVars
<1>2. ASSUME NEW b \in BOOLEAN, Stop(b) PROVE StartedIsOwned'
  <2> SUFFICES ASSUME NEW h \in Launches, alive'[h], start'[h] = "ended" PROVE Accounted(h)'
    BY DEF StartedIsOwned
  <2>1. alive[h] /\ UNCHANGED <<answer, removed>>
    BY <1>2 DEF Stop, processVars
  <2>2. CASE state = "Available" /\ BeginShutdown(b, FALSE)
    <3>1. shutdown'[h] = IF h = last THEN "asking" ELSE shutdown[h]
      BY <2>2 DEF BeginShutdown, ProcessTypes
    <3>2. start[h] = "ended"
      BY <2>2 DEF BeginShutdown
    <3>3. QED
      BY <2>1, <2>2, <3>1, <3>2 DEF StartedIsOwned, Accounted, LeftBehind, BeginShutdown
  <2>3. QED
    BY <1>2, <2>2 DEF Stop
<1>3. CASE ManualStart
  <2> SUFFICES ASSUME NEW h \in Launches, alive'[h], start'[h] = "ended" PROVE Accounted(h)'
    BY DEF StartedIsOwned
  <2>1. alive[h] /\ UNCHANGED <<answer, removed>>
    BY <1>3 DEF ManualStart, processVars
  <2>2. CASE Start /\ UNCHANGED shutdown
    <3>1. start[h] = "ended"
      BY <2>2, StartStep
    <3>2. ~(state = "Available" /\ last = h) /\ (~removed \/ state # "Starting")
      BY <1>3, <2>2 DEF ManualStart, OneShutdown, Start
    <3>3. QED
      BY <2>1, <2>2, <3>1, <3>2 DEF StartedIsOwned, Accounted, LeftBehind
  <2>3. CASE UNCHANGED <<state, last, start, shutdown>>
    BY <2>1, <2>3 DEF StartedIsOwned, Accounted, LeftBehind
  <2>4. QED
    BY <1>3, <2>2, <2>3 DEF ManualStart, shutdownVars
<1>4. CASE Restart
  <2> SUFFICES ASSUME NEW h \in Launches, alive'[h], start'[h] = "ended" PROVE Accounted(h)'
    BY DEF StartedIsOwned
  <2>1. alive[h] /\ UNCHANGED <<answer, removed>>
    BY <1>4 DEF Restart, processVars
  <2>2. CASE Start /\ UNCHANGED shutdown
    <3>1. start[h] = "ended"
      BY <2>2, StartStep
    <3>2. ~(state = "Available" /\ last = h) /\ (~removed \/ state # "Starting")
      BY <1>4, <2>2 DEF Restart, OneShutdown, Start, BeginShutdown
    <3>3. QED
      BY <2>1, <2>2, <3>1, <3>2 DEF StartedIsOwned, Accounted, LeftBehind
  <2>3. CASE state = "Available" /\ BeginShutdown(FALSE, TRUE)
    <3>1. shutdown'[h] = IF h = last THEN "asking" ELSE shutdown[h]
      BY <2>3 DEF BeginShutdown, ProcessTypes
    <3>2. start[h] = "ended"
      BY <2>3 DEF BeginShutdown
    <3>3. QED
      BY <2>1, <2>3, <3>1, <3>2 DEF StartedIsOwned, Accounted, LeftBehind, BeginShutdown
  <2>4. QED
    BY <1>4, <2>2, <2>3 DEF Restart, shutdownVars
<1>5. CASE Remove
  <2> SUFFICES ASSUME NEW h \in Launches, alive'[h], start'[h] = "ended" PROVE Accounted(h)'
    BY DEF StartedIsOwned
  <2>1. alive[h] /\ UNCHANGED answer /\ removed'
    BY <1>5 DEF Remove, processVars
  <2>2. CASE state = "Available" /\ BeginShutdown(TRUE, FALSE)
    <3>1. shutdown'[h] = IF h = last THEN "asking" ELSE shutdown[h]
      BY <2>2 DEF BeginShutdown, ProcessTypes
    <3>2. start[h] = "ended"
      BY <2>2 DEF BeginShutdown
    <3>3. QED
      BY <2>1, <2>2, <3>1, <3>2 DEF StartedIsOwned, Accounted, LeftBehind, BeginShutdown
  <2>3. CASE UNCHANGED <<state, last, start, shutdown>>
    BY <2>1, <2>3 DEF StartedIsOwned, Accounted, LeftBehind
  <2>4. QED
    BY <1>5, <2>2, <2>3 DEF Remove, shutdownVars
<1>6. ASSUME NEW g \in Launches, LaunchServer(g) PROVE StartedIsOwned'
  <2> SUFFICES ASSUME NEW h \in Launches, alive'[h], start'[h] = "ended" PROVE Accounted(h)'
    BY DEF StartedIsOwned
  <2>1. UNCHANGED <<state, removed, last, shutdown, answer>>
    BY <1>6 DEF LaunchServer, shutdownVars
  <2>2. h # g /\ start[h] = "ended" /\ alive[h]
    BY <1>6 DEF LaunchServer, ModelTypes, ProcessTypes
  <2>3. QED
    BY <2>1, <2>2 DEF StartedIsOwned, Accounted, LeftBehind
<1>7. ASSUME NEW g \in Launches, StartDone(g) PROVE StartedIsOwned'
  <2> SUFFICES ASSUME NEW h \in Launches, alive'[h], start'[h] = "ended" PROVE Accounted(h)'
    BY DEF StartedIsOwned
  <2>1. UNCHANGED <<removed, last, shutdown, alive, answer, request>>
    BY <1>7 DEF StartDone, shutdownVars, processVars, rpcVars
  <2>2. state = "Starting" /\ last = g
    BY <1>7 DEF StartDone, OneStart
  <2>3. CASE h = g
    <3>1. start[g] = "initializing"
      BY <1>7, <2>1, <2>3 DEF StartDone, NoProcessBefore
    <3>2. request[g]["initialize"] # "failed"
      BY <2>1, <2>3 DEF AnswersOnce
    <3>3. removed \/ state' = "Available" \/ answer[g] = "error"
      BY <1>7, <3>1, <3>2 DEF StartDone
    <3>4. removed => state' = state
      BY <1>7 DEF StartDone
    <3>5. QED
      BY <2>1, <2>2, <2>3, <3>3, <3>4 DEF Accounted, LeftBehind
  <2>4. CASE h # g
    <3>1. start[h] = "ended" /\ Accounted(h)
      BY <1>7, <2>1, <2>4 DEF StartDone, StartedIsOwned, ModelTypes
    <3>2. removed => state' = state
      BY <1>7 DEF StartDone
    <3>3. QED
      BY <2>1, <2>2, <2>4, <3>1, <3>2 DEF Accounted, LeftBehind, OneShutdown
  <2>5. QED
    BY <2>3, <2>4
<1>8. ASSUME NEW g \in Launches, ShutdownWaits(g) PROVE StartedIsOwned'
  <2> SUFFICES ASSUME NEW h \in Launches, alive'[h], start'[h] = "ended" PROVE Accounted(h)'
    BY DEF StartedIsOwned
  <2>1. UNCHANGED <<state, removed, last, start, alive, answer>>
    BY <1>8 DEF ShutdownWaits, modelVars, processVars
  <2>2. shutdown[h] \in {"asking", "waiting"} => shutdown'[h] \in {"asking", "waiting"}
    BY <1>8 DEF ShutdownWaits, ProcessTypes
  <2>3. QED
    BY <2>1, <2>2 DEF StartedIsOwned, Accounted, LeftBehind
<1>9. ASSUME NEW g \in Launches, Kill(g) PROVE StartedIsOwned'
  <2> SUFFICES ASSUME NEW h \in Launches, alive'[h], start'[h] = "ended" PROVE Accounted(h)'
    BY DEF StartedIsOwned
  <2>1. UNCHANGED <<state, removed, last, start, shutdown, answer>> /\ alive[h]
    BY <1>9 DEF Kill, modelVars, shutdownVars, ProcessTypes
  <2>2. QED
    BY <2>1 DEF StartedIsOwned, Accounted, LeftBehind
<1>10. ASSUME NEW g \in Launches, ShutdownDone(g) PROVE StartedIsOwned'
  <2> SUFFICES ASSUME NEW h \in Launches, alive'[h], start'[h] = "ended" PROVE Accounted(h)'
    BY DEF StartedIsOwned
  <2>1. UNCHANGED <<alive, answer, removed>>
    BY <1>10 DEF ShutdownDone, processVars
  <2>2. h # g /\ shutdown'[h] = shutdown[h]
    BY <1>10, <2>1 DEF ShutdownDone, ProcessTypes
  <2>3. state = "Stopping" /\ last = g
    BY <1>10 DEF ShutdownDone, OneShutdown
  <2>4. start[h] = "ended"
    <3>1. Start \/ UNCHANGED start
      BY <1>10 DEF ShutdownDone
    <3>2. QED
      BY <3>1, StartStep
  <2>5. Accounted(h)
    BY <2>1, <2>4 DEF StartedIsOwned
  <2>6. answer[h] = "error"
    BY <2>2, <2>3, <2>5 DEF Accounted, LeftBehind, OneShutdown
  <2>7. QED
    BY <2>1, <2>6 DEF Accounted, LeftBehind
<1>11. ASSUME NEW g \in Launches, Die(g) PROVE StartedIsOwned'
  <2> SUFFICES ASSUME NEW h \in Launches, alive'[h], start'[h] = "ended" PROVE Accounted(h)'
    BY DEF StartedIsOwned
  <2>1. UNCHANGED <<state, removed, last, start, shutdown, answer>> /\ alive[h]
    BY <1>11 DEF Die, modelVars, shutdownVars, ProcessTypes
  <2>2. QED
    BY <2>1 DEF StartedIsOwned, Accounted, LeftBehind
<1>12. ASSUME NEW g \in Launches, NEW r \in Requests, Answer(g, r) PROVE StartedIsOwned'
  <2> SUFFICES ASSUME NEW h \in Launches, alive'[h], start'[h] = "ended" PROVE Accounted(h)'
    BY DEF StartedIsOwned
  <2>1. UNCHANGED <<state, removed, last, start, shutdown, alive>>
    BY <1>12 DEF Answer, modelVars, shutdownVars
  <2>2. answer[h] = "error" => answer'[h] = "error"
    BY <1>12 DEF Answer, AnswersOnce, ProcessTypes
  <2>3. QED
    BY <2>1, <2>2 DEF StartedIsOwned, Accounted, LeftBehind
<1>13. ASSUME UNCHANGED <<state, removed, last, start, shutdown, alive, answer>> PROVE StartedIsOwned'
  BY <1>13 DEF StartedIsOwned, Accounted, LeftBehind
<1>14. ASSUME
    UNCHANGED vars
      \/ (\E c \in Calls : Call(c))
      \/ (\E g \in Launches, c \in Calls : Cancel(g, c))
      \/ Load
      \/ Edit
      \/ (\E g \in Launches : ChildEnds(g))
      \/ (\E g \in Launches, r \in Requests : SendRequest(g, r))
      \/ (\E g \in Launches, r \in Requests : ReadReply(g, r))
      \/ (\E d \in docs : RunDoc(d))
      \/ (\E d \in docs : WriteDoc(d))
      PROVE UNCHANGED <<state, removed, last, start, shutdown, alive, answer>>
  BY <1>14 DEF vars, Call, Cancel, ChildEnds, Edit, Load, ReadReply, RunDoc,
    SendRequest, WriteDoc, modelVars, shutdownVars, processVars, rpcVars, docVars
<1>15. QED
  BY <1>1, <1>2, <1>3, <1>4, <1>5, <1>6, <1>7, <1>8, <1>9, <1>10, <1>11, <1>12,
    <1>13, <1>14 DEF Next, Asks, Process, Tasks

LEMMA NextStopIsKept == StopIsKept /\ ModelTypes /\ OneStart /\ OneShutdown /\ [Next]_vars => StopIsKept'
<1> SUFFICES ASSUME StopIsKept /\ ModelTypes /\ OneStart /\ OneShutdown, [Next]_vars PROVE StopIsKept'
  OBVIOUS
<1> USE DEF StopIsKept, OneStart, OneShutdown, ModelTypes, Launches, modelVars
<1>1. CASE StartAll
  BY <1>1 DEF StartAll, Start
<1>2. ASSUME NEW b \in BOOLEAN, Stop(b) PROVE StopIsKept'
  BY <1>2 DEF Stop, BeginShutdown
<1>3. CASE ManualStart
  BY <1>3 DEF ManualStart, Start
<1>4. CASE Restart
  BY <1>4 DEF Restart, Start, BeginShutdown
<1>5. CASE Remove
  <2>1. UNCHANGED halted /\ \/ state' = "Stopping" /\ byHand'
                            \/ UNCHANGED <<state, byHand>>
    BY <1>5 DEF Remove, BeginShutdown
  <2>2. QED
    BY <2>1
<1>6. ASSUME NEW g \in Launches, LaunchServer(g) PROVE StopIsKept'
  BY <1>6 DEF LaunchServer
<1>7. ASSUME NEW g \in Launches, StartDone(g) PROVE StopIsKept'
  BY <1>7 DEF StartDone
<1>8. ASSUME NEW g \in Launches, ShutdownDone(g) PROVE StopIsKept'
  <2>1. UNCHANGED halted /\ (again[g] => ~byHand)
    BY <1>8 DEF ShutdownDone
  <2>2. again[g] \/ (UNCHANGED byHand /\ state' \in {state, "Stopped"})
    BY <1>8 DEF ShutdownDone
  <2>3. QED
    BY <2>1, <2>2
<1>9. ASSUME UNCHANGED <<modelVars, halted>> PROVE StopIsKept'
  BY <1>9 DEF StopIsKept
<1>10. ASSUME
    UNCHANGED vars
      \/ (\E c \in Calls : Call(c))
      \/ (\E g \in Launches, c \in Calls : Cancel(g, c))
      \/ Load
      \/ Edit
      \/ (\E g \in Launches : Die(g))
      \/ (\E g \in Launches : ChildEnds(g))
      \/ (\E g \in Launches, r \in Requests : Answer(g, r))
      \/ (\E g \in Launches : ShutdownWaits(g))
      \/ (\E g \in Launches : Kill(g))
      \/ (\E g \in Launches, r \in Requests : SendRequest(g, r))
      \/ (\E g \in Launches, r \in Requests : ReadReply(g, r))
      \/ (\E d \in docs : RunDoc(d))
      \/ (\E d \in docs : WriteDoc(d))
      PROVE UNCHANGED <<modelVars, halted>>
  BY <1>10 DEF vars, Answer, Call, Cancel, ChildEnds, Die, Edit, Kill, Load,
    ReadReply, RunDoc, SendRequest, ShutdownWaits, WriteDoc, modelVars,
    shutdownVars, processVars, rpcVars, docVars
<1>11. QED
  BY <1>1, <1>2, <1>3, <1>4, <1>5, <1>6, <1>7, <1>8, <1>9, <1>10 DEF Next, Asks, Process, Tasks

LEMMA InitIInv == Init => IInv
<1> SUFFICES ASSUME Init PROVE IInv
  OBVIOUS
<1>1. TypeOK
  BY InitTypes
<1>2. OneStart /\ OneShutdown /\ StopIsKept
  BY DEF Init, OneStart, OneShutdown, StopIsKept
<1>3. NoProcessBefore /\ AnswersOnce /\ StartedIsOwned
  BY DEF Init, NoProcessBefore, AnswersOnce, StartedIsOwned, Requests
<1>4. QED
  BY <1>1, <1>2, <1>3 DEF IInv

LEMMA NextIInv == IInv /\ [Next]_vars => IInv'
  BY NextTypes, NextOneStart, NextOneShutdown, NextNoProcessBefore, NextAnswersOnce,
     NextStartedIsOwned, NextStopIsKept DEF IInv, TypeOK

LEMMA InvariantAlways == Spec => []IInv
  BY InitIInv, NextIInv, PTL DEF Spec

\* A process that nobody left behind belongs to the last launch.
LEMMA OwnedIsLast == IInv => OneServer
<1> SUFFICES ASSUME IInv PROVE OneServer
  OBVIOUS
<1>1. ASSUME NEW g \in Launches, alive[g], ~LeftBehind(g)
      PROVE Owned(g) /\ last = g
  <2>1. start[g] \in {"initializing", "ended"}
    BY <1>1 DEF IInv, NoProcessBefore, TypeOK, ModelTypes
  <2>2. CASE start[g] = "initializing"
    BY <2>2 DEF IInv, OneStart, Owned
  <2>3. CASE start[g] = "ended"
    BY <2>3, <1>1 DEF IInv, StartedIsOwned, Accounted, OneShutdown, Owned
  <2>4. QED
    BY <2>1, <2>2, <2>3
<1>2. QED
  BY <1>1 DEF OneServer

-----------------------------------------------------------------------------
\* The strengthening of DocumentInStep.

\* The notifications of launch g that are not yet written.
For(g) == {d \in docs : d.launch = g}

\* They lead, one after the other, from the document as the server knows it to the
\* document as it is; the first of all opens it, and no other does.
Chain(g) ==
  /\ \A d \in For(g) : told[g] <= d.from /\ d.from < d.to /\ d.to <= version
  /\ \A d, e \in For(g) : d.from = e.from \/ d.to = e.to => d = e
  /\ \A d \in For(g) : d.from = told[g] \/ \E e \in For(g) : e.to = d.from
  /\ told[g] = version \/ \E e \in For(g) : e.to = version
  /\ opened[g] = None =>
       /\ told[g] = None
       /\ \A d \in For(g) : d.phase = "spawned" /\ (d.kind = "open" <=> d.from = None)
  /\ opened[g] # None => \A d \in For(g) : d.phase = "spawned" => d.kind # "open"

\* The server was told of nothing.
Untold(g) == opened[g] = None /\ told[g] = None /\ For(g) = {}

Following ==
  /\ Ready /\ alive[last] /\ loaded /\ ~blank[last] /\ ~reordered[last]

DocInv ==
  /\ version > 0
  /\ \A g \in Launches : ~loaded \/ start[g] # "ended" => Untold(g)
  /\ state = "Available" => start[last] = "ended"
  /\ Following => Chain(last)

LEMMA LastLaunch == ModelTypes /\ state # "Stopped" => last \in Launches
  BY DEF ModelTypes, Launches

\* A step that leaves the document alone and makes no server ready.
LEMMA DocKept ==
  ASSUME DocInv, UNCHANGED docVars,
         \A g \in Launches : start[g] = "ended" => start'[g] = "ended",
         Ready' /\ alive'[last'] => Ready /\ last' = last /\ alive[last],
         state' = "Available" => state = "Available" /\ last' = last /\ last \in Launches
  PROVE  DocInv'
<1> USE DEF docVars
<1>1. \A g : For(g)' = For(g)
  BY DEF For
<1>2. \A g : Untold(g)' <=> Untold(g)
  BY <1>1 DEF Untold
<1>3. \A g : Chain(g)' <=> Chain(g)
  BY <1>1 DEF Chain
<1>4. Following' => Following /\ last' = last
  BY DEF Following
<1>5. version' > 0
  BY DEF DocInv
<1>6. \A g \in Launches : ~loaded' \/ start'[g] # "ended" => Untold(g)'
  BY <1>2 DEF DocInv
<1>7. state' = "Available" => start'[last'] = "ended"
  BY DEF DocInv
<1>8. Following' => Chain(last)'
  BY <1>3, <1>4 DEF DocInv
<1>9. QED
  BY <1>4, <1>5, <1>6, <1>7, <1>8 DEF DocInv

\* A start is one.
LEMMA StartKept ==
  ASSUME DocInv, ModelTypes, NoProcessBefore, UNCHANGED docVars, Start
  PROVE  DocInv'
<1>1. state' = "Starting"
  BY DEF Start
<1>2. \A g \in Launches : start[g] = "ended" => start'[g] = "ended"
  BY StartStep
<1>3. QED
  BY <1>1, <1>2, DocKept DEF Ready

\* So is the beginning of a shutdown.
LEMMA ShutdownKept ==
  ASSUME DocInv, UNCHANGED docVars, NEW b, NEW c, BeginShutdown(b, c)
  PROVE  DocInv'
<1>1. state' = "Stopping" /\ UNCHANGED start
  BY DEF BeginShutdown
<1>2. QED
  BY <1>1, DocKept DEF Ready

\* A task of the document is one of the last launch.
LEMMA TaskAdded ==
  ASSUME NEW kind, NEW from, NEW to, docs' = docs \cup DocTasks(kind, from, to),
         UNCHANGED last
  PROVE  /\ For(last)' = For(last) \cup DocTasks(kind, from, to)
         /\ \A g : g # last => For(g)' = For(g)
<1> DEFINE e == [launch |-> last, kind |-> kind, from |-> from, to |-> to,
                 phase |-> "spawned"]
<1>1. DocTasks(kind, from, to) = {e}
  BY DEF DocTasks
<1>2. e.launch = last
  OBVIOUS
<1> HIDE DEF e
<1>3. For(last)' = For(last) \cup {e}
  BY <1>1, <1>2 DEF For
<1>4. \A g : g # last => For(g)' = For(g)
  BY <1>1, <1>2 DEF For
<1>5. QED
  BY <1>1, <1>3, <1>4

\* The first task of a launch opens the document as it is.
LEMMA OpenChain ==
  ASSUME DocTypes, Untold(last), version > 0, UNCHANGED <<last, version, opened, told>>,
         docs' = docs \cup DocTasks("open", None, version)
  PROVE  Chain(last)'
<1> DEFINE e == [launch |-> last, kind |-> "open", from |-> None, to |-> version,
                 phase |-> "spawned"]
<1>1. For(last)' = {e}
  BY TaskAdded DEF Untold, DocTasks
<1>2. /\ e.kind = "open" /\ e.from = None /\ e.to = version /\ e.phase = "spawned"
  OBVIOUS
<1>3. told'[last] = None /\ opened'[last] = None /\ version' = version /\ last' = last
  BY DEF Untold
<1>4. version \in Nat
  BY DEF DocTypes
<1> HIDE DEF e
<1>5. /\ \A d \in For(last)' : told'[last'] <= d.from /\ d.from < d.to /\ d.to <= version'
      /\ \A d, f \in For(last)' : d.from = f.from \/ d.to = f.to => d = f
      /\ \A d \in For(last)' : d.from = told'[last']
      /\ \E d \in For(last)' : d.to = version'
  BY <1>1, <1>2, <1>3, <1>4 DEF None
<1>6. \A d \in For(last)' : d.phase = "spawned" /\ (d.kind = "open" <=> d.from = None)
  BY <1>1, <1>2
<1>7. QED
  BY <1>3, <1>5, <1>6 DEF Chain

LEMMA StartDoneDoc ==
  ASSUME DocInv, DocTypes, ModelTypes, OneStart, NEW g \in Launches, StartDone(g)
  PROVE  DocInv'
<1>1. state = "Starting" /\ last = g /\ start[g] # "ended"
  BY DEF StartDone, OneStart
<1>2. UNCHANGED <<removed, last, loaded, version, latest, opened, told, blank, reordered, alive>>
  BY DEF StartDone, processVars
<1>3. start' = [start EXCEPT ![g] = "ended"]
  BY DEF StartDone
<1>4. start'[g] = "ended" /\ \A h \in Launches : h # g => start'[h] = start[h]
  BY <1>3 DEF ModelTypes
<1>5. CASE UNCHANGED docs /\ state' # "Available"
  <2>1. \A h \in Launches : start[h] = "ended" => start'[h] = "ended"
    BY <1>4
  <2>2. QED
    BY <1>2, <1>5, <2>1, DocKept DEF Ready, docVars
<1>6. CASE state' = "Available" /\ OpenAll
  <2>1. CASE loaded
    <3>1. docs' = docs \cup DocTasks("open", None, version)
      BY <1>6, <2>1 DEF OpenAll
    <3>2. Untold(last)
      BY <1>1 DEF DocInv
    <3>3. Chain(last)'
      BY <1>2, <3>1, <3>2, OpenChain DEF DocInv
    <3>4. \A h \in Launches : h # g => (Untold(h)' <=> Untold(h))
      BY <1>1, <1>2, <3>1, TaskAdded DEF Untold
    <3>5. QED
      BY <1>1, <1>2, <1>4, <2>1, <3>3, <3>4 DEF DocInv
  <2>2. CASE ~loaded
    <3>1. docs' = docs
      BY <1>6, <2>2 DEF OpenAll
    <3>2. \A h : Untold(h)' <=> Untold(h)
      BY <1>2, <3>1 DEF Untold, For
    <3>3. QED
      BY <1>1, <1>2, <1>4, <2>2, <3>2 DEF DocInv, Following
  <2>3. QED
    BY <2>1, <2>2
<1>7. QED
  BY <1>1, <1>5, <1>6 DEF StartDone

LEMMA LoadDoc ==
  ASSUME DocInv, DocTypes, ModelTypes, Load
  PROVE  DocInv'
<1>1. ~loaded /\ loaded' /\ UNCHANGED <<state, removed, last, start, alive, version, opened, told, reordered>>
  BY DEF Load, modelVars, processVars
<1>2. \A g \in Launches : Untold(g)
  BY <1>1 DEF DocInv
<1>3. Ready => last \in Launches
  BY LastLaunch DEF Ready
<1>4. Following' => Ready /\ Chain(last)'
  <2> SUFFICES ASSUME Following' PROVE Ready /\ Chain(last)'
    OBVIOUS
  <2>1. Ready
    BY <1>1 DEF Following, Ready
  <2>2. docs' = docs \cup DocTasks("open", None, version)
    <3>1. blank' # [blank EXCEPT ![last] = TRUE]
      BY <1>1, <1>3, <2>1 DEF Following, DocTypes
    <3>2. QED
      BY <3>1, <2>1 DEF Load
  <2>3. QED
    BY <1>1, <1>2, <1>3, <2>1, <2>2, OpenChain DEF DocInv
<1>5. \A g \in Launches : start'[g] # "ended" => Untold(g)'
  <2> SUFFICES ASSUME NEW g \in Launches, start[g] # "ended" PROVE Untold(g)'
    BY <1>1
  <2>1. Ready => g # last
    BY DEF DocInv, Ready
  <2>2. docs' = docs \/ (Ready /\ docs' = docs \cup DocTasks("open", None, version))
    BY DEF Load
  <2>3. For(g)' = For(g)
    BY <1>1, <2>1, <2>2, TaskAdded DEF For
  <2>4. QED
    BY <1>1, <1>2, <2>3 DEF Untold
<1>6. QED
  BY <1>1, <1>4, <1>5 DEF DocInv

\* The task of an edit follows the last of its launch.
LEMMA EditChain ==
  ASSUME DocTypes, Chain(last), version > 0, NEW kind \in {"full", "delta"},
         UNCHANGED <<last, opened, told>>, version' = version + 1,
         docs' = docs \cup DocTasks(kind, version, version + 1), last \in Launches
  PROVE  Chain(last)'
<1> DEFINE e == [launch |-> last, kind |-> kind, from |-> version, to |-> version + 1,
                 phase |-> "spawned"]
<1>1. For(last)' = For(last) \cup {e}
  BY TaskAdded DEF DocTasks
<1>2. e.kind # "open" /\ e.from = version /\ e.to = version + 1 /\ e.phase = "spawned"
  OBVIOUS
<1>3. version \in Nat /\ told[last] \in Int /\ \A d \in For(last) : d.from \in Nat /\ d.to \in Nat
  BY DEF DocTypes, DocTask, For, Garbled
<1> HIDE DEF e
<1>4. \A d \in For(last) : told[last] <= d.from /\ d.from < d.to /\ d.to <= version
  BY DEF Chain
<1>5. told[last] <= version
  BY <1>3, <1>4 DEF Chain
<1>6. \A d \in For(last)' : told'[last'] <= d.from /\ d.from < d.to /\ d.to <= version'
  BY <1>1, <1>2, <1>3, <1>4, <1>5
<1>7. \A d, f \in For(last)' : d.from = f.from \/ d.to = f.to => d = f
  <2>1. \A d \in For(last) : d.from # e.from /\ d.to # e.to
    BY <1>2, <1>3, <1>4
  <2>2. QED
    BY <1>1, <2>1 DEF Chain
<1>8. \A d \in For(last)' : d.from = told'[last'] \/ \E f \in For(last)' : f.to = d.from
  BY <1>1, <1>2 DEF Chain
<1>9. \E f \in For(last)' : f.to = version'
  BY <1>1, <1>2
<1>10. opened'[last'] = None =>
       /\ told'[last'] = None
       /\ \A d \in For(last)' : d.phase = "spawned" /\ (d.kind = "open" <=> d.from = None)
  BY <1>1, <1>2, <1>3 DEF Chain, None
<1>11. opened'[last'] # None => \A d \in For(last)' : d.phase = "spawned" => d.kind # "open"
  BY <1>1, <1>2 DEF Chain
<1>12. QED
  BY <1>6, <1>7, <1>8, <1>9, <1>10, <1>11 DEF Chain

LEMMA EditDoc ==
  ASSUME DocInv, DocTypes, ModelTypes, Edit
  PROVE  DocInv'
<1>1. /\ loaded /\ loaded' /\ version' = version + 1 /\ version \in Nat
      /\ UNCHANGED <<state, removed, last, start, alive, opened, told, blank, reordered>>
  BY DEF Edit, modelVars, processVars, DocTypes
<1>2. Ready => \E kind \in {"full", "delta"} :
                 docs' = docs \cup DocTasks(kind, version, version + 1)
  BY DEF Edit
<1>3. ~Ready => docs' = docs
  BY DEF Edit
<1>4. Following' => Chain(last)'
  <2> SUFFICES ASSUME Following' PROVE Chain(last)'
    OBVIOUS
  <2>1. Following /\ Ready
    BY <1>1 DEF Following, Ready
  <2>2. last \in Launches
    BY <2>1, LastLaunch DEF Ready
  <2>3. QED
    BY <1>1, <1>2, <2>1, <2>2, EditChain DEF DocInv
<1>5. \A g \in Launches : start'[g] # "ended" => Untold(g)'
  <2> SUFFICES ASSUME NEW g \in Launches, start[g] # "ended" PROVE Untold(g)'
    BY <1>1
  <2>1. Ready => g # last
    BY DEF DocInv, Ready
  <2>2. For(g)' = For(g)
    BY <1>1, <1>2, <1>3, <2>1, TaskAdded DEF For
  <2>3. QED
    BY <1>1, <2>2 DEF Untold, DocInv
<1>6. QED
  BY <1>1, <1>4, <1>5 DEF DocInv

\* What the tasks of a chain are.
LEMMA TaskTypes ==
  ASSUME DocTypes, NEW g \in Launches
  PROVE  /\ version \in Nat /\ told[g] \in Int /\ opened[g] \in Nat
         /\ \A d \in For(g) : d \in DocTask /\ d.launch = g /\ d.from \in Nat /\ d.to \in Nat
  BY DEF DocTypes, DocTask, For, Garbled

\* A task that is handed over keeps its place in the chain.
LEMMA RunChain ==
  ASSUME DocTypes, Chain(last), last \in Launches, NEW d \in For(last), d.phase = "spawned",
         \A e \in For(last) : e.phase = "spawned" => e.to >= d.to, RunDoc(d)
  PROVE  Chain(last)'
<1>1. UNCHANGED <<last, version, told>>
  BY DEF RunDoc, modelVars
<1>2. d \in DocTask /\ d.launch = last /\ d.from \in Nat /\ d.to \in Nat /\ d.from < d.to
  BY TaskTypes DEF Chain
<1>3. d.kind = "open" <=> opened[last] = None
  <2>1. CASE opened[last] = None
    <3>1. \A e \in For(last) : e.to # d.from
      <4>1. \A e \in For(last) : e.to >= d.to /\ e.to \in Nat
        BY <2>1, TaskTypes DEF Chain
      <4>2. QED
        BY <4>1, <1>2
    <3>2. d.from = told[last]
      BY <3>1 DEF Chain
    <3>3. QED
      BY <2>1, <3>2 DEF Chain
  <2>2. CASE opened[last] # None
    BY <2>2 DEF Chain
  <2>3. QED
    BY <2>1, <2>2
<1> DEFINE w == [d EXCEPT !.phase = "writing"]
<1>4. /\ w.launch = d.launch /\ w.kind = d.kind /\ w.from = d.from /\ w.to = d.to
      /\ w.phase = "writing"
  BY <1>2 DEF DocTask
<1>5. docs' = (docs \ {d}) \cup {w} /\ opened' = [opened EXCEPT ![last] = d.to]
  BY <1>2, <1>3 DEF RunDoc
<1> HIDE DEF w
<1>6. For(last)' = (For(last) \ {d}) \cup {w}
  BY <1>1, <1>2, <1>4, <1>5 DEF For
<1>7. opened'[last'] = d.to /\ d.to # None
  BY <1>1, <1>2, <1>5 DEF DocTypes, None
<1>8. \A e \in For(last)' : \E f \in For(last) :
        e.from = f.from /\ e.to = f.to /\ (f = d => e = w) /\ (f # d => e = f)
  BY <1>4, <1>6
<1>9. \A f \in For(last) : \E e \in For(last)' : e.from = f.from /\ e.to = f.to
  BY <1>4, <1>6
<1>10. \A e \in For(last)' : told'[last'] <= e.from /\ e.from < e.to /\ e.to <= version'
  BY <1>1, <1>8 DEF Chain
<1>11. \A e, f \in For(last)' : e.from = f.from \/ e.to = f.to => e = f
  BY <1>8 DEF Chain
<1>12. \A e \in For(last)' : e.from = told'[last'] \/ \E f \in For(last)' : f.to = e.from
  <2> SUFFICES ASSUME NEW e \in For(last)', e.from # told[last]
               PROVE \E f \in For(last)' : f.to = e.from
    BY <1>1
  <2>1. PICK x \in For(last) : x.from = e.from
    BY <1>8
  <2>2. PICK y \in For(last) : y.to = x.from
    BY <2>1 DEF Chain
  <2>3. QED
    BY <1>9, <2>1, <2>2
<1>13. told'[last'] = version' \/ \E e \in For(last)' : e.to = version'
  BY <1>1, <1>9 DEF Chain
<1>14. \A e \in For(last)' : e.phase = "spawned" => e.kind # "open"
  <2> SUFFICES ASSUME NEW e \in For(last)', e.phase = "spawned" PROVE e.kind # "open"
    OBVIOUS
  <2>1. e \in For(last) /\ e # d
    BY <1>4, <1>6
  <2>2. CASE opened[last] = None
    BY <1>3, <2>1, <2>2 DEF Chain
  <2>3. CASE opened[last] # None
    BY <2>1, <2>3 DEF Chain
  <2>4. QED
    BY <2>2, <2>3
<1>15. QED
  BY <1>7, <1>10, <1>11, <1>12, <1>13, <1>14 DEF Chain

LEMMA RunDocDoc ==
  ASSUME DocInv, DocTypes, ModelTypes, NEW d \in docs, RunDoc(d)
  PROVE  DocInv'
<1>1. UNCHANGED <<state, removed, last, start, alive, loaded, version, told, blank>>
  BY DEF RunDoc, modelVars, processVars
<1>2. d.launch \in Launches /\ d \in DocTask /\ d \in For(d.launch) /\ d.phase = "spawned"
  BY DEF RunDoc, DocTypes, DocTask, For
<1>3. [d EXCEPT !.phase = "writing"].launch = d.launch
  BY <1>2 DEF DocTask
<1>4. \A g : g # d.launch => For(g)' = For(g)
  BY <1>3 DEF RunDoc, For
<1>5. \A g \in Launches : g # d.launch => opened'[g] = opened[g] /\ reordered'[g] = reordered[g]
  BY <1>2 DEF RunDoc, Overtakes, DocTypes
<1>6. \A g \in Launches : ~loaded' \/ start'[g] # "ended" => Untold(g)'
  <2> SUFFICES ASSUME NEW g \in Launches, ~loaded \/ start[g] # "ended" PROVE Untold(g)'
    BY <1>1
  <2>1. Untold(g)
    BY DEF DocInv
  <2>2. g # d.launch
    BY <1>2, <2>1 DEF Untold
  <2>3. QED
    BY <1>1, <1>4, <1>5, <2>1, <2>2 DEF Untold
<1>7. Following' => Chain(last)'
  <2> SUFFICES ASSUME Following' PROVE Chain(last)'
    OBVIOUS
  <2>1. last \in Launches
    BY <1>1, LastLaunch DEF Following, Ready
  <2>2. CASE d.launch # last
    <3>1. Chain(last)
      BY <1>1, <1>5, <2>1, <2>2 DEF Following, Ready, DocInv
    <3>2. QED
      BY <1>1, <1>4, <1>5, <2>1, <2>2, <3>1 DEF Chain
  <2>3. CASE d.launch = last
    <3>1. {e \in Earlier(d) : e.phase = "spawned"} = {} /\ ~reordered[last]
      BY <1>1, <2>1, <2>3 DEF RunDoc, Overtakes, Following, DocTypes
    <3>2. Chain(last)
      BY <1>1, <3>1 DEF Following, Ready, DocInv
    <3>3. \A e \in For(last) : e.phase = "spawned" => e.to >= d.to
      <4>1. \A e \in For(last) : e.phase = "spawned" => ~(e.to < d.to)
        BY <2>3, <3>1 DEF Earlier, For
      <4>2. QED
        BY <1>2, <2>1, <2>3, <4>1, TaskTypes
    <3>4. QED
      BY <1>2, <2>1, <2>3, <3>2, <3>3, RunChain
  <2>4. QED
    BY <2>2, <2>3
<1>8. QED
  BY <1>1, <1>6, <1>7 DEF DocInv

\* What is written first leads from what the server knows to what it knows then.
LEMMA WriteChain ==
  ASSUME DocTypes, Chain(last), last \in Launches, NEW d \in For(last), alive[last],
         \A e \in For(last) : e.to >= d.to, WriteDoc(d)
  PROVE  Chain(last)'
<1>1. UNCHANGED <<last, version, opened>> /\ docs' = docs \ {d} /\ d.phase = "writing"
  BY DEF WriteDoc, modelVars
<1>2. d \in DocTask /\ d.launch = last /\ d.from \in Nat /\ d.to \in Nat /\ d.from < d.to
  BY TaskTypes DEF Chain
<1>3. /\ version \in Nat /\ told[last] \in Int
      /\ \A e \in For(last) : e.from \in Nat /\ e.to \in Nat
  BY TaskTypes
<1>4. d.from = told[last]
  <2>1. \A e \in For(last) : e.to # d.from
    BY <1>2, <1>3
  <2>2. QED
    BY <2>1 DEF Chain
<1>5. told'[last] = d.to
  BY <1>2, <1>4 DEF WriteDoc, DocTypes
<1>6. For(last)' = For(last) \ {d}
  BY <1>1 DEF For
<1>7. \A e \in For(last)' : e.from >= d.to /\ (e.from = d.to \/ \E f \in For(last)' : f.to = e.from)
  <2> SUFFICES ASSUME NEW e \in For(last), e # d
               PROVE e.from >= d.to /\ (e.from = d.to \/ \E f \in For(last)' : f.to = e.from)
    BY <1>6
  <2>1. PICK f \in For(last) : f.to = e.from
    BY <1>4 DEF Chain
  <2>2. f.to >= d.to
    OBVIOUS
  <2>3. QED
    BY <1>6, <2>1, <2>2
<1>8. \A e \in For(last)' : told'[last'] <= e.from /\ e.from < e.to /\ e.to <= version'
  BY <1>1, <1>2, <1>3, <1>5, <1>6, <1>7 DEF Chain
<1>9. \A e, f \in For(last)' : e.from = f.from \/ e.to = f.to => e = f
  BY <1>6 DEF Chain
<1>10. \A e \in For(last)' : e.from = told'[last'] \/ \E f \in For(last)' : f.to = e.from
  BY <1>1, <1>5, <1>7
<1>11. told'[last'] = version' \/ \E e \in For(last)' : e.to = version'
  <2>1. told[last] # version
    <3>1. told[last] <= d.from /\ d.from < d.to /\ d.to <= version
      BY DEF Chain
    <3>2. QED
      BY <1>2, <1>3, <3>1
  <2>2. PICK e \in For(last) : e.to = version
    BY <2>1 DEF Chain
  <2>3. QED
    BY <1>1, <1>5, <1>6, <2>2
<1>12. opened[last] # None
  BY <1>1 DEF Chain
<1>13. \A e \in For(last)' : e.phase = "spawned" => e.kind # "open"
  BY <1>6, <1>12 DEF Chain
<1>14. QED
  BY <1>1, <1>8, <1>9, <1>10, <1>11, <1>12, <1>13 DEF Chain

LEMMA WriteDocDoc ==
  ASSUME DocInv, DocTypes, ModelTypes, NEW d \in docs, WriteDoc(d)
  PROVE  DocInv'
<1>1. UNCHANGED <<state, removed, last, start, alive, loaded, version, opened, blank>>
  BY DEF WriteDoc, modelVars, processVars
<1>2. d.launch \in Launches /\ d \in For(d.launch)
  BY DEF DocTypes, DocTask, For
<1>3. \A g : g # d.launch => For(g)' = For(g)
  BY DEF WriteDoc, For
<1>4. \A g \in Launches : g # d.launch => told'[g] = told[g] /\ reordered'[g] = reordered[g]
  BY <1>2 DEF WriteDoc, Overtakes, DocTypes
<1>5. \A g \in Launches : ~loaded' \/ start'[g] # "ended" => Untold(g)'
  <2> SUFFICES ASSUME NEW g \in Launches, ~loaded \/ start[g] # "ended" PROVE Untold(g)'
    BY <1>1
  <2>1. Untold(g)
    BY DEF DocInv
  <2>2. g # d.launch
    BY <1>2, <2>1 DEF Untold
  <2>3. QED
    BY <1>1, <1>3, <1>4, <2>1, <2>2 DEF Untold
<1>6. Following' => Chain(last)'
  <2> SUFFICES ASSUME Following' PROVE Chain(last)'
    OBVIOUS
  <2>1. last \in Launches
    BY <1>1, LastLaunch DEF Following, Ready
  <2>2. CASE d.launch # last
    <3>1. Chain(last)
      BY <1>1, <1>4, <2>1, <2>2 DEF Following, Ready, DocInv
    <3>2. QED
      BY <1>1, <1>3, <1>4, <2>1, <2>2, <3>1 DEF Chain
  <2>3. CASE d.launch = last
    <3>1. Earlier(d) = {} /\ ~reordered[last]
      BY <1>1, <2>1, <2>3 DEF WriteDoc, Overtakes, Following, DocTypes
    <3>2. Chain(last)
      BY <1>1, <3>1 DEF Following, Ready, DocInv
    <3>3. \A e \in For(last) : e.to >= d.to
      <4>1. \A e \in For(last) : ~(e.to < d.to)
        BY <2>3, <3>1 DEF Earlier, For
      <4>2. QED
        BY <1>2, <2>1, <2>3, <4>1, TaskTypes
    <3>4. QED
      BY <1>1, <1>2, <2>1, <2>3, <3>2, <3>3, WriteChain DEF Following
  <2>4. QED
    BY <2>2, <2>3
<1>7. QED
  BY <1>1, <1>5, <1>6 DEF DocInv

LEMMA InitDocInv == Init => DocInv
  BY DEF Init, DocInv, Untold, For, Following, None

LEMMA NextDocInv ==
  DocInv /\ ModelTypes /\ ProcessTypes /\ DocTypes /\ OneStart /\ NoProcessBefore /\ [Next]_vars => DocInv'
<1> SUFFICES ASSUME DocInv /\ ModelTypes /\ ProcessTypes /\ DocTypes /\ OneStart /\ NoProcessBefore, [Next]_vars
             PROVE DocInv'
  OBVIOUS
<1>1. CASE StartAll
  BY <1>1, StartKept DEF StartAll
<1>2. ASSUME NEW b \in BOOLEAN, Stop(b) PROVE DocInv'
  BY <1>2, ShutdownKept DEF Stop
<1>3. state = "Available" => last \in Launches /\ start[last] = "ended"
  BY LastLaunch DEF DocInv
<1>4. CASE ManualStart
  <2>1. UNCHANGED removed /\ UNCHANGED docVars /\ UNCHANGED alive
    BY <1>4 DEF ManualStart, processVars, docVars
  <2>2. CASE Start
    BY <2>1, <2>2, StartKept
  <2>3. CASE UNCHANGED <<state, last, start>>
    BY <1>3, <2>1, <2>3, DocKept DEF Ready
  <2>4. Start \/ UNCHANGED <<state, last, start>>
    BY <1>4 DEF ManualStart
  <2>5. QED
    BY <2>2, <2>3, <2>4
<1>5. CASE Restart
  BY <1>5, StartKept, ShutdownKept DEF Restart
<1>6. CASE Remove
  <2>1. CASE BeginShutdown(TRUE, FALSE)
    BY <1>6, <2>1, ShutdownKept DEF Remove
  <2>2. CASE state # "Available" /\ UNCHANGED <<state, last, start>>
    BY <1>6, <2>2, DocKept DEF Remove, Ready
  <2>3. QED
    BY <1>6, <2>1, <2>2 DEF Remove
<1>7. ASSUME NEW g \in Launches, LaunchServer(g) PROVE DocInv'
  <2>1. UNCHANGED <<state, removed, last, docVars>> /\ start[g] = "resolving"
    BY <1>7 DEF LaunchServer
  <2>2. \A h \in Launches : start[h] = "ended" => start'[h] = "ended" /\ alive'[h] = alive[h]
    BY <1>7 DEF LaunchServer, ModelTypes, ProcessTypes
  <2>3. QED
    BY <1>3, <2>1, <2>2, DocKept DEF Ready
<1>8. ASSUME NEW g \in Launches, StartDone(g) PROVE DocInv'
  BY <1>8, StartDoneDoc
<1>9. ASSUME NEW g \in Launches, ShutdownDone(g) PROVE DocInv'
  <2>1. UNCHANGED <<removed, alive, docVars>>
    BY <1>9 DEF ShutdownDone, processVars
  <2>2. CASE Start
    BY <2>1, <2>2, StartKept
  <2>3. CASE state' \in {state, "Stopped"} /\ UNCHANGED <<last, start>>
    BY <1>3, <2>1, <2>3, DocKept DEF Ready
  <2>4. QED
    BY <1>9, <2>2, <2>3 DEF ShutdownDone
<1>10. ASSUME NEW g \in Launches, Die(g) \/ Kill(g) PROVE DocInv'
  <2>1. UNCHANGED <<state, removed, last, start, docVars>>
    BY <1>10 DEF Die, Kill, modelVars
  <2>2. \A h \in Launches : alive'[h] => alive[h]
    BY <1>10 DEF Die, Kill, ProcessTypes
  <2>3. QED
    BY <1>3, <2>1, <2>2, DocKept DEF Ready
<1>11. CASE Load
  BY <1>11, LoadDoc
<1>12. CASE Edit
  BY <1>12, EditDoc
<1>13. ASSUME NEW d \in docs, RunDoc(d) PROVE DocInv'
  BY <1>13, RunDocDoc
<1>14. ASSUME NEW d \in docs, WriteDoc(d) PROVE DocInv'
  BY <1>14, WriteDocDoc
<1>15. ASSUME UNCHANGED <<modelVars, alive, docVars>> PROVE DocInv'
  BY <1>3, <1>15, DocKept DEF Ready, modelVars
<1>16. ASSUME
    UNCHANGED vars
      \/ (\E c \in Calls : Call(c))
      \/ (\E g \in Launches, c \in Calls : Cancel(g, c))
      \/ (\E g \in Launches : ChildEnds(g))
      \/ (\E g \in Launches, r \in Requests : Answer(g, r))
      \/ (\E g \in Launches : ShutdownWaits(g))
      \/ (\E g \in Launches, r \in Requests : SendRequest(g, r))
      \/ (\E g \in Launches, r \in Requests : ReadReply(g, r))
      PROVE UNCHANGED <<modelVars, alive, docVars>>
  BY <1>16 DEF vars, Answer, Call, Cancel, ChildEnds, ReadReply, SendRequest, ShutdownWaits,
    modelVars, shutdownVars, processVars, rpcVars, docVars
<1>17. QED
  BY <1>1, <1>2, <1>4, <1>5, <1>6, <1>7, <1>8, <1>9, <1>10, <1>11, <1>12, <1>13, <1>14,
     <1>15, <1>16 DEF Next, Asks, Process, Tasks

LEMMA DocInvAlways == Spec => []DocInv
<1>1. IInv => ModelTypes /\ ProcessTypes /\ DocTypes /\ OneStart /\ NoProcessBefore
  BY DEF IInv, TypeOK
<1>2. QED
  BY <1>1, InitDocInv, NextDocInv, InvariantAlways, PTL DEF Spec

-----------------------------------------------------------------------------
\* The results.

\* Every variable of the model, of its processes, of their requests and of the
\* document keeps its type, whatever the server answers and when.
THEOREM TypeCorrect == Spec => []TypeOK
<1>1. IInv => TypeOK
  BY DEF IInv
<1>2. QED
  BY <1>1, InvariantAlways, PTL

\* A server stopped by hand is never started by a file that is opened, by an
\* earlier start or by the callback of an earlier shutdown (model.rs).
THEOREM StopIsKeptAlways == Spec => []StopIsKept
<1>1. IInv => StopIsKept
  BY DEF IInv
<1>2. QED
  BY <1>1, InvariantAlways, PTL

\* However starts, stops, restarts and their callbacks interleave, one process at
\* most is in use and somebody will use or end it (model.rs).
THEOREM OneServerAlways == Spec => []OneServer
  BY OwnedIsLast, InvariantAlways, PTL

\* However edits, loads, starts, restarts and the tasks of the notifications interleave,
\* a server that was told of all that is to be told knows the document as it is, unless
\* one notification overtook another or the file was empty when it was loaded
\* (global_buffer_model.rs, service.rs).
THEOREM DocumentInStepAlways == Spec => []DocumentInStep
<1>1. DocInv => DocumentInStep
  BY DEF DocInv, DocumentInStep, Following, Chain, For
<1>2. QED
  BY <1>1, DocInvAlways, PTL

====
