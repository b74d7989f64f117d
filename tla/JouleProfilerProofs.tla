------------------------ MODULE JouleProfilerProofs ------------------------
(***************************************************************************)
(* IInv is an inductive invariant of JouleProfiler, and what follows from  *)
(* it: the safety properties of JouleProfiler hold for any number of       *)
(* sources, any capacity of the channels, any number of lines and runs,    *)
(* and whatever fails.  The last part follows two mappings step by step:   *)
(* JouleProfiler implements PhaseProfiling for its user and MetricReader   *)
(* for each of its sources, from MappingInv, which is IInv and what a      *)
(* holder tells of the life of a source.                                   *)
(***************************************************************************)
EXTENDS JouleProfilerRefinement, SequenceTheorems, TLAPS

USE DEF runtimeVars, sourceVars, handleVars, orchestratorVars, mainVars,
        readerVars, childVars, Goto, Return, Abort, ReaderGoto, ReaderReturns


(* A step that leaves the channels, the workers and the handles alone. *)
LEMMA QueuesUnchanged ==
    ASSUME IInv,
           UNCHANGED <<queue, worker, measured, phases, senders, joinHandles,
                       joinSent, reader, cursor, detected, readerResult>>,
           main' = "join_all" <=> main = "join_all"
    PROVE  (\A s \in Sources : Progress(s)' /\ JoinIsLast(s)') /\ Submission'
<1>1. ASSUME NEW s \in Sources PROVE Progress(s)' /\ JoinIsLast(s)'
  <2>1. Progress(s)' BY DEF IInv, Progress, Received
  <2>2. JoinIsLast(s)' BY DEF IInv, JoinIsLast, Joining
  <2> QED BY <2>1, <2>2
<1>2. Submission'
  <2>1. Base' = Base /\ \A s \in Sources : Received(s)' = Received(s)
    BY DEF Base, Received
  <2>2. \A s \in Sources : Joining(s)' <=> Joining(s)
    BY DEF Joining
  <2>3. Submission
    BY DEF IInv
  <2>4. joinHandles \subseteq Sources
    BY DEF IInv, TypeOK, RuntimeTypeOK, OrchestratorTypeOK
  <2> QED BY <2>1, <2>2, <2>3, <2>4 DEF Submission
<1> QED BY <1>1, <1>2

(* The command only changes its own state. *)
LEMMA ChildStepPreserves == ASSUME IInv, ChildStep PROVE IInv'
<1> USE DEF IInv, ChildStep, ChildWrites, StdoutCloses, ChildExits
<1>1. TypeOK'
  <2> USE DEF TypeOK
  <2>1. RuntimeTypeOK' /\ OrchestratorTypeOK'
    BY DEF RuntimeTypeOK, OrchestratorTypeOK
  <2>2. child' \in ChildState /\ stdoutOpen' \in BOOLEAN
    BY DEF ChildState
  <2>3. written' \in 0 .. MaxLines /\ unread' \in 0 .. written'
    BY BoundsAssumption
  <2> QED BY <2>1, <2>2, <2>3
<1>2. Control'
  BY DEF Control
<1>3. Handles'
  BY DEF Handles, Running
<1>4. Ownership' /\ \A s \in Sources : Held(s)'
  BY DEF Ownership, Held
<1>5. (\A s \in Sources : Progress(s)' /\ JoinIsLast(s)') /\ Submission'
  BY QueuesUnchanged
<1>6. NeverMisaligned' /\ PhasesAligned' /\ SendErrorSurfaced'
  BY DEF NeverMisaligned, PhasesAligned, SendErrorSurfaced
<1>7. SuccessMeansAllJoined'
  BY DEF SuccessMeansAllJoined
<1> QED BY <1>1, <1>2, <1>3, <1>4, <1>5, <1>6, <1>7

(* An init task only changes the source it initialises. *)
LEMMA InitTaskPreserves ==
    ASSUME IInv, NEW s \in Sources, InitTask(s) \/ InitTaskFails(s) PROVE IInv'
<1> USE DEF IInv
<1>0. PICK state \in {"ok", "failed", "panicked"} :
          InitTaskEnds(s, state, main = "wait_init")
  BY DEF InitTask, InitTaskFails
<1>1. UNCHANGED <<runtimeVars, handleVars, joinSent, mainVars, readerVars, childVars>>
  BY <1>0 DEF InitTask, InitTaskFails, InitTaskEnds
<1>2. TypeOK'
  <2> USE DEF TypeOK
  <2>1. RuntimeTypeOK'
    BY <1>0, <1>1 DEF InitTaskEnds, RuntimeTypeOK, Owners
  <2>2. OrchestratorTypeOK'
    BY <1>0, <1>1 DEF InitTaskEnds, OrchestratorTypeOK, InitTaskState
  <2> QED BY <1>1, <2>1, <2>2
<1>3. Control' /\ Handles'
  BY <1>1 DEF Control, Handles, Running
<1>4. \A t \in Sources : Held(t)'
  <2> USE DEF InitTaskEnds, TypeOK, RuntimeTypeOK, OrchestratorTypeOK, Held
  <2>1. Held(s)' BY <1>0, <1>1 DEF Live
  <2>2. ASSUME NEW t \in Sources \ {s} PROVE Held(t)'
    BY <1>0, <1>1
  <2> QED BY <2>1, <2>2
<1>5. Ownership'
  <2>1. owner[s] = "init_task"
    BY <1>0 DEF InitTaskEnds, Held
  <2>2. /\ owner'[s] \in {"init_task", "dropped"}
        /\ main = "wait_init" =>
              owner'[s] = "init_task" \/ initTask'[s] = "panicked"
    BY <1>0, <2>1 DEF InitTaskEnds, TypeOK, RuntimeTypeOK, OrchestratorTypeOK
  <2>3. \A t \in Sources \ {s} : owner'[t] = owner[t] /\ initTask'[t] = initTask[t]
    BY <1>0 DEF InitTaskEnds, TypeOK, RuntimeTypeOK, OrchestratorTypeOK
  <2> QED BY <1>1, <2>1, <2>2, <2>3 DEF Ownership
<1>6. (\A t \in Sources : Progress(t)' /\ JoinIsLast(t)') /\ Submission'
  BY <1>1, QueuesUnchanged
<1>7. NeverMisaligned' /\ PhasesAligned' /\ SendErrorSurfaced' /\ SuccessMeansAllJoined'
  BY <1>1 DEF NeverMisaligned, PhasesAligned, SendErrorSurfaced, SuccessMeansAllJoined
<1> QED BY <1>2, <1>3, <1>4, <1>5, <1>6, <1>7

-----------------------------------------------------------------------------
(* The steps of a worker *)

WorkerOnly ==
    UNCHANGED <<handleVars, orchestratorVars, mainVars, readerVars, childVars>>

(* What no step of a live worker can disturb. *)
LEMMA WorkerFrame ==
    ASSUME IInv, NEW s \in Sources, worker[s] \in Live, WorkerOnly
    PROVE  /\ Control' /\ NeverMisaligned' /\ SendErrorSurfaced'
           /\ SuccessMeansAllJoined' /\ PhasesAligned'
<1> USE DEF IInv, WorkerOnly
<1>1. Control' /\ NeverMisaligned' /\ SendErrorSurfaced'
  BY DEF Control, NeverMisaligned, SendErrorSurfaced
<1>2. ~ (main = "idle" /\ outcome = "ok")
  BY DEF SuccessMeansAllJoined, Live
<1> QED BY <1>1, <1>2 DEF SuccessMeansAllJoined, PhasesAligned

(* A worker ends: well after to_metrics, or with an error or a panic. *)
LEMMA EndWorkerPreserves ==
    ASSUME IInv, NEW s \in Sources, NEW state,
           \/ worker[s] = "convert" /\ state = "done"
           \/ worker[s] \in Live /\ state \in {"failed", "panicked"},
           EndWorker(s, state), UNCHANGED <<measured, phases, initialised>>,
           WorkerOnly
    PROVE  IInv'
<1> USE DEF IInv, WorkerOnly
<1>1. /\ worker[s] \in Live /\ state \in {"done", "failed", "panicked"}
      /\ worker'[s] = state /\ queue'[s] = <<>>
      /\ owner'[s] \in {"worker", "dropped"}
      /\ owner'[s] = "worker" => state = "done"
  BY DEF EndWorker, Live, TypeOK, RuntimeTypeOK
<1>2. \A t \in Sources \ {s} :
         worker'[t] = worker[t] /\ queue'[t] = queue[t] /\ owner'[t] = owner[t]
  BY DEF EndWorker, TypeOK, RuntimeTypeOK
<1>3. TypeOK'
  <2> USE DEF TypeOK, RuntimeTypeOK, EndWorker
  <2>1. queue' \in [Sources -> Seq(SourceEvent)] OBVIOUS
  <2>2. \A t \in Sources : Len(queue'[t]) <= ChannelSize
    BY <1>1, <1>2, ChannelAssumption
  <2>3. worker' \in [Sources -> WorkerState] BY <1>1 DEF WorkerState
  <2>4. owner' \in [Sources -> Owners] BY DEF Owners
  <2> QED BY <2>1, <2>2, <2>3, <2>4 DEF OrchestratorTypeOK
<1>4. Handles'
  BY <1>1, <1>2 DEF Handles, Running, Live
<1>5. Ownership' /\ \A t \in Sources : Held(t)'
  <2>1. owner[s] = "worker" BY <1>1 DEF Held
  <2>2. Ownership' BY <1>1, <1>2, <2>1 DEF Ownership
  <2>3. Held(s)'
    BY <1>1, <2>1 DEF Held, Live
  <2>4. ASSUME NEW t \in Sources \ {s} PROVE Held(t)' BY <1>2 DEF Held
  <2> QED BY <2>2, <2>3, <2>4
<1>6. ASSUME NEW t \in Sources PROVE Progress(t)' /\ JoinIsLast(t)'
  <2>1. CASE t = s BY <1>1, <2>1 DEF Progress, JoinIsLast, Live
  <2>2. CASE t # s BY <1>2, <2>2 DEF Progress, JoinIsLast, Joining, Received
  <2> QED BY <2>1, <2>2
<1>7. Submission'
  <2> USE DEF Submission, Received, Base, Joining
  <2>1. CASE readerResult = "SendError" BY <1>1, <1>2, <2>1 DEF Live
  <2>2. CASE readerResult # "SendError"
    <3>1. ASSUME NEW t \in joinHandles, worker'[t] \notin {"failed", "panicked"}
          PROVE  /\ Received(t)' + Len(queue'[t]) = Received(t) + Len(queue[t])
                 /\ worker[t] \notin {"failed", "panicked"}
      <4>1. t \in Sources BY DEF TypeOK, RuntimeTypeOK
      <4>2. CASE t = s
        <5>1. state = "done" /\ worker[s] = "convert" BY <1>1, <3>1, <4>2
        <5> QED BY <1>1, <4>2, <5>1 DEF Progress
      <4>3. CASE t # s BY <1>2, <3>1, <4>1, <4>3
      <4> QED BY <4>2, <4>3
    <3>2. /\ UNCHANGED <<Base, cursor, joinHandles, readerResult>>
          /\ \A t \in joinHandles : Joining(t)' = Joining(t)
      OBVIOUS
    <3>3. Submission OBVIOUS
    <3> HIDE DEF IInv, Received, Base, Joining, WorkerOnly
    <3> QED BY <2>2, <3>1, <3>2, <3>3
  <2> QED BY <2>1, <2>2
<1> QED BY <1>1, <1>3, <1>4, <1>5, <1>6, <1>7, WorkerFrame

(* A worker that goes on takes one event into account, or none. *)
LEMMA WorkerMoves ==
    ASSUME IInv, TypeOK', NEW s \in Sources, worker[s] \in Live, worker'[s] \in Live,
           \A t \in Sources \ {s} :
              /\ queue'[t] = queue[t] /\ worker'[t] = worker[t]
              /\ measured'[t] = measured[t] /\ phases'[t] = phases[t]
              /\ initialised'[t] = initialised[t],
           owner' = owner, WorkerOnly,
           worker'[s] = "convert" => ~ initialised'[s],
           s \in senders \ joinSent => worker'[s] \in {"recv", "measure", "retrieve"},
           s \in joinHandles =>
              Received(s)' + Len(queue'[s]) = Received(s) + Len(queue[s]),
           Progress(s)', JoinIsLast(s)'
    PROVE  IInv'
<1> USE DEF IInv, WorkerOnly
<1>1. Handles'
  BY DEF Handles, Running, Live
<1>2. Ownership' /\ \A t \in Sources : Held(t)'
  BY DEF Ownership, Held, Live
<1>3. ASSUME NEW t \in Sources PROVE Progress(t)' /\ JoinIsLast(t)'
  <2>1. CASE t = s BY <2>1
  <2>2. CASE t # s
    <3>1. UNCHANGED <<queue[t], worker[t], measured[t], phases[t]>> BY <2>2
    <3>2. Received(t)' = Received(t) BY <3>1 DEF Received
    <3>3. Progress(t)' BY <3>1, <3>2 DEF Progress
    <3>4. JoinIsLast(t)' BY <3>1 DEF JoinIsLast, Joining
    <3> QED BY <3>3, <3>4
  <2> QED BY <2>1, <2>2
<1>4. Submission'
  <2>1. joinHandles \subseteq Sources BY DEF TypeOK, RuntimeTypeOK
  <2>2. CASE readerResult = "SendError" BY <2>2 DEF Submission, Live
  <2>3. ASSUME NEW t \in joinHandles, t # s
        PROVE  Received(t)' = Received(t) /\ queue'[t] = queue[t] /\ worker'[t] = worker[t]
    BY <2>1, <2>3 DEF Received
  <2>4. UNCHANGED <<Base, cursor>> /\ \A t \in joinHandles : Joining(t)' = Joining(t)
    BY DEF Base, Joining
  <2>5. worker[s] \notin {"failed", "panicked"} BY DEF Live
  <2>6. CASE readerResult # "SendError"
    BY <2>3, <2>4, <2>5, <2>6 DEF Submission
  <2> QED BY <2>2, <2>6
<1> QED BY <1>1, <1>2, <1>3, <1>4, WorkerFrame

(* A worker that finds its channel closed goes to join its source: that *)
(* happens only when nobody holds its join handle any more.             *)
LEMMA RecvClosedPreserves ==
    ASSUME IInv, NEW s \in Sources, RecvClosed(s), WorkerOnly PROVE IInv'
<1> USE DEF IInv, RecvClosed
<1>1. TypeOK'
  <2>1. worker' \in [Sources -> WorkerState]
    BY DEF TypeOK, RuntimeTypeOK, WorkerState
  <2> QED BY <2>1 DEF TypeOK, RuntimeTypeOK, OrchestratorTypeOK, WorkerOnly
<1>2. s \notin joinHandles
  BY DEF Handles, JoinIsLast, Joining, Running, TypeOK, RuntimeTypeOK, MainState
<1>3. Progress(s)' /\ JoinIsLast(s)'
  BY DEF Progress, JoinIsLast, TypeOK, RuntimeTypeOK
<1>4. worker[s] \in Live /\ worker'[s] = "join"
  BY DEF TypeOK, RuntimeTypeOK, Live
<1>5. \A t \in Sources \ {s} : worker'[t] = worker[t]
  BY DEF TypeOK, RuntimeTypeOK
<1> QED BY <1>1, <1>2, <1>3, <1>4, <1>5, WorkerMoves DEF Live

(* measure(): one more snapshot, the event is now counted by it. *)
LEMMA MeasureSourcePreserves ==
    ASSUME IInv, NEW s \in Sources, MeasureSource(s), WorkerOnly PROVE IInv'
<1> USE DEF IInv, MeasureSource
<1>1. TypeOK'
  <2>1. worker' \in [Sources -> WorkerState] /\ measured' \in [Sources -> Nat]
    BY DEF TypeOK, RuntimeTypeOK, WorkerState
  <2> QED BY <2>1 DEF TypeOK, RuntimeTypeOK, OrchestratorTypeOK, WorkerOnly
<1>2. /\ worker[s] = "measure" /\ worker'[s] = "recv"
      /\ measured'[s] = measured[s] + 1 /\ measured[s] \in Nat
      /\ phases[s] \in Seq(Nat) /\ Len(phases[s]) \in Nat
      /\ phases'[s] = phases[s] /\ queue'[s] = queue[s]
  BY DEF TypeOK, RuntimeTypeOK
<1>3. Received(s)' = Received(s)
  <2> HIDE DEF MeasureSource, IInv
  <2> QED BY <1>2 DEF Received
<1>4. Progress(s)'
  BY <1>2, <1>3 DEF Progress, WorkerOnly
<1>5. JoinIsLast(s)'
  BY <1>2 DEF JoinIsLast, Joining, WorkerOnly
<1>6. \A t \in Sources \ {s} : worker'[t] = worker[t] /\ measured'[t] = measured[t]
  BY DEF TypeOK, RuntimeTypeOK
<1> QED BY <1>1, <1>2, <1>3, <1>4, <1>5, <1>6, WorkerMoves DEF Live

(* join() of a source undoes its init(). *)
LEMMA JoinSourcePreserves ==
    ASSUME IInv, NEW s \in Sources, JoinSource(s), WorkerOnly PROVE IInv'
<1> USE DEF IInv, JoinSource
<1>1. TypeOK'
  <2>1. worker' \in [Sources -> WorkerState] /\ initialised' \in [Sources -> BOOLEAN]
    BY DEF TypeOK, RuntimeTypeOK, WorkerState
  <2> QED BY <2>1 DEF TypeOK, RuntimeTypeOK, OrchestratorTypeOK, WorkerOnly
<1>2. /\ worker[s] = "join" /\ worker'[s] = "convert" /\ ~ initialised'[s]
  BY DEF TypeOK, RuntimeTypeOK
<1>3. Received(s)' = Received(s)
  BY <1>2 DEF Received
<1>4. Progress(s)' /\ JoinIsLast(s)'
  BY <1>2, <1>3 DEF Progress, JoinIsLast
<1>5. \A t \in Sources \ {s} :
         worker'[t] = worker[t] /\ initialised'[t] = initialised[t]
  BY DEF TypeOK, RuntimeTypeOK
<1>6. s \notin senders \ joinSent
  BY <1>2 DEF Handles
<1> QED BY <1>1, <1>2, <1>3, <1>4, <1>5, <1>6, WorkerMoves DEF Live

(* retrieve(): the phase that is closed is numbered by its last snapshot. *)
LEMMA InitNewPhasePreserves ==
    ASSUME IInv, NEW s \in Sources, InitNewPhase(s), WorkerOnly PROVE IInv'
<1> USE DEF IInv, InitNewPhase
<1>1. TypeOK'
  <2>1. worker' \in [Sources -> WorkerState] /\ phases' \in [Sources -> Seq(Nat)]
    BY DEF TypeOK, RuntimeTypeOK, WorkerState
  <2> QED BY <2>1 DEF TypeOK, RuntimeTypeOK, OrchestratorTypeOK, WorkerOnly
<1>2. /\ worker[s] = "retrieve" /\ worker'[s] = "recv"
      /\ phases'[s] = Append(phases[s], measured[s]) /\ measured[s] \in Nat
      /\ phases[s] \in Seq(Nat) /\ Len(phases[s]) \in Nat
      /\ measured'[s] = measured[s] /\ queue'[s] = queue[s]
  BY DEF TypeOK, RuntimeTypeOK
<1>3. /\ Len(phases'[s]) = Len(phases[s]) + 1
      /\ phases'[s][Len(phases[s]) + 1] = measured[s]
      /\ \A k \in 1 .. Len(phases[s]) : phases'[s][k] = phases[s][k]
  BY <1>2
<1>4. Received(s)' = Received(s)
  <2> HIDE DEF InitNewPhase, IInv
  <2>1. Received(s) = measured[s] + Len(phases[s]) + 1
    BY <1>2 DEF Received
  <2>2. Received(s)' = measured[s] + Len(phases'[s])
    BY <1>2, <1>3 DEF Received
  <2>3. /\ Len(phases'[s]) = Len(phases[s]) + 1
        /\ measured[s] \in Nat /\ Len(phases[s]) \in Nat
    BY <1>2, <1>3
  <2> QED BY <2>1, <2>2, <2>3
<1>5. Progress(s)'
  <2>1. Progress(s) OBVIOUS
  <2> HIDE DEF InitNewPhase, IInv
  <2> QED BY <1>2, <1>3, <1>4, <2>1 DEF Progress, WorkerOnly, handleVars
<1>6. JoinIsLast(s)'
  BY <1>2 DEF JoinIsLast, Joining, WorkerOnly
<1>7. \A t \in Sources \ {s} : worker'[t] = worker[t] /\ phases'[t] = phases[t]
  BY DEF TypeOK, RuntimeTypeOK
<1> QED BY <1>1, <1>2, <1>4, <1>5, <1>6, <1>7, WorkerMoves DEF Live

(* The sequence of events: Measure, then Measure and NewPhase in turn. *)
LEMMA KindOfEvent ==
    ASSUME NEW n \in Nat
    PROVE  /\ Kind(1) = Measure
           /\ Kind(2 * n + 2) = Measure
           /\ Kind(2 * n + 3) = NewPhase
BY DEF Kind

(* The position of the last element once the first was removed. *)
LEMMA LastPosition ==
    ASSUME NEW n \in Nat \ {0}, n # 1 PROVE n - 1 \in 1 .. n - 1
OBVIOUS

(* receiver.recv(): the event received is the next of the sequence. *)
LEMMA RecvEventPreserves ==
    ASSUME IInv, NEW s \in Sources, RecvEvent(s), WorkerOnly PROVE IInv'
<1> DEFINE q == queue[s]
           n == Len(phases[s])
<1> USE DEF IInv
<1>1. /\ worker[s] = "recv" /\ measured[s] \in Nat /\ n \in Nat
      /\ Len(q) \in Nat \ {0} /\ q[1] \in SourceEvent
  BY DEF RecvEvent, TypeOK, RuntimeTypeOK
<1>2. /\ Len(queue'[s]) = Len(q) - 1
      /\ queue'[s] = <<>> <=> Len(q) = 1
      /\ \A j \in 1 .. Len(q) - 1 : queue'[s][j] = q[j + 1]
  <2>1. /\ queue'[s] = Tail(q) /\ q # <<>> /\ q \in Seq(SourceEvent)
    BY DEF RecvEvent, TypeOK, RuntimeTypeOK
  <2>2. /\ Tail(q) \in Seq(SourceEvent) /\ Len(Tail(q)) = Len(q) - 1
        /\ \A j \in 1 .. Len(Tail(q)) : Tail(q)[j] = q[j + 1]
    BY <2>1, HeadTailProperties
  <2>3. Tail(q) = <<>> <=> Len(Tail(q)) = 0
    BY <2>2, EmptySeq
  <2> HIDE DEF q
  <2> QED BY <1>1, <2>1, <2>2, <2>3
<1>3. \/ q[1] = Measure /\ worker'[s] = "measure"
      \/ q[1] = NewPhase /\ worker'[s] = "retrieve"
      \/ q[1] = JoinWorker /\ worker'[s] = "join"
  BY <1>1 DEF RecvEvent, TypeOK, RuntimeTypeOK, SourceEvent, Measure, NewPhase, JoinWorker
<1>4. /\ \A t \in Sources \ {s} : queue'[t] = queue[t] /\ worker'[t] = worker[t]
      /\ UNCHANGED <<measured, phases, sourceVars>>
  BY DEF RecvEvent, TypeOK, RuntimeTypeOK
<1>5. TypeOK'
  <2>1. queue' \in [Sources -> Seq(SourceEvent)]
    BY DEF RecvEvent, TypeOK, RuntimeTypeOK
  <2>2. ASSUME NEW t \in Sources PROVE Len(queue'[t]) <= ChannelSize
    <3>1. Len(queue[t]) <= ChannelSize BY DEF TypeOK, RuntimeTypeOK
    <3>2. Len(q) - 1 <= Len(q) BY <1>1
    <3>3. CASE t = s BY <1>2, <3>1, <3>2, <3>3, <1>1, ChannelAssumption
    <3>4. CASE t # s BY <1>4, <3>1, <3>4
    <3> QED BY <3>3, <3>4
  <2>3. worker' \in [Sources -> WorkerState]
    BY <1>3 DEF RecvEvent, TypeOK, RuntimeTypeOK, WorkerState
  <2> QED BY <1>4, <2>1, <2>2, <2>3
          DEF TypeOK, RuntimeTypeOK, OrchestratorTypeOK, WorkerOnly
<1>6. Received(s) = measured[s] + n /\ Received(s)' = Received(s) + 1
  BY <1>1, <1>3, <1>4 DEF Received
<1>7. \/ q[1] = JoinWorker /\ Len(q) = 1 /\ (s \in joinSent \/ s \notin senders)
      \/ q[1] # JoinWorker /\ q[1] = Kind(measured[s] + n + 1)
  <2>1. Progress(s) /\ 1 \in 1 .. Len(q) BY <1>1
  <2> HIDE DEF IInv
  <2> QED BY <1>1, <1>6, <2>1 DEF Progress
<1>8. /\ worker'[s] = "measure" => measured[s] # n + 2
      /\ worker'[s] = "retrieve" => measured[s] = n + 2
  <2>1. \/ measured[s] = 0 /\ n = 0 /\ measured[s] + n + 1 = 1
        \/ measured[s] = n + 1 /\ measured[s] + n + 1 = 2 * n + 2
        \/ measured[s] = n + 2 /\ measured[s] + n + 1 = 2 * n + 3
    BY <1>1 DEF Progress
  <2> QED BY <1>1, <1>3, <1>7, <2>1, KindOfEvent DEF Measure, NewPhase, JoinWorker
<1>9. Progress(s)'
  <2>1. ASSUME NEW j \in 1 .. Len(queue'[s])
        PROVE  IF queue'[s][j] = JoinWorker
               THEN j = Len(queue'[s]) /\ (s \in joinSent \/ s \notin senders)
               ELSE queue'[s][j] = Kind(Received(s)' + j)
    <3>1. j \in Nat /\ j + 1 \in 1 .. Len(q) /\ queue'[s][j] = q[j + 1]
      BY <1>1, <1>2
    <3>2. Received(s)' + j = Received(s) + (j + 1)
      <4>1. Received(s) \in Nat BY <1>1, <1>6
      <4> QED BY <1>6, <3>1, <4>1
    <3> QED BY <1>1, <1>2, <3>1, <3>2 DEF Progress
  <2>2. worker'[s] = "join" => queue'[s] = <<>>
    BY <1>1, <1>2, <1>3, <1>7 DEF Measure, NewPhase, JoinWorker
  <2>3. Progress(s) OBVIOUS
  <2>4. UNCHANGED <<joinSent, senders>> BY DEF WorkerOnly
  <2> HIDE DEF IInv
  <2> QED BY <1>3, <1>4, <1>8, <2>1, <2>2, <2>3, <2>4 DEF Progress
<1>10. JoinIsLast(s)'
  <2>1. ASSUME Joining(s)', worker'[s] # "join"
        PROVE  queue'[s] # <<>> /\ queue'[s][Len(queue'[s])] = JoinWorker
    <3>1. q[Len(q)] = JoinWorker
      BY <1>1, <2>1 DEF JoinIsLast, Joining, WorkerOnly
    <3>2. Len(q) # 1
      BY <1>3, <2>1, <3>1 DEF Measure, NewPhase, JoinWorker
    <3>3. Len(q) - 1 \in 1 .. Len(q) - 1 BY <1>1, <3>2, LastPosition
    <3> QED BY <1>1, <1>2, <3>1, <3>2, <3>3
  <2> QED BY <2>1 DEF JoinIsLast
<1>11. Received(s)' + Len(queue'[s]) = Received(s) + Len(queue[s])
  BY <1>1, <1>2, <1>6
<1>12. s \in senders \ joinSent => worker'[s] \in {"recv", "measure", "retrieve"}
  BY <1>3, <1>7 DEF Measure, NewPhase, JoinWorker
<1>13. worker[s] \in Live /\ worker'[s] \in Live /\ worker'[s] # "convert"
  BY <1>1, <1>3 DEF Live
<1> QED
  BY <1>4, <1>5, <1>9, <1>10, <1>11, <1>12, <1>13, WorkerMoves

(* A step of a source: of its init task or of its worker. *)
LEMMA SourceStepPreserves == ASSUME IInv, SourceStep PROVE IInv'
<1> PICK s \in Sources :
       InitTask(s) \/ InitTaskFails(s) \/ Worker(s) \/ WorkerFailure(s)
  BY DEF SourceStep
<1>1. CASE InitTask(s) \/ InitTaskFails(s)
  BY <1>1, InitTaskPreserves
<1>2. CASE Worker(s)
  <2> USE DEF Worker, RunWorker, WorkerOnly
  <2>1. CASE RecvEvent(s) BY <1>2, <2>1, RecvEventPreserves DEF RecvEvent
  <2>2. CASE RecvClosed(s) BY <1>2, <2>2, RecvClosedPreserves DEF RecvClosed
  <2>3. CASE MeasureSource(s) BY <1>2, <2>3, MeasureSourcePreserves DEF MeasureSource
  <2>4. CASE InitNewPhase(s) BY <1>2, <2>4, InitNewPhasePreserves DEF InitNewPhase
  <2>5. CASE JoinSource(s) BY <1>2, <2>5, JoinSourcePreserves DEF JoinSource
  <2>6. CASE RetrieveResult(s) BY <1>2, <2>6, EndWorkerPreserves DEF RetrieveResult
  <2> QED BY <1>2, <2>1, <2>2, <2>3, <2>4, <2>5, <2>6
<1>3. CASE WorkerFailure(s)
  <2> USE DEF WorkerFailure, RunWorkerFails, MeasureFails, RetrieveFails,
              JoinFails, ConvertFails, WorkerFails
  <2>1. worker[s] \in Live BY <1>3 DEF Live
  <2>2. PICK state \in {"failed", "panicked"} : EndWorker(s, state)
    BY <1>3
  <2>3. WorkerOnly /\ UNCHANGED <<measured, phases, initialised>>
    BY <1>3 DEF WorkerOnly
  <2> QED BY <2>1, <2>2, <2>3, EndWorkerPreserves
<1> QED BY <1>1, <1>2, <1>3

-----------------------------------------------------------------------------
(* The steps that drop the orchestrator *)

(* Dropping the orchestrator detaches what still runs and drops the rest. *)
LEMMA DropOrchestratorPreserves ==
    ASSUME IInv, DropOrchestrator, UNCHANGED <<runtimeVars, initialised, initTask>>
    PROVE  /\ RuntimeTypeOK' /\ OrchestratorTypeOK'
           /\ \A s \in Sources :
                 /\ Held(s)' /\ Progress(s)' /\ JoinIsLast(s)'
                 /\ owner[s] # "profiler" => owner'[s] # "profiler"
           /\ readerResult' # "SendError" \/ readerResult' = readerResult => Submission'
<1> USE DEF IInv, DropOrchestrator, Reown
<1>1. RuntimeTypeOK' /\ OrchestratorTypeOK'
  BY DEF TypeOK, RuntimeTypeOK, OrchestratorTypeOK, Owners
<1>2. ASSUME NEW s \in Sources
      PROVE  Held(s)' /\ (owner[s] # "profiler" => owner'[s] # "profiler")
  BY DEF Held, Live, Ended
<1>3. ASSUME NEW s \in Sources PROVE Progress(s)'
  <2>1. Received(s)' = Received(s) BY DEF Received
  <2> QED BY <2>1 DEF Progress
<1>4. ASSUME NEW s \in Sources PROVE JoinIsLast(s)'
  BY DEF JoinIsLast, Joining
<1>5. readerResult' # "SendError" \/ readerResult' = readerResult => Submission'
  BY DEF Submission
<1> QED BY <1>1, <1>2, <1>3, <1>4, <1>5

(* profile() returns an error after it has taken the sources. *)
LEMMA AbortPreserves ==
    ASSUME IInv, main \notin {"idle", "await_reader"},
           NEW result \in Outcomes \ {"ok", "PhaseMismatch"},
           readerResult = "SendError" => result \in SourceErrors,
           Abort(result),
           UNCHANGED <<runtimeVars, initialised, initTask, readerVars, childVars>>
    PROVE  IInv'
<1> USE DEF IInv
<1>1. /\ main' = "idle" /\ outcome' = result
      /\ joinSent' = {} /\ senders' = {} /\ joinHandles' = {}
  BY DEF DropOrchestrator
<1>2. /\ RuntimeTypeOK' /\ OrchestratorTypeOK'
      /\ \A s \in Sources :
            /\ Held(s)' /\ Progress(s)' /\ JoinIsLast(s)'
            /\ owner[s] # "profiler" => owner'[s] # "profiler"
      /\ Submission'
  BY DropOrchestratorPreserves
<1>3. TypeOK'
  BY <1>1, <1>2 DEF TypeOK, MainState
<1>4. Control'
  BY <1>1 DEF Control
<1>5. Handles'
  BY <1>1 DEF Handles, Running
<1>6. Ownership'
  BY <1>1, <1>2 DEF Ownership
<1>7. NeverMisaligned' /\ PhasesAligned' /\ SendErrorSurfaced' /\ SuccessMeansAllJoined'
  BY <1>1 DEF NeverMisaligned, PhasesAligned, SendErrorSurfaced, SuccessMeansAllJoined
<1> QED BY <1>2, <1>3, <1>4, <1>5, <1>6, <1>7

(* A panic of the reader thread drops the orchestrator it owns. *)
LEMMA ReaderPanicsPreserves == ASSUME IInv, ReaderPanics PROVE IInv'
<1> USE DEF IInv, ReaderPanics
<1>1. /\ joinSent' = {} /\ senders' = {} /\ joinHandles' = {}
      /\ reader' = "done" /\ readerResult' = "panicked"
      /\ main = "await_reader"
  BY DEF DropOrchestrator, Control
<1>2. /\ RuntimeTypeOK' /\ OrchestratorTypeOK'
      /\ \A s \in Sources :
            /\ Held(s)' /\ Progress(s)' /\ JoinIsLast(s)'
            /\ owner[s] # "profiler" => owner'[s] # "profiler"
      /\ Submission'
  BY <1>1, DropOrchestratorPreserves
<1>3. TypeOK'
  BY <1>1, <1>2 DEF TypeOK, ReaderState
<1>4. Control'
  BY <1>1 DEF Control
<1>5. Handles'
  BY <1>1 DEF Handles, Running
<1>6. Ownership'
  BY <1>1, <1>2 DEF Ownership
<1>7. NeverMisaligned' /\ PhasesAligned' /\ SendErrorSurfaced' /\ SuccessMeansAllJoined'
  BY <1>1 DEF NeverMisaligned, PhasesAligned, SendErrorSurfaced, SuccessMeansAllJoined
<1> QED BY <1>2, <1>3, <1>4, <1>5, <1>6, <1>7

-----------------------------------------------------------------------------
(* The reader thread *)

(* A step of the reader that sends nothing leaves Base as it is. *)
LEMMA ReaderAdvances ==
    ASSUME IInv, TypeOK', Control', reader \notin {"none", "done"},
           reader' # "none", readerResult' # "panicked",
           UNCHANGED <<runtimeVars, sourceVars, handleVars, orchestratorVars,
                       mainVars, cursor>>,
           readerResult' # "SendError" => Base' = Base,
           readerResult' = "SendError" =>
              \E s \in Sources : worker[s] \in {"failed", "panicked"}
    PROVE  IInv'
<1> USE DEF IInv
<1>1. main = "await_reader" /\ readerResult = "none"
  BY DEF Control
<1>2. Handles'
  BY <1>1 DEF Handles, Running
<1>3. Ownership' /\ \A s \in Sources : Held(s)'
  BY DEF Ownership, Held
<1>4. ASSUME NEW s \in Sources PROVE Progress(s)' /\ JoinIsLast(s)'
  <2>1. Received(s)' = Received(s) BY DEF Received
  <2> QED BY <2>1 DEF Progress, JoinIsLast, Joining
<1>5. Submission'
  <2>1. \A s : Received(s)' = Received(s) /\ Joining(s)' = Joining(s)
    BY DEF Received, Joining
  <2> QED BY <1>1, <2>1 DEF Submission
<1>6. NeverMisaligned' /\ PhasesAligned' /\ SendErrorSurfaced' /\ SuccessMeansAllJoined'
  BY <1>1 DEF NeverMisaligned, PhasesAligned, SendErrorSurfaced, SuccessMeansAllJoined
<1> QED BY <1>2, <1>3, <1>4, <1>5, <1>6

(* The steps of the reader that send nothing. *)
LEMMA ReaderMovesPreserves ==
    ASSUME IInv,
           \/ CreateSink \/ CreateSinkFails \/ ResumeProcess \/ ResumeFails
           \/ ReadLine \/ ReadToken \/ WriteFails \/ ReadFails \/ ReadEof
           \/ FlushFails \/ SendEventFails
    PROVE  IInv'
<1> USE DEF IInv, CreateSink, CreateSinkFails, ResumeProcess, ResumeFails,
            ReadLine, ReadToken, WriteFails, ReadFails, ReadEof, FlushFails,
            SendEventFails, EndOfFile, Broadcasting
<1>1. UNCHANGED <<runtimeVars, sourceVars, handleVars, orchestratorVars, mainVars, cursor>>
  OBVIOUS
<1>2. /\ reader \notin {"none", "done"} /\ reader' # "none"
      /\ readerResult' # "panicked" /\ readerResult = "none"
      /\ main = "await_reader"
  BY DEF Control
<1>3. TypeOK'
  <2> USE DEF TypeOK
  <2>1. RuntimeTypeOK' /\ OrchestratorTypeOK'
    BY <1>1 DEF RuntimeTypeOK, OrchestratorTypeOK
  <2>2. /\ reader' \in ReaderState
        /\ readerResult' \in ReaderErrors \cup {"none", "ok", "panicked"}
    BY DEF ReaderState, ReaderErrors
  <2>3. detected' \in Nat /\ unread' \in 0 .. written'
    OBVIOUS
  <2>4. child' \in ChildState /\ stdoutOpen' = stdoutOpen /\ written' = written
    BY DEF ChildState
  <2> QED BY <1>1, <2>1, <2>2, <2>3, <2>4
<1>4. Control'
  BY <1>1, <1>2 DEF Control, ReaderErrors, TypeOK, MainState
<1>5. readerResult' # "SendError" => Base' = Base
  BY <1>2 DEF Base, Control, TypeOK
<1>6. readerResult' = "SendError" =>
         \E s \in Sources : worker[s] \in {"failed", "panicked"}
  <2>1. readerResult' = "SendError" => cursor \in senders /\ Ended(cursor)
    BY <1>2 DEF BlockingSendFails
  <2>2. joinSent = {} BY <1>2 DEF Control
  <2> QED BY <2>1, <2>2 DEF Handles, Ended, TypeOK, RuntimeTypeOK
<1> HIDE DEF IInv
<1> QED BY <1>1, <1>2, <1>3, <1>4, <1>5, <1>6, ReaderAdvances

(* One blocking_send of a broadcast: the event sent is the next one for that *)
(* source, the last send of a broadcast completes the boundary for all.      *)
LEMMA SendEventPreserves == ASSUME IInv, SendEvent PROVE IInv'
<1> USE DEF IInv
<1>1. /\ main = "await_reader" /\ readerResult = "none" /\ joinSent = {}
      /\ reader \in Broadcasting /\ cursor \in Sources /\ cursor \in 1 .. N
      /\ cursor \in senders /\ joinHandles = Sources /\ senders = Sources
  BY DEF SendEvent, BlockingSend, Control, Broadcasting, TypeOK, RuntimeTypeOK,
         Handles, Running
<1>2. /\ UNCHANGED <<worker, measured, phases, sourceVars, handleVars,
                     orchestratorVars, mainVars, childVars>>
      /\ queue' = [queue EXCEPT ![cursor] = Append(@, BroadcastEvent)]
      /\ Len(queue[cursor]) < ChannelSize
  BY DEF SendEvent, BlockingSend, CanSend, Enqueue
<1>3. \/ /\ cursor < N /\ cursor' = cursor + 1
         /\ UNCHANGED <<reader, detected, readerResult>>
      \/ /\ cursor = N /\ cursor' = 1 /\ reader' = AfterBroadcast
         /\ detected' = IF BroadcastEvent = NewPhase THEN detected + 1 ELSE detected
         /\ readerResult' = IF reader = "last_phase" THEN "ok" ELSE readerResult
  BY <1>1, NAssumption DEF SendEvent
<1>4. /\ queue[cursor] \in Seq(SourceEvent) /\ BroadcastEvent \in SourceEvent
      /\ BroadcastEvent # JoinWorker /\ Len(queue[cursor]) \in Nat
  BY <1>1 DEF TypeOK, RuntimeTypeOK, BroadcastEvent, SourceEvent, Measure,
              NewPhase, JoinWorker
<1>5. /\ \A s \in Sources \ {cursor} : queue'[s] = queue[s]
      /\ queue'[cursor] = Append(queue[cursor], BroadcastEvent)
  BY <1>1, <1>2 DEF TypeOK, RuntimeTypeOK
<1>6. /\ Len(queue'[cursor]) = Len(queue[cursor]) + 1
      /\ queue'[cursor][Len(queue[cursor]) + 1] = BroadcastEvent
      /\ \A j \in 1 .. Len(queue[cursor]) : queue'[cursor][j] = queue[cursor][j]
      /\ queue'[cursor] \in Seq(SourceEvent)
  BY <1>4, <1>5, AppendProperties
<1>7. TypeOK'
  <2>1. queue' \in [Sources -> Seq(SourceEvent)]
    BY <1>1, <1>2, <1>4 DEF TypeOK, RuntimeTypeOK
  <2>2. \A s \in Sources : Len(queue'[s]) <= ChannelSize
    <3>1. Len(queue'[cursor]) <= ChannelSize
      BY <1>2, <1>4, <1>6, ChannelAssumption
    <3> QED BY <1>5, <3>1 DEF TypeOK, RuntimeTypeOK
  <2>3. /\ reader' \in ReaderState /\ cursor' \in 1 .. N /\ detected' \in Nat
        /\ readerResult' \in {"none", "ok"}
    BY <1>1, <1>3, NAssumption DEF TypeOK, ReaderState, AfterBroadcast, Broadcasting
  <2> QED BY <1>2, <2>1, <2>2, <2>3 DEF TypeOK, RuntimeTypeOK, OrchestratorTypeOK
<1>8. Control'
  BY <1>1, <1>2, <1>3, NAssumption
     DEF Control, AfterBroadcast, BroadcastEvent, Broadcasting, TypeOK,
         Measure, NewPhase, ReaderErrors, MainState
<1>9. Handles'
  BY <1>1, <1>2, <1>3 DEF Handles, Running
<1>10. Ownership' /\ \A s \in Sources : Held(s)'
  BY <1>2 DEF Ownership, Held
<1>11. /\ Base \in Nat /\ BroadcastEvent = Kind(Base + 1)
       /\ Base' = IF cursor = N THEN Base + 1 ELSE Base
  <2> USE DEF Base, AfterBroadcast, BroadcastEvent, Measure, NewPhase
  <2>1. detected \in Nat BY DEF TypeOK
  <2>2. CASE reader = "first_measure"
    BY <1>1, <1>3, <2>2, KindOfEvent
  <2>3. CASE reader \in {"measure", "last_measure"}
    <3>1. detected - 1 \in Nat /\ Base + 1 = 2 * (detected - 1) + 2
      BY <2>1, <2>3 DEF Control
    <3> QED BY <1>1, <1>3, <2>1, <2>3, <3>1, KindOfEvent
  <2>4. CASE reader \in {"new_phase", "last_phase"}
    <3>1. detected - 1 \in Nat /\ Base + 1 = 2 * (detected - 1) + 3
      BY <2>1, <2>4 DEF Control
    <3> QED BY <1>1, <1>3, <2>1, <2>4, <3>1, KindOfEvent
  <2> QED BY <1>1, <2>2, <2>3, <2>4 DEF Broadcasting
<1>12. /\ \A s \in Sources : Received(s)' = Received(s) /\ Joining(s)' = Joining(s)
       /\ ~ Joining(cursor) /\ Received(cursor) \in Nat
  BY <1>1, <1>2 DEF Received, Joining, TypeOK, RuntimeTypeOK
<1>13. worker[cursor] \in {"recv", "measure", "retrieve"}
  BY <1>1 DEF Handles, SendEvent, BlockingSend, CanSend, Ended
<1>14. Received(cursor) + Len(queue[cursor]) = Base
  BY <1>1, <1>11, <1>12, <1>13 DEF Submission
<1>15. ASSUME NEW s \in Sources PROVE Progress(s)' /\ JoinIsLast(s)'
  <2>1. CASE s # cursor
    BY <1>2, <1>5, <1>12, <2>1 DEF Progress, JoinIsLast
  <2>2. CASE s = cursor
    <3>1. ASSUME NEW j \in 1 .. Len(queue'[cursor])
          PROVE  /\ queue'[cursor][j] # JoinWorker
                 /\ queue'[cursor][j] = Kind(Received(cursor) + j)
      <4>1. CASE j \in 1 .. Len(queue[cursor])
        <5>1. Progress(cursor) BY <1>1
        <5> HIDE DEF IInv
        <5> QED BY <1>1, <1>6, <4>1, <5>1 DEF Progress
      <4>2. CASE j = Len(queue[cursor]) + 1
        BY <1>4, <1>6, <1>11, <1>12, <1>14, <4>2
      <4> QED BY <1>4, <1>6, <4>1, <4>2
    <3>2. Progress(s) OBVIOUS
    <3>3. Progress(s)'
      <4> HIDE DEF IInv
      <4> QED BY <1>2, <1>12, <1>13, <2>2, <3>1, <3>2 DEF Progress
    <3>4. JoinIsLast(s)' BY <1>12, <2>2 DEF JoinIsLast
    <3> QED BY <3>3, <3>4
  <2> QED BY <2>1, <2>2
<1>16. Submission'
  <2>1. readerResult' # "SendError" BY <1>1, <1>3
  <2>2. ASSUME NEW s \in Sources, worker[s] \notin {"failed", "panicked"}
        PROVE  Received(s) + Len(queue'[s]) = Base' + (IF s < cursor' THEN 1 ELSE 0)
    <3>1. Received(s) + Len(queue[s]) = Base + (IF s < cursor THEN 1 ELSE 0)
      <4>1. Submission OBVIOUS
      <4>2. ~ Joining(s) BY <1>1 DEF Joining
      <4> HIDE DEF IInv
      <4> QED BY <1>1, <1>11, <2>2, <4>1, <4>2 DEF Submission
    <3>2. s \in Nat /\ cursor \in Nat /\ N \in Nat /\ s <= N /\ 1 <= s
      BY <1>1, NAssumption DEF Sources
    <3>3. Received(s) \in Nat /\ Len(queue[s]) \in Nat
      BY DEF Received, TypeOK, RuntimeTypeOK
    <3> HIDE DEF IInv
    <3>4. CASE s = cursor
      <4>1. Len(queue'[s]) = Len(queue[s]) + 1
        BY <1>6, <3>4
      <4>2. Base' + (IF s < cursor' THEN 1 ELSE 0) = Base + 1
        <5>1. CASE cursor = N
          BY <1>3, <1>11, <3>2, <3>4, <5>1
        <5>2. CASE cursor # N
          BY <1>3, <1>11, <3>2, <3>4, <5>2
        <5> QED BY <5>1, <5>2
      <4>3. Received(s) + Len(queue[s]) = Base
        BY <1>14, <3>4
      <4> QED BY <3>3, <4>1, <4>2, <4>3
    <3>5. CASE s # cursor
      <4>1. queue'[s] = queue[s]
        BY <1>5, <3>5
      <4>2. Base' + (IF s < cursor' THEN 1 ELSE 0) = Base + (IF s < cursor THEN 1 ELSE 0)
        <5>1. CASE cursor = N
          BY <1>3, <1>11, <3>2, <3>5, <5>1
        <5>2. CASE cursor # N
          BY <1>3, <1>11, <3>2, <3>5, <5>2
        <5> QED BY <5>1, <5>2
      <4> QED BY <3>1, <4>1, <4>2
    <3> QED BY <3>4, <3>5
  <2>3. \A s \in Sources : ~ Joining(s)' BY <1>1, <1>12 DEF Joining
  <2>4. \A s \in joinHandles' :
           worker'[s] \notin {"failed", "panicked"} =>
              Received(s)' + Len(queue'[s]) =
                 Base' + (IF s < cursor' THEN 1 ELSE 0)
                       + (IF Joining(s)' THEN 1 ELSE 0)
    <3> HIDE DEF IInv
    <3>1. ASSUME NEW s \in Sources
          PROVE  Base' + (IF s < cursor' THEN 1 ELSE 0) \in Nat
      BY <1>11
    <3> QED BY <1>1, <1>2, <1>12, <2>2, <2>3, <3>1
  <2> QED BY <2>1, <2>4 DEF Submission
<1>17. NeverMisaligned' /\ PhasesAligned' /\ SendErrorSurfaced' /\ SuccessMeansAllJoined'
  BY <1>1, <1>2 DEF NeverMisaligned, PhasesAligned, SendErrorSurfaced, SuccessMeansAllJoined
<1> QED BY <1>7, <1>8, <1>9, <1>10, <1>15, <1>16, <1>17

(* Every step of the reader thread preserves the invariant. *)
LEMMA ReaderStepPreserves == ASSUME IInv, ReaderStep PROVE IInv'
BY ReaderMovesPreserves, SendEventPreserves, ReaderPanicsPreserves DEF ReaderStep

-----------------------------------------------------------------------------
(* The caller's task, up to the start of the reader thread *)

(* A call refused before the sources are taken changes nothing else. *)
LEMMA RefusedCallPreserves ==
    ASSUME IInv, InvalidPattern \/ NoSourceConfigured PROVE IInv'
<1> USE DEF IInv, InvalidPattern, NoSourceConfigured
<1>1. /\ UNCHANGED <<runtimeVars, sourceVars, handleVars, orchestratorVars,
                     main, reported, readerVars, childVars>>
      /\ main = "idle" /\ runs' = runs + 1 /\ runs < MaxRuns
      /\ outcome' \in {"InvalidPattern", "NoSourceConfigured"}
  OBVIOUS
<1>2. TypeOK'
  BY <1>1, BoundsAssumption
     DEF TypeOK, RuntimeTypeOK, OrchestratorTypeOK, Outcomes
<1>3. Control' /\ Handles'
  BY <1>1 DEF Control, Handles, Running
<1>4. Ownership' /\ \A s \in Sources : Held(s)'
  BY <1>1 DEF Ownership, Held
<1>5. (\A s \in Sources : Progress(s)' /\ JoinIsLast(s)') /\ Submission'
  BY <1>1, QueuesUnchanged
<1>6. NeverMisaligned' /\ PhasesAligned' /\ SendErrorSurfaced' /\ SuccessMeansAllJoined'
  BY <1>1 DEF NeverMisaligned, PhasesAligned, SendErrorSurfaced, SuccessMeansAllJoined
<1> QED BY <1>2, <1>3, <1>4, <1>5, <1>6

(* profile() takes all the sources, from a profiler that has them all. *)
LEMMA StartProfilePreserves == ASSUME IInv, StartProfile PROVE IInv'
<1> USE DEF IInv
<1>1. /\ main = "idle" /\ main' = "pre_init" /\ outcome' = "none"
      /\ runs' = runs + 1 /\ runs < MaxRuns
      /\ reader' = "none" /\ cursor' = 1 /\ detected' = 0 /\ readerResult' = "none"
      /\ child' = "none" /\ stdoutOpen' = FALSE /\ written' = 0 /\ unread' = 0
      /\ initTask' = [s \in Sources |-> "none"] /\ worker' = [s \in Sources |-> "none"]
      /\ UNCHANGED <<queue, measured, phases, initialised, handleVars, joinSent, reported>>
  BY DEF StartProfile
<1>2. senders = {} /\ joinHandles = {} /\ joinSent = {}
  BY <1>1 DEF Handles, Running, Control
<1>3. \A s \in Sources : owner[s] = "profiler" /\ owner'[s] = "orchestrator"
  BY DEF StartProfile, OwnedBy, Reown, Ownership
<1>4. TypeOK'
  <2>1. owner' \in [Sources -> Owners]
    BY <1>3 DEF StartProfile, Reown, TypeOK, RuntimeTypeOK, Owners
  <2>2. RuntimeTypeOK' /\ OrchestratorTypeOK'
    BY <1>1, <2>1 DEF TypeOK, RuntimeTypeOK, OrchestratorTypeOK, WorkerState,
                      InitTaskState
  <2>3. runs' \in 0 .. MaxRuns /\ written' \in 0 .. MaxLines /\ cursor' \in 1 .. N
    BY <1>1, NAssumption, BoundsAssumption DEF TypeOK
  <2>4. unread' \in 0 .. written' /\ detected' \in Nat BY <1>1
  <2>5. /\ main' \in MainState /\ reader' \in ReaderState /\ child' \in ChildState
        /\ outcome' \in Outcomes /\ stdoutOpen' \in BOOLEAN
        /\ reported' \in Nat /\ readerResult' = "none"
    BY <1>1 DEF TypeOK, MainState, ReaderState, Outcomes, ChildState
  <2> QED BY <2>2, <2>3, <2>4, <2>5 DEF TypeOK
<1>5. Control' /\ Handles'
  BY <1>1, <1>2 DEF Control, Handles, Running, Broadcasting, MainState
<1>6. Ownership' /\ \A s \in Sources : Held(s)'
  BY <1>1, <1>3 DEF Ownership, Held, Live
<1>7. ASSUME NEW s \in Sources PROVE Progress(s)' /\ JoinIsLast(s)'
  <2>1. queue[s] = <<>> /\ worker'[s] = "none"
    BY <1>1, <1>3 DEF Held, Progress
  <2> QED BY <1>1, <1>2, <2>1 DEF Progress, JoinIsLast, Joining
<1>8. Submission'
  BY <1>1, <1>2 DEF Submission
<1>9. NeverMisaligned' /\ PhasesAligned' /\ SendErrorSurfaced' /\ SuccessMeansAllJoined'
  BY <1>1 DEF NeverMisaligned, PhasesAligned, SendErrorSurfaced, SuccessMeansAllJoined
<1> QED BY <1>4, <1>5, <1>6, <1>7, <1>8, <1>9

(* A step from one await of profile() to the next that starts no worker. *)
LEMMA CallerMovesPreserves ==
    ASSUME IInv,
           \/ PreInit \/ SpawnCommand \/ PauseProcess \/ InitSources \/ InitDone
           \/ SpawnReader
    PROVE  IInv'
<1> USE DEF IInv, PreInit, SpawnCommand, PauseProcess, InitSources,
            SpawnInitTasks, InitDone, SpawnReader
<1>1. /\ UNCHANGED <<runtimeVars, initialised, handleVars, joinSent, cursor,
                     detected, readerResult, runs, outcome, reported, written, unread>>
      /\ main \in {"pre_init", "spawn", "pause", "init", "wait_init", "spawn_reader"}
      /\ main' \in {"spawn", "pause", "init", "wait_init", "run", "await_reader"}
      /\ main' = "wait_init" <=> main = "init"
      /\ main' = "run" <=> main = "wait_init"
      /\ reader = "none" /\ readerResult = "none" /\ cursor = 1 /\ detected = 0
      /\ IF main = "spawn_reader"
         THEN main' = "await_reader" /\ reader' = "sink"
         ELSE main' # "await_reader" /\ reader' = "none"
      /\ joinSent = {}
  BY DEF Control, MainState
<1>2. TypeOK'
  <2> USE DEF TypeOK
  <2>1. RuntimeTypeOK'
    BY DEF RuntimeTypeOK, Owners, Reown
  <2>2. OrchestratorTypeOK'
    BY DEF OrchestratorTypeOK, InitTaskState
  <2>3. /\ main' \in MainState /\ reader' \in ReaderState /\ child' \in ChildState
        /\ stdoutOpen' \in BOOLEAN
    BY <1>1 DEF MainState, ReaderState, ChildState
  <2> QED BY <1>1, <2>1, <2>2, <2>3
<1>3. Control'
  BY <1>1 DEF Control, MainState, ReaderErrors
<1>4. Handles'
  BY <1>1 DEF Handles, Running
<1>5. \A s \in Sources :
         \/ owner'[s] = owner[s] /\ initTask'[s] = initTask[s] /\ main # "init" /\ main # "wait_init"
         \/ /\ main = "init" /\ main' = "wait_init"
            /\ owner[s] = "orchestrator" /\ owner'[s] = "init_task"
            /\ initTask'[s] = "running"
         \/ /\ main = "wait_init" /\ main' = "run"
            /\ owner[s] = "init_task" /\ owner'[s] = "orchestrator"
            /\ initTask'[s] \in {"none", "ok"}
  BY DEF Ownership, Reown, OwnedBy
<1>6. Ownership' /\ \A s \in Sources : Held(s)'
  <2> HIDE DEF PreInit, SpawnCommand, PauseProcess, InitSources, InitDone, SpawnReader
  <2>1. Ownership'
    <3>1. \A s \in Sources : owner[s] # "profiler" BY <1>1 DEF Ownership
    <3>2. \A s \in Sources : owner'[s] # "profiler" BY <1>5, <3>1
    <3>3. main' \in {"spawn", "pause", "init", "run"} =>
             \A s \in Sources : owner'[s] = "orchestrator"
      BY <1>1, <1>5 DEF Ownership
    <3>4. main' = "wait_init" => \A s \in Sources : owner'[s] = "init_task"
      BY <1>1, <1>5
    <3> QED BY <1>1, <3>2, <3>3, <3>4 DEF Ownership
  <2>2. \A s \in Sources : Held(s)' BY <1>1, <1>5 DEF Held, Live
  <2> QED BY <2>1, <2>2
<1>7. ASSUME NEW s \in Sources PROVE Progress(s)' /\ JoinIsLast(s)'
  <2>1. Received(s)' = Received(s) BY <1>1 DEF Received
  <2>2. Progress(s)' BY <1>1, <2>1 DEF Progress
  <2>3. JoinIsLast(s)' BY <1>1 DEF JoinIsLast, Joining
  <2> QED BY <2>2, <2>3
<1>8. Submission'
  <2>1. \A s : Received(s)' = Received(s) /\ Joining(s)' = Joining(s)
    BY <1>1 DEF Received, Joining
  <2>2. Base' = Base BY <1>1 DEF Base
  <2> QED BY <1>1, <2>1, <2>2 DEF Submission
<1>9. NeverMisaligned' /\ PhasesAligned' /\ SendErrorSurfaced' /\ SuccessMeansAllJoined'
  BY <1>1 DEF NeverMisaligned, PhasesAligned, SendErrorSurfaced, SuccessMeansAllJoined
<1> QED BY <1>2, <1>3, <1>4, <1>6, <1>7, <1>8, <1>9

(* run() starts a worker with an empty channel for every source. *)
LEMMA RunSourcesPreserves == ASSUME IInv, RunSources PROVE IInv'
<1> USE DEF IInv
<1>1. /\ main = "run" /\ main' = "spawn_reader"
      /\ reader = "none" /\ readerResult = "none" /\ cursor = 1 /\ detected = 0
      /\ joinSent = {}
      /\ UNCHANGED <<initialised, initTask, joinSent, runs, outcome, reported,
                     readerVars, childVars>>
  BY DEF RunSources, StartWorkers, Control, MainState
<1>2. \A s \in Sources : owner[s] = "orchestrator" /\ worker[s] = "none"
  BY <1>1 DEF Ownership, Held
<1>3. OwnedBy("orchestrator") = Sources
  BY <1>2 DEF OwnedBy
<1>4. /\ worker' = [s \in Sources |-> "recv"] /\ queue' = [s \in Sources |-> <<>>]
      /\ measured' = [s \in Sources |-> 0] /\ phases' = [s \in Sources |-> <<>>]
      /\ owner' = [s \in Sources |-> "worker"]
      /\ senders' = Sources /\ joinHandles' = Sources
  BY <1>3 DEF RunSources, StartWorkers, Reown
<1>5. TypeOK'
  <2>1. queue' \in [Sources -> Seq(SourceEvent)] /\ phases' \in [Sources -> Seq(Nat)]
    BY <1>4
  <2>2. \A s \in Sources : Len(queue'[s]) <= ChannelSize
    BY <1>4, ChannelAssumption
  <2>3. RuntimeTypeOK'
    BY <1>1, <1>4, <2>1, <2>2 DEF TypeOK, RuntimeTypeOK, WorkerState, Owners
  <2> QED BY <1>1, <2>3 DEF TypeOK, OrchestratorTypeOK, MainState
<1>6. Control'
  BY <1>1 DEF Control, MainState, ReaderErrors, Broadcasting
<1>7. Handles'
  BY <1>1, <1>4 DEF Handles, Running
<1>8. Ownership' /\ \A s \in Sources : Held(s)'
  BY <1>1, <1>2, <1>4 DEF Ownership, Held, Live
<1>9. ASSUME NEW s \in Sources
      PROVE  /\ Received(s)' = 0 /\ Len(queue'[s]) = 0 /\ ~ Joining(s)'
             /\ Progress(s)' /\ JoinIsLast(s)'
  <2>1. /\ worker'[s] = "recv" /\ queue'[s] = <<>> /\ measured'[s] = 0
        /\ phases'[s] = <<>> /\ Len(queue'[s]) = 0 /\ Len(phases'[s]) = 0
    BY <1>4
  <2>2. Received(s)' = 0 BY <2>1 DEF Received
  <2>3. ~ Joining(s)' BY <1>1 DEF Joining
  <2>4. Progress(s)' BY <2>1, <2>2 DEF Progress
  <2> QED BY <2>1, <2>2, <2>3, <2>4 DEF JoinIsLast
<1>10. Submission'
  <2>1. Base' = 0 /\ cursor' = 1 /\ readerResult' = "none" BY <1>1 DEF Base
  <2>2. \A s \in Sources : ~ (s < 1) BY NAssumption DEF Sources
  <2> QED BY <1>4, <1>9, <2>1, <2>2 DEF Submission
<1>11. NeverMisaligned' /\ PhasesAligned' /\ SendErrorSurfaced' /\ SuccessMeansAllJoined'
  BY <1>1 DEF NeverMisaligned, PhasesAligned, SendErrorSurfaced, SuccessMeansAllJoined
<1> QED BY <1>5, <1>6, <1>7, <1>8, <1>9, <1>10, <1>11

(* Every step of profile() up to the reader thread preserves the invariant. *)
LEMMA CallerStepPreserves == ASSUME IInv, CallerStep PROVE IInv'
<1>1. CASE InvalidPattern \/ NoSourceConfigured
  BY <1>1, RefusedCallPreserves
<1>2. CASE StartProfile
  BY <1>2, StartProfilePreserves
<1>3. CASE \/ PreInit \/ SpawnCommand \/ PauseProcess \/ InitSources \/ InitDone
           \/ SpawnReader
  BY <1>3, CallerMovesPreserves
<1>4. CASE RunSources
  BY <1>4, RunSourcesPreserves
<1>5. CASE \/ PreInitFails \/ SpawnFails \/ PauseFails \/ InitTimeout
           \/ InitPanicked \/ InitFailed \/ SpawnReaderFails
  <2> USE DEF PreInitFails, SpawnFails, PauseFails, InitTimeout, InitPanicked,
              InitFailed, SpawnReaderFails
  <2>1. /\ main \in {"pre_init", "spawn", "pause", "wait_init", "spawn_reader"}
        /\ UNCHANGED <<runtimeVars, initialised, initTask, readerVars, childVars>>
    BY <1>5
  <2>2. PICK result \in {"MetricSourceError", "SpawnFailed", "ProcessControlFailed",
                        "InitializationError", "JoinError", "ReaderThreadSpawnFailed"} :
           Abort(result)
    BY <1>5
  <2>3. readerResult = "none"
    BY <2>1 DEF IInv, Control, MainState
  <2> HIDE DEF PreInitFails, SpawnFails, PauseFails, InitTimeout, InitPanicked,
               InitFailed, SpawnReaderFails
  <2>4. result \in Outcomes \ {"ok", "PhaseMismatch"}
    BY <2>2 DEF Outcomes, SourceErrors, ReaderErrors
  <2> QED BY <2>1, <2>2, <2>3, <2>4, AbortPreserves
<1> QED BY <1>1, <1>2, <1>3, <1>4, <1>5 DEF CallerStep

-----------------------------------------------------------------------------
(* The caller's task, from the reader's answer to the end of profile() *)

(* The reader's answer, and the exit of the command. *)
LEMMA ReceiveReaderResultPreserves ==
    ASSUME IInv, ReceiveReaderResult \/ WaitForChildExit PROVE IInv'
<1> USE DEF IInv, ReceiveReaderResult, WaitForChildExit
<1>1. /\ UNCHANGED <<runtimeVars, sourceVars, handleVars, orchestratorVars,
                     readerVars, runs, reported, stdoutOpen, written, unread>>
      /\ main \in {"await_reader", "wait_child"} /\ reader = "done"
      /\ \/ main' \in {"wait_child", "join"} /\ outcome' = outcome
         \/ /\ main' = "idle" /\ outcome' = "ReaderThreadPanicked"
            /\ readerResult = "panicked" /\ child' = child
  BY DEF Control
<1>2. child' \in ChildState
  BY DEF TypeOK, ChildState
<1>3. TypeOK'
  BY <1>1, <1>2 DEF TypeOK, RuntimeTypeOK, OrchestratorTypeOK, MainState, Outcomes
<1>4. Control'
  BY DEF Control, ReaderErrors, MainState
<1>5. Handles'
  BY DEF Handles, Running, ReaderErrors
<1>6. Ownership' /\ \A s \in Sources : Held(s)'
  BY <1>1 DEF Ownership, Held
<1>7. (\A s \in Sources : Progress(s)' /\ JoinIsLast(s)') /\ Submission'
  BY <1>1, QueuesUnchanged
<1>8. NeverMisaligned' /\ PhasesAligned' /\ SendErrorSurfaced' /\ SuccessMeansAllJoined'
  BY <1>1 DEF NeverMisaligned, PhasesAligned, SendErrorSurfaced, SuccessMeansAllJoined
<1> QED BY <1>3, <1>4, <1>5, <1>6, <1>7, <1>8

(* JoinWorker is sent once to each worker, after all the other events. *)
LEMMA FinalizeSendJoinPreserves ==
    ASSUME IInv, NEW s \in Sources, FinalizeSendJoin(s) PROVE IInv'
<1> USE DEF IInv
<1>1. /\ main = "join" /\ s \in senders \ joinSent /\ joinSent' = joinSent \cup {s}
      /\ ~ Ended(s) /\ Len(queue[s]) < ChannelSize
      /\ queue' = [queue EXCEPT ![s] = Append(@, JoinWorker)]
      /\ UNCHANGED <<worker, measured, phases, sourceVars, handleVars, initTask,
                     mainVars, readerVars, childVars>>
  BY DEF FinalizeSendJoin, SendJoin, CanSend, Enqueue
<1>2. /\ queue[s] \in Seq(SourceEvent) /\ JoinWorker \in SourceEvent
      /\ Len(queue[s]) \in Nat
      /\ \A t \in Sources \ {s} : queue'[t] = queue[t]
      /\ queue'[s] = Append(queue[s], JoinWorker)
  BY <1>1 DEF TypeOK, RuntimeTypeOK, SourceEvent
<1>3. /\ Len(queue'[s]) = Len(queue[s]) + 1
      /\ queue'[s][Len(queue[s]) + 1] = JoinWorker
      /\ \A j \in 1 .. Len(queue[s]) : queue'[s][j] = queue[s][j]
      /\ queue'[s] # <<>>
  BY <1>2, AppendProperties
<1>4. TypeOK'
  <2>1. queue' \in [Sources -> Seq(SourceEvent)]
    BY <1>1, <1>2 DEF TypeOK, RuntimeTypeOK
  <2>2. \A t \in Sources : Len(queue'[t]) <= ChannelSize
    <3>1. Len(queue'[s]) <= ChannelSize
      BY <1>1, <1>2, <1>3, ChannelAssumption
    <3> QED BY <1>2, <3>1 DEF TypeOK, RuntimeTypeOK
  <2> QED BY <1>1, <2>1, <2>2 DEF TypeOK, RuntimeTypeOK, OrchestratorTypeOK
<1>5. Control' /\ Handles'
  BY <1>1 DEF Control, Handles, Running
<1>6. Ownership' /\ \A t \in Sources : Held(t)'
  BY <1>1 DEF Ownership, Held
<1>7. /\ \A t \in Sources : Received(t)' = Received(t)
      /\ \A t \in Sources \ {s} : Joining(t)' = Joining(t)
      /\ ~ Joining(s) /\ Joining(s)'
  BY <1>1 DEF Received, Joining
<1>8. ASSUME NEW t \in Sources PROVE Progress(t)' /\ JoinIsLast(t)'
  <2>1. CASE t # s
    <3>1. t \in joinSent' <=> t \in joinSent BY <1>1, <2>1
    <3> QED BY <1>1, <1>2, <1>7, <2>1, <3>1 DEF Progress, JoinIsLast
  <2>2. CASE t = s
    <3>1. worker[s] \in {"recv", "measure", "retrieve"}
      BY <1>1 DEF Handles, Ended
    <3>2. ASSUME NEW j \in 1 .. Len(queue'[s])
          PROVE  IF queue'[s][j] = JoinWorker
                 THEN j = Len(queue'[s]) /\ s \in joinSent'
                 ELSE queue'[s][j] = Kind(Received(s)' + j)
      <4>1. CASE j \in 1 .. Len(queue[s])
        <5>1. Progress(s) OBVIOUS
        <5> HIDE DEF IInv
        <5> QED BY <1>1, <1>3, <1>7, <4>1, <5>1 DEF Progress
      <4>2. CASE j = Len(queue[s]) + 1
        BY <1>1, <1>3, <4>2
      <4> QED BY <1>2, <1>3, <4>1, <4>2
    <3>3. Progress(s) OBVIOUS
    <3>4. Progress(s)'
      <4> HIDE DEF IInv
      <4> QED BY <1>1, <3>1, <3>2, <3>3 DEF Progress
    <3>5. JoinIsLast(s)' BY <1>2, <1>3 DEF JoinIsLast
    <3> QED BY <2>2, <3>4, <3>5
  <2> QED BY <2>1, <2>2
<1>9. Submission'
  <2>1. CASE readerResult = "SendError" BY <1>1, <2>1 DEF Submission
  <2>2. CASE readerResult # "SendError"
    <3>1. ASSUME NEW t \in joinHandles, worker[t] \notin {"failed", "panicked"}
          PROVE  Received(t) + Len(queue'[t]) =
                    Base + (IF t < cursor THEN 1 ELSE 0)
                         + (IF Joining(t)' THEN 1 ELSE 0)
      <4>1. Received(t) + Len(queue[t]) =
               Base + (IF t < cursor THEN 1 ELSE 0) + (IF Joining(t) THEN 1 ELSE 0)
        BY <2>2, <3>1 DEF Submission
      <4>2. t \in Sources /\ Len(queue[t]) \in Nat /\ Received(t) \in Nat
        BY DEF TypeOK, RuntimeTypeOK, Received
      <4>3. Base \in Int
        BY <1>1 DEF Base, Control, TypeOK
      <4>4. CASE t = s
        <5>1. Len(queue'[t]) = Len(queue[t]) + 1 BY <1>3, <4>4
        <5>2. ~ Joining(t) /\ Joining(t)' BY <1>7, <4>4
        <5> HIDE DEF IInv
        <5> QED BY <4>1, <4>2, <4>3, <5>1, <5>2
      <4>5. CASE t # s BY <1>2, <1>7, <4>1, <4>2, <4>5
      <4> QED BY <4>4, <4>5
    <3>2. Base' = Base /\ joinHandles \subseteq Sources
      BY <1>1 DEF Base, TypeOK, RuntimeTypeOK
    <3> HIDE DEF IInv
    <3> QED BY <1>1, <1>7, <2>2, <3>1, <3>2 DEF Submission
  <2> QED BY <2>1, <2>2
<1>10. NeverMisaligned' /\ PhasesAligned' /\ SendErrorSurfaced' /\ SuccessMeansAllJoined'
  BY <1>1 DEF NeverMisaligned, PhasesAligned, SendErrorSurfaced, SuccessMeansAllJoined
<1> QED BY <1>4, <1>5, <1>6, <1>8, <1>9, <1>10

(* The senders are dropped once JoinWorker was sent to every worker. *)
LEMMA FinalizeTakeHandlesPreserves ==
    ASSUME IInv, FinalizeTakeHandles PROVE IInv'
<1> USE DEF IInv
<1>1. /\ main = "join" /\ main' = "join_all" /\ joinSent = Sources
      /\ senders' = {} /\ joinSent' = {} /\ joinHandles = Sources
      /\ reader = "done" /\ readerResult # "panicked"
      /\ UNCHANGED <<runtimeVars, sourceVars, joinHandles, initTask, runs, outcome,
                     reported, readerVars, childVars>>
  BY DEF FinalizeTakeHandles, TakeHandles, Handles, Running, Control, ReaderErrors
<1>2. TypeOK'
  BY <1>1 DEF TypeOK, RuntimeTypeOK, OrchestratorTypeOK, MainState
<1>3. Control' /\ Handles'
  BY <1>1 DEF Control, Handles, Running, MainState
<1>4. Ownership' /\ \A s \in Sources : Held(s)'
  BY <1>1 DEF Ownership, Held
<1>5. \A s \in Sources : Received(s)' = Received(s) /\ Joining(s)' /\ Joining(s)
  BY <1>1 DEF Received, Joining
<1>6. ASSUME NEW s \in Sources PROVE Progress(s)' /\ JoinIsLast(s)'
  BY <1>1, <1>5 DEF Progress, JoinIsLast
<1>7. Submission'
  <2>1. Base' = Base BY <1>1 DEF Base
  <2> QED BY <1>1, <1>5, <2>1 DEF Submission
<1>8. NeverMisaligned' /\ PhasesAligned' /\ SendErrorSurfaced' /\ SuccessMeansAllJoined'
  BY <1>1 DEF NeverMisaligned, PhasesAligned, SendErrorSurfaced, SuccessMeansAllJoined
<1> QED BY <1>2, <1>3, <1>4, <1>6, <1>7, <1>8

(* A worker that ended well has taken what the reader submitted, and nothing *)
(* but JoinWorker after it.                                                  *)
LEMMA DoneTookAll ==
    ASSUME IInv, main = "join_all", readerResult # "SendError",
           NEW s \in Sources, worker[s] = "done"
    PROVE  /\ measured[s] + Len(phases[s]) = Base
           /\ measured[s] \in Nat /\ Len(phases[s]) \in Nat
<1> USE DEF IInv
<1>1. /\ s \in joinHandles /\ cursor = 1 /\ ~ (s < cursor) /\ Joining(s)
      /\ reader = "done"
  BY NAssumption DEF Handles, Control, Joining, Sources, ReaderErrors, Broadcasting
<1>2. queue[s] = <<>> /\ Len(queue[s]) = 0
  BY DEF Progress
<1>3. measured[s] \in Nat /\ Len(phases[s]) \in Nat
  BY DEF TypeOK, RuntimeTypeOK
<1>4. Received(s) = measured[s] + Len(phases[s]) + 1
  BY DEF Received
<1>5. Base \in Int
  BY <1>1 DEF Base, Control, TypeOK
<1>6. Received(s) + Len(queue[s]) =
         Base + (IF s < cursor THEN 1 ELSE 0) + (IF Joining(s) THEN 1 ELSE 0)
  <2>1. Submission OBVIOUS
  <2> HIDE DEF IInv
  <2> QED BY <1>1, <2>1 DEF Submission
<1> HIDE DEF IInv
<1> QED BY <1>1, <1>2, <1>3, <1>4, <1>5, <1>6

(* The sources that ended well have closed the same number of phases. *)
LEMMA DoneAligned ==
    ASSUME IInv, main = "join_all", readerResult # "SendError",
           NEW s \in Sources, NEW t \in Sources,
           worker[s] = "done", worker[t] = "done"
    PROVE  Len(phases[s]) = Len(phases[t])
<1> DEFINE Shape(m, n) == (m = 0 /\ n = 0) \/ m = n + 1 \/ m = n + 2
<1>1. Shape(measured[s], Len(phases[s])) /\ Shape(measured[t], Len(phases[t]))
  BY DEF IInv, Progress
<1>2. /\ measured[s] \in Nat /\ Len(phases[s]) \in Nat
      /\ measured[t] \in Nat /\ Len(phases[t]) \in Nat
      /\ measured[s] + Len(phases[s]) = measured[t] + Len(phases[t])
  BY DoneTookAll
<1>3. ASSUME NEW a \in Nat, NEW b \in Nat, NEW c \in Nat, NEW d \in Nat,
             Shape(a, b), Shape(c, d), a + b = c + d
      PROVE  b = d
  BY <1>3
<1> QED BY <1>1, <1>2, <1>3

(* merge() of the workers that ended well never finds a mismatch. *)
LEMMA MergeAligned ==
    ASSUME IInv, main = "join_all", AllJoined
    PROVE  /\ FinalizeResult \in Outcomes \ {"PhaseMismatch"}
           /\ FinalizeResult = "ok" => \A s \in Sources : worker[s] = "done"
           /\ readerResult = "SendError" => FinalizeResult = "MetricSourceError"
<1> USE DEF IInv
<1>1. joinHandles = Sources BY DEF Handles
<1>2. CASE \E s \in Sources : worker[s] = "failed"
  BY <1>1, <1>2 DEF FinalizeResult, Outcomes, SourceErrors
<1>3. CASE \A s \in Sources : worker[s] # "failed"
  <2>1. \A s \in Sources : worker[s] = "done"
    BY <1>1, <1>3 DEF AllJoined
  <2>2. readerResult # "SendError"
    BY <2>1 DEF Submission
  <2>3. \A s, t \in Sources : Len(phases[s]) = Len(phases[t])
    BY <2>1, <2>2, DoneAligned
  <2>4. FinalizeResult = Merge(joinHandles) /\ 1 \in Sources
    BY <1>1, <1>3, NAssumption DEF FinalizeResult, Sources
  <2>5. Merge(joinHandles) \in {"AllSourcesEmpty", "ok"}
    <3> DEFINE counts == {Len(phases[s]) : s \in Sources} \ {0}
    <3>1. CASE Len(phases[1]) = 0
      <4>1. counts = {} /\ Sources # {} BY <2>3, <2>4, <3>1
      <4> HIDE DEF IInv
      <4> QED BY <1>1, <4>1 DEF Merge
    <3>2. CASE Len(phases[1]) # 0
      <4>1. counts = {Len(phases[1])} BY <2>3, <2>4, <3>2
      <4>2. \E n \in counts : counts = {n} BY <4>1
      <4>3. Sources # {} /\ counts # {} /\ \A m, n \in counts : m = n BY <2>4, <4>1
      <4> HIDE DEF IInv, counts
      <4> QED BY <1>1, <4>2, <4>3 DEF Merge, counts
    <3> QED BY <3>1, <3>2
  <2> QED BY <2>1, <2>2, <2>4, <2>5 DEF Outcomes
<1> QED BY <1>2, <1>3

(* What profile() returns when everything went well. *)
LEMMA ResultsAligned ==
    ASSUME IInv, ReturnResults
    PROVE  /\ ReportedPhases = detected - 1
           /\ \A s \in Sources :
                 /\ worker[s] = "done"
                 /\ phases[s] = [k \in 1 .. detected - 1 |-> k + 1]
<1> USE DEF IInv
<1>1. /\ main = "join_all" /\ AllJoined /\ FinalizeResult = "ok"
      /\ readerResult = "ok" /\ reader = "done" /\ joinHandles = Sources
  BY DEF ReturnResults, Control, Handles
<1>2. \A s \in Sources : worker[s] = "done"
  BY <1>1, MergeAligned
<1>3. detected \in Nat /\ detected >= 2 /\ Base = 2 * detected - 1
  BY <1>1 DEF Control, TypeOK, Base
<1>4. ASSUME NEW s \in Sources PROVE Len(phases[s]) = detected - 1
  <2>1. /\ measured[s] + Len(phases[s]) = Base
        /\ measured[s] \in Nat /\ Len(phases[s]) \in Nat
    BY <1>1, <1>2, DoneTookAll
  <2>2. \/ measured[s] = 0 /\ Len(phases[s]) = 0
        \/ measured[s] = Len(phases[s]) + 1
        \/ measured[s] = Len(phases[s]) + 2
    BY DEF Progress
  <2> HIDE DEF IInv
  <2> QED BY <1>3, <2>1, <2>2
<1>5. ASSUME NEW s \in Sources
      PROVE  phases[s] = [k \in 1 .. detected - 1 |-> k + 1]
  <2>1. phases[s] \in Seq(Nat) BY DEF TypeOK, RuntimeTypeOK
  <2>2. phases[s] \in [1 .. Len(phases[s]) -> Nat] BY <2>1, LenProperties
  <2>3. \A k \in 1 .. Len(phases[s]) : phases[s][k] = k + 1 BY DEF Progress
  <2> HIDE DEF IInv
  <2> QED BY <1>4, <2>2, <2>3
<1>6. MergedPhases = detected - 1
  <2>1. 1 \in Sources BY NAssumption DEF Sources
  <2>2. {Len(phases[s]) : s \in joinHandles} \ {0} = {detected - 1}
    BY <1>1, <1>3, <1>4, <2>1
  <2> QED BY <2>2 DEF MergedPhases
<1>7. ReportedPhases = detected - 1
  <2> HIDE DEF IInv
  <2> QED BY <1>3, <1>6 DEF ReportedPhases
<1> QED BY <1>2, <1>5, <1>7

(* The way out that keeps the sources: all of them were joined. *)
LEMMA ReturnResultsPreserves == ASSUME IInv, ReturnResults PROVE IInv'
<1> USE DEF IInv
<1>1. /\ main = "join_all" /\ main' = "idle" /\ outcome' = "ok"
      /\ readerResult = "ok" /\ joinHandles = Sources /\ joinHandles' = {}
      /\ senders = {} /\ joinSent = {} /\ reader = "done" /\ child = "reaped"
      /\ reported' = ReportedPhases
      /\ UNCHANGED <<runtimeVars, initialised, senders, orchestratorVars, runs,
                     readerVars, childVars>>
  BY DEF ReturnResults, Control, Handles
<1>2. owner' = [s \in Sources |-> "profiler"]
  BY <1>1 DEF ReturnResults, Reown
<1>3. /\ reported' = detected - 1
      /\ \A s \in Sources :
            worker[s] = "done" /\ phases[s] = [k \in 1 .. detected - 1 |-> k + 1]
  BY <1>1, ResultsAligned
<1>4. TypeOK'
  <2>1. reported' \in Nat BY <1>1, <1>3 DEF Control, TypeOK
  <2> QED BY <1>1, <1>2, <2>1
          DEF TypeOK, RuntimeTypeOK, OrchestratorTypeOK, Owners, MainState, Outcomes
<1>5. Control' /\ Handles'
  BY <1>1 DEF Control, Handles, Running, MainState
<1>6. Ownership' /\ \A s \in Sources : Held(s)'
  BY <1>1, <1>2, <1>3 DEF Ownership, Held, Live
<1>7. ASSUME NEW s \in Sources PROVE Progress(s)' /\ JoinIsLast(s)'
  <2>1. Received(s)' = Received(s) BY <1>1 DEF Received
  <2>2. Progress(s)' BY <1>1, <2>1 DEF Progress
  <2>3. JoinIsLast(s)' BY <1>1 DEF JoinIsLast, Joining
  <2> QED BY <2>2, <2>3
<1>8. Submission'
  BY <1>1 DEF Submission
<1>9. NeverMisaligned' /\ PhasesAligned' /\ SendErrorSurfaced' /\ SuccessMeansAllJoined'
  BY <1>1, <1>3 DEF NeverMisaligned, PhasesAligned, SendErrorSurfaced, SuccessMeansAllJoined
<1> QED BY <1>4, <1>5, <1>6, <1>7, <1>8, <1>9

(* Every step of profile() after the reader thread preserves the invariant. *)
LEMMA FinalizeStepPreserves == ASSUME IInv, FinalizeStep PROVE IInv'
<1>1. CASE ReceiveReaderResult \/ WaitForChildExit
  BY <1>1, ReceiveReaderResultPreserves
<1>2. CASE WaitFails
  <2>1. readerResult = "ok" BY <1>2 DEF WaitFails, IInv, Control
  <2>2. "IoError" \in Outcomes \ {"ok", "PhaseMismatch"}
    BY DEF Outcomes, ReaderErrors
  <2> QED BY <1>2, <2>1, <2>2, AbortPreserves DEF WaitFails
<1>3. CASE \E s \in Sources : FinalizeSendJoin(s)
  BY <1>3, FinalizeSendJoinPreserves
<1>4. CASE \E s \in Sources : FinalizeSendFails(s)
  <2>1. PICK s \in Sources : FinalizeSendFails(s) BY <1>4
  <2>2. worker[s] \in {"failed", "panicked"}
    BY <2>1 DEF FinalizeSendFails, IInv, Handles, Ended
  <2>3. EventError(s) \in SourceErrors
    BY <2>2 DEF EventError, SourceErrors
  <2>4. EventError(s) \in Outcomes \ {"ok", "PhaseMismatch"}
    BY <2>3 DEF Outcomes, SourceErrors
  <2> QED BY <2>1, <2>3, <2>4, AbortPreserves DEF FinalizeSendFails
<1>5. CASE FinalizeTakeHandles
  BY <1>5, FinalizeTakeHandlesPreserves
<1>6. CASE FinalizeJoinError
  <2>1. "JoinError" \in Outcomes \ {"ok", "PhaseMismatch"} /\ "JoinError" \in SourceErrors
    BY DEF Outcomes, SourceErrors
  <2> QED BY <1>6, <2>1, AbortPreserves DEF FinalizeJoinError
<1>7. CASE FinalizeFails
  <2>1. /\ main = "join_all" /\ AllJoined
        /\ UNCHANGED <<runtimeVars, initialised, initTask, readerVars, childVars>>
    BY <1>7 DEF FinalizeFails
  <2>2. readerResult \in ReaderErrors \cup {"ok"}
    BY <2>1 DEF IInv, Control
  <2>3. \E result \in Outcomes \ {"ok", "PhaseMismatch"} :
           /\ Abort(result)
           /\ readerResult = "SendError" => result \in SourceErrors
    <3>1. /\ FinalizeResult \in Outcomes \ {"PhaseMismatch"}
          /\ readerResult = "SendError" => FinalizeResult = "MetricSourceError"
      BY <2>1, MergeAligned
    <3>2. CASE FinalizeResult # "ok" /\ Abort(FinalizeResult)
      BY <3>1, <3>2 DEF SourceErrors
    <3>3. CASE FinalizeResult = "ok" /\ readerResult # "ok" /\ Abort(readerResult)
      BY <2>2, <3>1, <3>3 DEF Outcomes, ReaderErrors
    <3> HIDE DEF Abort
    <3> QED BY <1>7, <3>2, <3>3 DEF FinalizeFails
  <2> QED BY <2>1, <2>3, AbortPreserves
<1>8. CASE ReturnResults
  BY <1>8, ReturnResultsPreserves
<1> QED BY <1>1, <1>2, <1>3, <1>4, <1>5, <1>6, <1>7, <1>8 DEF FinalizeStep

-----------------------------------------------------------------------------
(* The invariant and the theorems *)

(* The invariant holds initially. *)
LEMMA InductionBase == Init => IInv
<1> SUFFICES ASSUME Init PROVE IInv
  OBVIOUS
<1> USE DEF Init
<1>1. TypeOK
  <2>1. queue \in [Sources -> Seq(SourceEvent)] /\ phases \in [Sources -> Seq(Nat)]
    OBVIOUS
  <2>2. \A s \in Sources : Len(queue[s]) <= ChannelSize
    BY ChannelAssumption
  <2>3. RuntimeTypeOK
    BY <2>1, <2>2 DEF RuntimeTypeOK, WorkerState, Owners
  <2>4. OrchestratorTypeOK
    BY DEF OrchestratorTypeOK, InitTaskState
  <2>5. /\ runs \in 0 .. MaxRuns /\ cursor \in 1 .. N
        /\ written \in 0 .. MaxLines /\ unread \in 0 .. written
    BY NAssumption, BoundsAssumption
  <2>6. /\ main \in MainState /\ outcome \in Outcomes /\ reader \in ReaderState
        /\ child \in ChildState /\ stdoutOpen \in BOOLEAN
    BY DEF MainState, Outcomes, ReaderState, ChildState
  <2> QED BY <2>3, <2>4, <2>5, <2>6 DEF TypeOK
<1>2. Control /\ Handles
  BY DEF Control, Handles, Running, Broadcasting
<1>3. Ownership /\ \A s \in Sources : Held(s)
  BY DEF Ownership, Held, Live
<1>4. ASSUME NEW s \in Sources PROVE Progress(s) /\ JoinIsLast(s)
  BY DEF Progress, JoinIsLast, Joining
<1>5. Submission
  BY DEF Submission
<1>6. NeverMisaligned /\ PhasesAligned /\ SendErrorSurfaced /\ SuccessMeansAllJoined
  BY DEF NeverMisaligned, PhasesAligned, SendErrorSurfaced, SuccessMeansAllJoined
<1> QED BY <1>1, <1>2, <1>3, <1>4, <1>5, <1>6 DEF IInv

(* A stuttering step preserves the invariant. *)
LEMMA StutteringPreserves == ASSUME IInv, UNCHANGED vars PROVE IInv'
<1> USE DEF IInv, vars
<1>1. TypeOK'
  BY DEF TypeOK, RuntimeTypeOK, OrchestratorTypeOK
<1>2. Control' /\ Handles'
  BY DEF Control, Handles, Running
<1>3. Ownership' /\ \A s \in Sources : Held(s)'
  BY DEF Ownership, Held
<1>4. (\A s \in Sources : Progress(s)' /\ JoinIsLast(s)') /\ Submission'
  BY QueuesUnchanged
<1>5. NeverMisaligned' /\ PhasesAligned' /\ SendErrorSurfaced' /\ SuccessMeansAllJoined'
  BY DEF NeverMisaligned, PhasesAligned, SendErrorSurfaced, SuccessMeansAllJoined
<1> QED BY <1>1, <1>2, <1>3, <1>4, <1>5

(* Every step of the profiler preserves the invariant. *)
LEMMA InductionStep == IInv /\ [Next]_vars => IInv'
BY CallerStepPreserves, FinalizeStepPreserves, ReaderStepPreserves,
   SourceStepPreserves, ChildStepPreserves, StutteringPreserves
   DEF Next, Finished

(* IInv holds in every state of every behaviour of the profiler. *)
THEOREM Invariance == Spec => []IInv
BY InductionBase, InductionStep, PTL DEF Spec

(* Every variable keeps its type, whatever fails. *)
THEOREM TypeCorrectness == Spec => []TypeOK
<1>1. IInv => TypeOK
  BY DEF IInv
<1> QED BY <1>1, Invariance, PTL

(* A profile() that succeeds reports one phase per boundary, and phase k of *)
(* every source is the difference of its snapshots k and k + 1.             *)
THEOREM Alignment == Spec => []PhasesAligned
<1>1. IInv => PhasesAligned
  BY DEF IInv
<1> QED BY <1>1, Invariance, PTL

(* merge() is never asked to add up different numbers of phases. *)
THEOREM NoMismatch == Spec => []NeverMisaligned
<1>1. IInv => NeverMisaligned
  BY DEF IInv
<1> QED BY <1>1, Invariance, PTL

(* No source is asked to close a phase before it has two snapshots. *)
THEOREM TwoSnapshots == Spec => []RetrieveHasTwoSnapshots
<1>1. IInv => RetrieveHasTwoSnapshots
  BY DEF IInv, Progress, RetrieveHasTwoSnapshots
<1> QED BY <1>1, Invariance, PTL

(* The error of a source, not the failed send, is what profile() returns. *)
THEOREM SendErrors == Spec => []SendErrorSurfaced
<1>1. IInv => SendErrorSurfaced
  BY DEF IInv
<1> QED BY <1>1, Invariance, PTL

(* A profile() that succeeds has lost no error of a worker. *)
THEOREM Success == Spec => []SuccessMeansAllJoined
<1>1. IInv => SuccessMeansAllJoined
  BY DEF IInv
<1> QED BY <1>1, Invariance, PTL

(* The profiler has all of its sources or none, and each can be used again. *)
THEOREM Reuse == Spec => []SourcesReusable
<1>1. IInv => SourcesReusable
  <2> SUFFICES ASSUME IInv PROVE SourcesReusable
    OBVIOUS
  <2>1. OwnedBy("profiler") \in {{}, Sources}
    BY DEF IInv, Ownership, OwnedBy
  <2>2. \A s \in OwnedBy("profiler") :
           ~ initialised[s] /\ worker[s] \in {"none", "done"}
    BY DEF IInv, Held, OwnedBy
  <2> QED BY <2>1, <2>2 DEF SourcesReusable
<1> QED BY <1>1, Invariance, PTL

(* A source that is dropped while initialised failed itself or never ran. *)
THEOREM Abandoned == Spec => []AbandonedSourceJoined
<1>1. IInv => AbandonedSourceJoined
  BY DEF IInv, Held, Live, TypeOK, RuntimeTypeOK, WorkerState, AbandonedSourceJoined
<1> QED BY <1>1, Invariance, PTL

-----------------------------------------------------------------------------
(* When the command is released *)

NotSpawned == main \in {"pre_init", "spawn"} => child = "none"

(* Nothing of the command of an earlier call is left when one is spawned. *)
LEMMA SpawnsFromNothing == Spec => []NotSpawned
<1>1. Init => NotSpawned
  BY DEF Init, NotSpawned
<1>2. NotSpawned /\ [Next]_vars => NotSpawned'
  <2> SUFFICES ASSUME NotSpawned, [Next]_vars PROVE NotSpawned'
    OBVIOUS
  <2> USE DEF NotSpawned
  <2>1. CASE CallerStep
    BY <2>1 DEF CallerStep, InvalidPattern, NoSourceConfigured, StartProfile,
         PreInit, PreInitFails, SpawnCommand, SpawnFails, PauseProcess,
         PauseFails, InitSources, InitTimeout, InitPanicked, InitFailed,
         InitDone, RunSources, SpawnReader, SpawnReaderFails
  <2>2. CASE FinalizeStep
    BY <2>2 DEF FinalizeStep, ReceiveReaderResult, WaitForChildExit, WaitFails,
         FinalizeSendJoin, FinalizeSendFails, FinalizeTakeHandles,
         FinalizeJoinError, FinalizeFails, ReturnResults
  <2>3. CASE ReaderStep
    BY <2>3 DEF ReaderStep, CreateSink, CreateSinkFails, SendEvent,
         SendEventFails, ResumeProcess, ResumeFails, ReadLine, ReadToken,
         WriteFails, ReadFails, ReadEof, FlushFails, ReaderPanics
  <2>4. CASE SourceStep
    BY <2>4 DEF SourceStep, InitTask, InitTaskFails, Worker, WorkerFailure
  <2>5. CASE ChildStep
    BY <2>5 DEF ChildStep, ChildWrites, StdoutCloses, ChildExits
  <2>6. CASE UNCHANGED vars
    BY <2>6 DEF vars
  <2> QED BY <2>1, <2>2, <2>3, <2>4, <2>5, <2>6 DEF Next, Finished
<1> QED BY <1>1, <1>2, PTL DEF Spec

(* What the workers were sent when the reader is about to resume the command. *)
LEMMA FirstMeasureWasSent ==
    ASSUME IInv, reader = "resume", NEW s \in Sources
    PROVE  \/ Ended(s)
           \/ measured[s] = 1
           \/ worker[s] = "measure"
           \/ queue[s] = <<Measure>>
<1> USE DEF IInv
<1>1. /\ main = "await_reader" /\ readerResult = "none" /\ cursor = 1
      /\ joinSent = {} /\ senders = Sources /\ joinHandles = Sources
      /\ ~ (s < cursor) /\ ~ Joining(s)
  BY NAssumption DEF Control, Handles, Running, Joining, Sources, Broadcasting
<1>2. worker[s] \in {"recv", "measure", "retrieve", "failed", "panicked"}
  BY <1>1 DEF Handles
<1>3. /\ measured[s] \in Nat /\ Len(phases[s]) \in Nat
      /\ queue[s] \in Seq(SourceEvent) /\ Len(queue[s]) \in Nat
  BY DEF TypeOK, RuntimeTypeOK
<1>4. SUFFICES ASSUME ~ Ended(s), worker[s] # "measure", measured[s] # 1
               PROVE  queue[s] = <<Measure>>
  OBVIOUS
<1>5. Received(s) + Len(queue[s]) = 1
  BY <1>1, <1>4 DEF Submission, Base, Ended
<1>6. /\ worker[s] = "recv" /\ measured[s] = 0 /\ Len(phases[s]) = 0
      /\ Received(s) = 0
  <2>1. Progress(s) OBVIOUS
  <2> HIDE DEF IInv
  <2>2. Len(queue[s]) >= 0 BY <1>3
  <2>3. worker[s] # "retrieve"
    BY <1>3, <1>5, <2>1, <2>2 DEF Progress, Received
  <2>4. worker[s] = "recv" BY <1>2, <1>4, <2>3 DEF Ended
  <2>5. Received(s) = measured[s] + Len(phases[s]) BY <1>3, <2>4 DEF Received
  <2> QED BY <1>3, <1>4, <1>5, <2>1, <2>2, <2>4, <2>5 DEF Progress
<1>7. Len(queue[s]) = 1
  BY <1>3, <1>5, <1>6
<1>8. queue[s][1] = Measure
  BY <1>1, <1>6, <1>7, KindOfEvent DEF Progress
<1> QED BY <1>3, <1>7, <1>8

(* The command is released only after the first Measure was sent to every *)
(* worker that still runs.                                                *)
THEOREM ReleasedAfterFirstMeasure == Spec => FirstMeasureSubmitted
<1>1. ASSUME IInv, NotSpawned, [Next]_vars, child = "stopped", child' = "running"
      PROVE  reader = "resume"
  <2> USE DEF NotSpawned
  <2>1. CASE CallerStep
    BY <1>1, <2>1 DEF CallerStep, InvalidPattern, NoSourceConfigured, StartProfile,
         PreInit, PreInitFails, SpawnCommand, SpawnFails, PauseProcess,
         PauseFails, InitSources, InitTimeout, InitPanicked, InitFailed,
         InitDone, RunSources, SpawnReader, SpawnReaderFails
  <2>2. CASE FinalizeStep
    BY <1>1, <2>2 DEF FinalizeStep, ReceiveReaderResult, WaitForChildExit, WaitFails,
         FinalizeSendJoin, FinalizeSendFails, FinalizeTakeHandles,
         FinalizeJoinError, FinalizeFails, ReturnResults
  <2>3. CASE ReaderStep
    BY <1>1, <2>3 DEF ReaderStep, CreateSink, CreateSinkFails, SendEvent,
         SendEventFails, ResumeProcess, ResumeFails, ReadLine, ReadToken,
         WriteFails, ReadFails, ReadEof, FlushFails, ReaderPanics
  <2>4. CASE SourceStep
    BY <1>1, <2>4 DEF SourceStep, InitTask, InitTaskFails, Worker, WorkerFailure
  <2>5. CASE ChildStep
    BY <1>1, <2>5 DEF ChildStep, ChildWrites, StdoutCloses, ChildExits
  <2>6. CASE UNCHANGED vars
    BY <1>1, <2>6 DEF vars
  <2> QED BY <1>1, <2>1, <2>2, <2>3, <2>4, <2>5, <2>6 DEF Next, Finished
<1>2. IInv /\ NotSpawned /\ [Next]_vars =>
         [ child = "stopped" /\ child' = "running" =>
             \A s \in Sources :
                 \/ Ended(s)
                 \/ measured[s] = 1
                 \/ worker[s] = "measure"
                 \/ queue[s] = <<Measure>> ]_vars
  BY <1>1, FirstMeasureWasSent
<1> QED BY <1>2, Invariance, SpawnsFromNothing, PTL DEF Spec, FirstMeasureSubmitted

-----------------------------------------------------------------------------
(* The protocol of one source *)

(* Source s makes a step of its protocol, or none. *)
Called(s) == SeenFrom(s)!ReaderNext \/ UNCHANGED SeenFrom(s)!readerVars

SourcesCalled == \A s \in Sources : Life(s)' /\ Called(s)

(* Nothing that a source is seen by changes. *)
LEMMA SourceKept ==
    ASSUME NEW s \in Sources, Life(s),
           owner'[s] = owner[s], initialised'[s] = initialised[s],
           initTask'[s] = initTask[s], worker'[s] = worker[s],
           measured'[s] = measured[s], phases'[s] = phases[s],
           joinHandles' \subseteq joinHandles,
           \/ main' = main
           \/ owner[s] # "orchestrator"
           \/ main \in {"spawn", "pause", "init"} /\ main' \in {"spawn", "pause", "init"}
    PROVE  Life(s)' /\ Called(s)
<1>1. Life(s)'
  BY DEF Life
<1>2. Stage(s)' = Stage(s)
  BY DEF Stage
<1> QED BY <1>1, <1>2 DEF Called, SeenFrom!readerVars

(* A source that is dropped makes its last step, if it was not lost before. *)
LEMMA SourceDropped ==
    ASSUME NEW s \in Sources, owner'[s] = "dropped",
           s \notin joinHandles' \/ worker'[s] # "done"
    PROVE  Life(s)' /\ Called(s)
<1>1. Life(s)'
  BY DEF Life
<1>2. Stage(s)' = "dropped"
  BY DEF Stage
<1>3. CASE Stage(s) = "dropped"
  <2>1. owner[s] # "worker"
    BY <1>3 DEF Stage
  <2> QED BY <1>1, <1>2, <1>3, <2>1 DEF Called, SeenFrom!readerVars
<1>4. CASE Stage(s) # "dropped"
  BY <1>1, <1>2, <1>4 DEF Called, SeenFrom!ReaderNext, SeenFrom!Abandon
<1> QED BY <1>3, <1>4

(* The orchestrator goes with what it holds; tasks that run go on. *)
LEMMA DropCalls ==
    ASSUME MappingInv, DropOrchestrator, UNCHANGED <<runtimeVars, initialised, initTask>>,
           NEW s \in Sources
    PROVE  Life(s)' /\ Called(s)
<1>1. CASE owner'[s] = "dropped"
  BY <1>1, SourceDropped DEF DropOrchestrator
<1>2. CASE owner'[s] # "dropped"
  <2>1. owner'[s] = owner[s] /\ owner[s] # "orchestrator"
    BY <1>2 DEF DropOrchestrator, Reown
  <2>2. Life(s)
    BY DEF MappingInv
  <2> QED BY <2>1, <2>2, SourceKept DEF runtimeVars, DropOrchestrator
<1> QED BY <1>1, <1>2

(* The init task of a source ends, for the caller or for nobody. *)
LEMMA InitTaskCalls ==
    ASSUME MappingInv, NEW t \in Sources, InitTask(t) \/ InitTaskFails(t),
           NEW s \in Sources
    PROVE  Life(s)' /\ Called(s)
<1>1. PICK state \in {"ok", "failed", "panicked"} :
          InitTaskEnds(t, state, main = "wait_init")
  BY DEF InitTask, InitTaskFails
<1>2. /\ UNCHANGED <<runtimeVars, joinHandles, main>>
      /\ initTask[t] = "running" /\ owner[t] = "init_task" /\ worker[t] = "none"
      /\ Life(s) /\ Life(t)
  BY <1>1 DEF InitTask, InitTaskFails, InitTaskEnds, MappingInv, IInv, Held, mainVars,
       handleVars
<1>3. initTask \in [Sources -> InitTaskState] /\ owner \in [Sources -> Owners]
      /\ initialised \in [Sources -> BOOLEAN]
  BY DEF MappingInv, IInv, TypeOK, RuntimeTypeOK, OrchestratorTypeOK
<1>4. CASE s # t
  BY <1>1, <1>2, <1>3, <1>4, SourceKept DEF InitTaskEnds, runtimeVars
<1>5. CASE s = t /\ owner'[s] = "dropped"
  BY <1>2, <1>5, SourceDropped DEF runtimeVars
<1>6. CASE s = t /\ owner'[s] # "dropped"
  <2>1. /\ owner'[s] = "init_task" /\ initTask'[s] = state /\ state \in {"ok", "failed"}
        /\ initialised'[s] = (state = "ok") /\ worker'[s] = "none"
    BY <1>1, <1>2, <1>3, <1>6 DEF InitTaskEnds, runtimeVars
  <2>2. Life(s)'
    BY <2>1 DEF Life
  <2>3. Stage(s) = "ready" /\ Stage(s)' \in {"started", "dropped"}
    BY <1>2, <1>6, <2>1 DEF Stage
  <2>4. owner[s] # "worker" /\ owner'[s] # "worker"
    BY <1>2, <1>6, <2>1
  <2>5. SeenFrom(s)!InitCall
    BY <2>3, <2>4 DEF SeenFrom!InitCall
  <2> QED BY <2>2, <2>5 DEF Called, SeenFrom!ReaderNext
<1> QED BY <1>4, <1>5, <1>6

(* What the worker of t does leaves the other sources alone. *)
LEMMA WorkerCalls ==
    ASSUME MappingInv, NEW t \in Sources, Worker(t) \/ WorkerFailure(t),
           NEW s \in Sources
    PROVE  Life(s)' /\ Called(s)
<1>1. /\ main' = main /\ initTask' = initTask /\ joinHandles' = joinHandles
      /\ Life(s) /\ IInv /\ Held(s) /\ Progress(s) /\ Held(t)
  BY DEF Worker, WorkerFailure, RunWorker, RunWorkerFails, RecvEvent, RecvClosed,
         MeasureSource, InitNewPhase, JoinSource, RetrieveResult, MeasureFails,
         RetrieveFails, JoinFails, ConvertFails, WorkerFails, MappingInv, IInv,
         mainVars, orchestratorVars, handleVars
<1>2. /\ worker \in [Sources -> WorkerState] /\ owner \in [Sources -> Owners]
      /\ measured \in [Sources -> Nat] /\ phases \in [Sources -> Seq(Nat)]
      /\ initialised \in [Sources -> BOOLEAN]
  BY <1>1 DEF IInv, TypeOK, RuntimeTypeOK
<1>3. worker[t] \in Live /\ owner[t] = "worker"
  BY <1>1 DEF Worker, WorkerFailure, RunWorker, RunWorkerFails, RecvEvent, RecvClosed,
       MeasureSource, InitNewPhase, JoinSource, RetrieveResult, MeasureFails,
       RetrieveFails, JoinFails, ConvertFails, Held, Live
<1>4. CASE s # t
  <2>1. /\ owner'[s] = owner[s] /\ initialised'[s] = initialised[s]
        /\ worker'[s] = worker[s] /\ measured'[s] = measured[s] /\ phases'[s] = phases[s]
    BY <1>2, <1>4 DEF Worker, WorkerFailure, RunWorker, RunWorkerFails, RecvEvent,
         RecvClosed, MeasureSource, InitNewPhase, JoinSource, RetrieveResult,
         MeasureFails, RetrieveFails, JoinFails, ConvertFails, WorkerFails, EndWorker,
         sourceVars
  <2> QED BY <1>1, <2>1, SourceKept
<1>5. CASE s = t /\ owner'[s] = "dropped"
  <2>1. worker'[s] # "done" \/ s \notin joinHandles
    BY <1>2, <1>3, <1>5 DEF Worker, WorkerFailure, RunWorker, RunWorkerFails, RecvEvent,
       RecvClosed, MeasureSource, InitNewPhase, JoinSource, RetrieveResult, MeasureFails,
       RetrieveFails, JoinFails, ConvertFails, WorkerFails, EndWorker, sourceVars
  <2> QED BY <1>1, <1>5, <2>1, SourceDropped
<1>6. CASE s = t /\ owner'[s] # "dropped"
  <2>1. ~ WorkerFailure(s)
    BY <1>2, <1>6 DEF WorkerFailure, RunWorkerFails, MeasureFails, RetrieveFails, JoinFails,
         ConvertFails, WorkerFails, EndWorker
  <2>2. RunWorker(s)
    BY <1>6, <2>1 DEF Worker
  <2>3. CASE RecvEvent(s) \/ RecvClosed(s)
    <3>1. /\ owner'[s] = "worker" /\ initialised'[s] = initialised[s]
          /\ measured'[s] = measured[s] /\ phases'[s] = phases[s]
          /\ worker[s] = "recv" /\ worker'[s] \in {"measure", "retrieve", "join"}
      <4>1. CASE RecvClosed(s)
        BY <1>2, <1>3, <1>6, <4>1 DEF RecvClosed, sourceVars
      <4>2. CASE RecvEvent(s)
        <5>1. Head(queue[s]) \in SourceEvent
          BY <1>1, <4>2 DEF RecvEvent, IInv, TypeOK, RuntimeTypeOK
        <5> QED BY <1>2, <1>3, <1>6, <4>2, <5>1 DEF RecvEvent, sourceVars, SourceEvent
      <4> QED BY <2>3, <4>1, <4>2
    <3>2. Life(s)'
      BY <1>1, <1>3, <1>6, <3>1 DEF Life
    <3>3. Stage(s)' = Stage(s)
      BY <1>3, <1>6, <3>1 DEF Stage
    <3> QED BY <1>3, <1>6, <3>1, <3>2, <3>3 DEF Called, SeenFrom!readerVars
  <2>4. CASE MeasureSource(s)
    <3>1. /\ owner[s] = "worker" /\ owner'[s] = "worker" /\ initialised'[s] = initialised[s]
          /\ measured'[s] = measured[s] + 1 /\ phases'[s] = phases[s]
          /\ worker[s] = "measure" /\ worker'[s] = "recv" /\ initialised[s]
      BY <1>1, <1>2, <1>3, <1>6, <2>4 DEF MeasureSource, sourceVars, Life
    <3>2. Life(s)'
      BY <3>1 DEF Life
    <3>3. /\ measured[s] \in Nat /\ Len(phases[s]) \in Nat
          /\ \/ measured[s] = 0 /\ Len(phases[s]) = 0
             \/ measured[s] = Len(phases[s]) + 1
      BY <1>1, <1>2, <3>1 DEF Progress
    <3>4. \/ Stage(s) = "started" /\ Stage(s)' = "open"
          \/ Stage(s) = "open" /\ Stage(s)' = "closing"
      BY <3>1, <3>3 DEF Stage
    <3>5. SeenFrom(s)!MeasureCall
      BY <3>1, <3>4 DEF SeenFrom!MeasureCall
    <3> QED BY <3>2, <3>5 DEF Called, SeenFrom!ReaderNext
  <2>5. CASE InitNewPhase(s)
    <3>1. /\ owner[s] = "worker" /\ owner'[s] = "worker" /\ initialised'[s] = initialised[s]
          /\ measured'[s] = measured[s] /\ phases'[s] = Append(phases[s], measured[s])
          /\ worker[s] = "retrieve" /\ worker'[s] = "recv" /\ initialised[s]
      BY <1>1, <1>2, <1>3, <1>6, <2>5 DEF InitNewPhase, sourceVars, Life
    <3>2. Life(s)'
      BY <3>1 DEF Life
    <3>3. /\ measured[s] \in Nat /\ Len(phases[s]) \in Nat
          /\ measured[s] = Len(phases[s]) + 2
      BY <1>1, <1>2, <3>1 DEF Progress
    <3>4. Len(phases'[s]) = Len(phases[s]) + 1
      BY <1>2, <3>1
    <3>5. Stage(s) = "closing" /\ Stage(s)' = "open"
      BY <3>1, <3>3, <3>4 DEF Stage
    <3>6. SeenFrom(s)!RetrieveCall
      BY <3>1, <3>4, <3>5 DEF SeenFrom!RetrieveCall
    <3> QED BY <3>2, <3>6 DEF Called, SeenFrom!ReaderNext
  <2>6. CASE JoinSource(s)
    <3>1. /\ owner[s] = "worker" /\ owner'[s] = "worker" /\ ~ initialised'[s]
          /\ measured'[s] = measured[s] /\ phases'[s] = phases[s]
          /\ worker[s] = "join" /\ worker'[s] = "convert" /\ initialised[s]
      BY <1>1, <1>2, <1>3, <1>6, <2>6 DEF JoinSource, Life
    <3>2. Life(s)'
      BY <3>1 DEF Life
    <3>3. Stage(s) \in {"started", "open", "closing"}
      BY <3>1 DEF Stage
    <3>4. Stage(s)' = "joined"
      BY <3>1 DEF Stage
    <3>5. SeenFrom(s)!JoinCall
      BY <3>1, <3>3, <3>4 DEF SeenFrom!JoinCall
    <3> QED BY <3>2, <3>5 DEF Called, SeenFrom!ReaderNext
  <2>7. CASE RetrieveResult(s)
    <3>1. /\ owner[s] = "worker" /\ owner'[s] = "worker" /\ initialised'[s] = initialised[s]
          /\ measured'[s] = measured[s] /\ phases'[s] = phases[s]
          /\ worker[s] = "convert" /\ worker'[s] = "done" /\ ~ initialised[s]
      BY <1>1, <1>2, <1>3, <1>6, <2>7 DEF RetrieveResult, EndWorker, Life
    <3>2. Life(s)'
      BY <3>1 DEF Life
    <3>3. Stage(s)' = Stage(s)
      BY <3>1 DEF Stage
    <3> QED BY <3>1, <3>2, <3>3 DEF Called, SeenFrom!readerVars
  <2> QED BY <2>2, <2>3, <2>4, <2>5, <2>6, <2>7 DEF RunWorker
<1> QED BY <1>4, <1>5, <1>6

(* A step that leaves the sources to their workers and to their holders. *)
LEMMA NobodyCalled ==
    ASSUME MappingInv, UNCHANGED <<worker, measured, phases, sourceVars, initTask, joinHandles>>,
           \/ main' = main
           \/ main \in {"spawn", "pause", "init"} /\ main' \in {"spawn", "pause", "init"}
           \/ main \notin {"pre_init", "spawn", "pause", "init", "run"}
    PROVE  SourcesCalled
<1> SUFFICES ASSUME NEW s \in Sources PROVE Life(s)' /\ Called(s)
  BY DEF SourcesCalled
<1>1. Life(s)
  BY DEF MappingInv
<1>2. owner[s] # "orchestrator" \/ main \in {"pre_init", "spawn", "pause", "init", "run"}
  BY <1>1 DEF Life
<1> QED BY <1>1, <1>2, SourceKept DEF sourceVars

(* The calls that start with every source at the profiler. *)
LEMMA StartProfileCalls == ASSUME MappingInv, StartProfile PROVE SourcesCalled
<1> SUFFICES ASSUME NEW s \in Sources PROVE Life(s)' /\ Called(s)
  BY DEF SourcesCalled
<1>1. owner[s] = "profiler" /\ ~ initialised[s]
  BY DEF MappingInv, IInv, Ownership, Held, StartProfile, OwnedBy
<1>2. /\ owner'[s] = "orchestrator" /\ main' = "pre_init"
      /\ initialised' = initialised /\ worker'[s] = "none"
  BY <1>1 DEF StartProfile, Reown, OwnedBy
<1>3. Life(s)'
  BY <1>1, <1>2 DEF Life
<1>4. Stage(s) = "idle" /\ Stage(s)' = "idle"
  BY <1>1, <1>2 DEF Stage
<1> QED BY <1>1, <1>2, <1>3, <1>4 DEF Called, SeenFrom!readerVars

(* pre_init() of every source, one after the other. *)
LEMMA PreInitCalls == ASSUME MappingInv, PreInit PROVE SourcesCalled
<1> SUFFICES ASSUME NEW s \in Sources PROVE Life(s)' /\ Called(s)
  BY DEF SourcesCalled
<1>1. /\ owner[s] = "orchestrator" /\ ~ initialised[s] /\ main = "pre_init"
      /\ worker[s] = "none"
  BY DEF MappingInv, IInv, Ownership, Held, PreInit, Life
<1>2. /\ owner' = owner /\ main' = "spawn" /\ initialised' = initialised
      /\ worker' = worker
  BY DEF PreInit, Goto, sourceVars, runtimeVars
<1>3. Life(s)'
  BY <1>1, <1>2 DEF Life
<1>4. Stage(s) = "idle" /\ Stage(s)' = "ready"
  BY <1>1, <1>2 DEF Stage
<1>5. SeenFrom(s)!PreInitCall
  BY <1>1, <1>2, <1>4 DEF SeenFrom!PreInitCall
<1> QED BY <1>3, <1>5 DEF Called, SeenFrom!ReaderNext

(* The sources move into their init tasks: nothing is called yet. *)
LEMMA InitSourcesCalls == ASSUME MappingInv, InitSources PROVE SourcesCalled
<1> SUFFICES ASSUME NEW s \in Sources PROVE Life(s)' /\ Called(s)
  BY DEF SourcesCalled
<1>1. /\ owner[s] = "orchestrator" /\ ~ initialised[s] /\ main = "init"
      /\ worker[s] = "none"
  BY DEF MappingInv, IInv, Ownership, Held, InitSources, Life
<1>2. /\ owner'[s] = "init_task" /\ initTask'[s] = "running"
      /\ initialised' = initialised /\ main' = "wait_init" /\ worker' = worker
  BY <1>1 DEF InitSources, SpawnInitTasks, Reown, OwnedBy, Goto, runtimeVars
<1>3. Life(s)'
  BY <1>1, <1>2 DEF Life
<1>4. Stage(s) = "ready" /\ Stage(s)' = "ready"
  BY <1>1, <1>2 DEF Stage
<1> QED BY <1>1, <1>2, <1>3, <1>4 DEF Called, SeenFrom!readerVars

(* The sources come back from their init tasks, initialised. *)
LEMMA InitDoneCalls == ASSUME MappingInv, InitDone PROVE SourcesCalled
<1> SUFFICES ASSUME NEW s \in Sources PROVE Life(s)' /\ Called(s)
  BY DEF SourcesCalled
<1>1. initTask[s] # "panicked" /\ initTask[s] # "running" /\ initTask[s] # "failed"
  BY DEF InitDone
<1>2. /\ owner[s] = "init_task" /\ initTask[s] = "ok" /\ initialised[s]
      /\ worker[s] = "none"
  BY <1>1 DEF MappingInv, IInv, Ownership, Held, Life, InitDone
<1>3. /\ owner'[s] = "orchestrator" /\ initialised' = initialised /\ main' = "run"
      /\ worker' = worker
  BY <1>2 DEF InitDone, Reown, OwnedBy, Goto, runtimeVars
<1>4. Life(s)'
  BY <1>2, <1>3 DEF Life
<1>5. Stage(s) = "started" /\ Stage(s)' = "started"
  BY <1>2, <1>3 DEF Stage
<1> QED BY <1>2, <1>3, <1>4, <1>5 DEF Called, SeenFrom!readerVars

(* run() hands every source to a new worker. *)
LEMMA RunSourcesCalls == ASSUME MappingInv, RunSources PROVE SourcesCalled
<1> SUFFICES ASSUME NEW s \in Sources PROVE Life(s)' /\ Called(s)
  BY DEF SourcesCalled
<1>1. owner[s] = "orchestrator" /\ initialised[s] /\ main = "run"
  BY DEF MappingInv, IInv, Ownership, RunSources, Life
<1>2. /\ owner'[s] = "worker" /\ worker'[s] = "recv" /\ initialised' = initialised
      /\ measured'[s] = 0 /\ phases'[s] = <<>>
  BY <1>1 DEF RunSources, StartWorkers, Reown, OwnedBy
<1>3. Life(s)'
  BY <1>1, <1>2 DEF Life
<1>4. Len(phases'[s]) = 0
  BY <1>2
<1>5. Stage(s) = "started" /\ Stage(s)' = "started"
  BY <1>1, <1>2, <1>4 DEF Stage
<1> QED BY <1>1, <1>2, <1>3, <1>4, <1>5 DEF Called, SeenFrom!readerVars

(* A call that succeeds gives back sources that closed a phase and joined. *)
LEMMA ReturnResultsCalls == ASSUME MappingInv, ReturnResults PROVE SourcesCalled
<1> SUFFICES ASSUME NEW s \in Sources PROVE Life(s)' /\ Called(s)
  BY DEF SourcesCalled
<1>1. /\ IInv /\ main = "join_all" /\ readerResult = "ok" /\ reader = "done"
      /\ joinHandles = Sources /\ detected \in Nat /\ detected >= 2
  BY DEF MappingInv, IInv, Handles, Control, ReturnResults, TypeOK
<1>2. worker[s] = "done" /\ phases[s] = [k \in 1 .. detected - 1 |-> k + 1]
  BY <1>1, ResultsAligned
<1>3. Len(phases[s]) = detected - 1
  BY <1>1, <1>2
<1>4. Base = 2 * detected - 1
  BY <1>1 DEF Base
<1>5. measured[s] \in Nat /\ measured[s] + Len(phases[s]) = Base
  BY <1>1, <1>2, DoneTookAll
<1>6. measured[s] = Len(phases[s]) + 1 /\ Len(phases[s]) > 0
  BY <1>1, <1>3, <1>4, <1>5
<1>7. owner[s] = "worker" /\ ~ initialised[s]
  <2>1. Held(s) /\ Life(s) /\ owner[s] \in Owners
    BY DEF MappingInv, IInv, TypeOK, RuntimeTypeOK
  <2> QED BY <1>1, <1>2, <2>1 DEF Held, Life
<1>8. owner'[s] = "profiler" /\ initialised' = initialised /\ joinHandles' = {}
  BY <1>1 DEF ReturnResults, Reown
<1>9. Life(s)'
  BY <1>8 DEF Life
<1>10. Stage(s) = "joined" /\ Stage(s)' = "idle"
  BY <1>7, <1>8 DEF Stage
<1>11. SeenFrom(s)!GiveBack
  BY <1>6, <1>7, <1>8, <1>10 DEF SeenFrom!GiveBack
<1> QED BY <1>9, <1>11 DEF Called, SeenFrom!ReaderNext

(* A call of profile() that returns early. *)
LEMMA AbortCalls ==
    ASSUME MappingInv, DropOrchestrator, UNCHANGED <<runtimeVars, initialised, initTask>>
    PROVE  SourcesCalled
BY DropCalls DEF SourcesCalled

(* Up to the reader thread, the caller calls pre_init(), or nobody. *)
LEMMA CallerStepCalls == ASSUME MappingInv, CallerStep PROVE SourcesCalled
<1>1. CASE InvalidPattern \/ NoSourceConfigured \/ SpawnReader
  BY <1>1, NobodyCalled
     DEF InvalidPattern, NoSourceConfigured, SpawnReader, Goto, runtimeVars, handleVars,
         orchestratorVars
<1>2. CASE StartProfile
  BY <1>2, StartProfileCalls
<1>3. CASE PreInit
  BY <1>3, PreInitCalls
<1>4. CASE SpawnCommand \/ PauseProcess
  BY <1>4, NobodyCalled
     DEF SpawnCommand, PauseProcess, Goto, runtimeVars, handleVars, orchestratorVars
<1>5. CASE InitSources
  BY <1>5, InitSourcesCalls
<1>6. CASE InitDone
  BY <1>6, InitDoneCalls
<1>7. CASE RunSources
  BY <1>7, RunSourcesCalls
<1>8. CASE \/ PreInitFails \/ SpawnFails \/ PauseFails \/ InitTimeout \/ InitPanicked
           \/ InitFailed \/ SpawnReaderFails
  BY <1>8, AbortCalls
     DEF PreInitFails, SpawnFails, PauseFails, InitTimeout, InitPanicked, InitFailed,
         SpawnReaderFails, Abort
<1> QED BY <1>1, <1>2, <1>3, <1>4, <1>5, <1>6, <1>7, <1>8 DEF CallerStep

(* From the reader's answer on, sources are given back or dropped. *)
LEMMA FinalizeStepCalls == ASSUME MappingInv, FinalizeStep PROVE SourcesCalled
<1>1. CASE ReceiveReaderResult \/ WaitForChildExit
  BY <1>1, NobodyCalled
     DEF ReceiveReaderResult, WaitForChildExit, runtimeVars, handleVars, orchestratorVars
<1>2. CASE \E s \in Sources : FinalizeSendJoin(s)
  BY <1>2, NobodyCalled
     DEF FinalizeSendJoin, SendJoin, mainVars, handleVars
<1>3. CASE FinalizeTakeHandles
  BY <1>3, NobodyCalled
     DEF FinalizeTakeHandles, TakeHandles, Goto, runtimeVars
<1>4. CASE \/ WaitFails \/ FinalizeJoinError \/ FinalizeFails
           \/ \E s \in Sources : FinalizeSendFails(s)
  BY <1>4, AbortCalls
     DEF WaitFails, FinalizeJoinError, FinalizeFails, FinalizeSendFails, Abort
<1>5. CASE ReturnResults
  BY <1>5, ReturnResultsCalls
<1> QED BY <1>1, <1>2, <1>3, <1>4, <1>5 DEF FinalizeStep

(* The reader thread only sends events; a panic drops the orchestrator. *)
LEMMA ReaderStepCalls == ASSUME MappingInv, ReaderStep PROVE SourcesCalled
<1>1. CASE ReaderPanics
  BY <1>1, AbortCalls DEF ReaderPanics
<1>2. CASE SendEvent
  BY <1>2, NobodyCalled
     DEF SendEvent, BlockingSend, mainVars, handleVars, orchestratorVars
<1>3. CASE \/ CreateSink \/ CreateSinkFails \/ SendEventFails \/ ResumeProcess
           \/ ResumeFails \/ ReadLine \/ ReadToken \/ WriteFails \/ ReadFails
           \/ ReadEof \/ FlushFails
  BY <1>3, NobodyCalled
     DEF CreateSink, CreateSinkFails, SendEventFails, ResumeProcess, ResumeFails,
         ReadLine, ReadToken, WriteFails, ReadFails, ReadEof, FlushFails, mainVars,
         runtimeVars, handleVars, orchestratorVars
<1> QED BY <1>1, <1>2, <1>3 DEF ReaderStep

(* Every step of the profiler is a call of its protocol to each source, or *)
(* no call.                                                                *)
LEMMA StepCalls == ASSUME MappingInv, [Next]_vars PROVE SourcesCalled
<1>1. CASE CallerStep
  BY <1>1, CallerStepCalls
<1>2. CASE FinalizeStep
  BY <1>2, FinalizeStepCalls
<1>3. CASE ReaderStep
  BY <1>3, ReaderStepCalls
<1>4. CASE SourceStep
  <2>1. PICK t \in Sources :
           InitTask(t) \/ InitTaskFails(t) \/ Worker(t) \/ WorkerFailure(t)
    BY <1>4 DEF SourceStep
  <2> QED BY <2>1, InitTaskCalls, WorkerCalls DEF SourcesCalled
<1>5. CASE ChildStep
  BY <1>5, NobodyCalled
     DEF ChildStep, ChildWrites, StdoutCloses, ChildExits, mainVars, runtimeVars,
         handleVars, orchestratorVars
<1>6. CASE Finished \/ UNCHANGED vars
  BY <1>6, NobodyCalled
     DEF Finished, vars, mainVars, runtimeVars, handleVars, orchestratorVars
<1> QED BY <1>1, <1>2, <1>3, <1>4, <1>5, <1>6 DEF Next

-----------------------------------------------------------------------------
(* The session of PhaseProfiling *)

Profiles == Abstract!Next \/ UNCHANGED Abstract!vars

(* While a call is in progress, nobody has an outcome of it. *)
InProgress == main # "idle" => outcome = "none"

(* A call that returns early fails, and the sources are not the profiler's. *)
LEMMA AbortProfiles ==
    ASSUME MappingInv, main # "idle", NEW result, result # "ok", Abort(result),
           detected' = detected, readerResult' = readerResult
    PROVE  Profiles /\ InProgress'
<1>1. /\ main' = "idle" /\ outcome = "none" /\ outcome' # "ok"
      /\ runs' = runs /\ reported' = reported
  BY DEF Abort, Return, MappingInv
<1>2. \A s \in Sources : owner[s] # "profiler" /\ owner'[s] # "profiler"
  BY DEF Abort, DropOrchestrator, Reown, MappingInv, IInv, Ownership
<1>3. Abstract!Fail
  BY <1>1, <1>2 DEF Abstract!Fail, Boundaries, OwnedBy
<1> QED BY <1>1, <1>3 DEF Profiles, Abstract!Next, InProgress

(* Neither the user nor the profiler's sources notice the step. *)
LEMMA NobodyNotices ==
    ASSUME MappingInv, UNCHANGED <<main, runs, outcome, reported, owner>>,
           Boundaries' = Boundaries
    PROVE  Profiles /\ InProgress'
BY DEF Profiles, Abstract!vars, OwnedBy, InProgress, MappingInv

(* The caller's steps up to the reader thread: refuse, begin, or fail. *)
LEMMA CallerStepProfiles == ASSUME MappingInv, CallerStep PROVE Profiles /\ InProgress'
<1>1. CASE InvalidPattern \/ NoSourceConfigured
  <2>1. /\ main = "idle" /\ main' = "idle" /\ runs < MaxRuns /\ runs' = runs + 1
        /\ outcome' # "ok" /\ reported' = reported /\ owner' = owner
        /\ detected' = detected /\ readerResult' = readerResult
    BY <1>1 DEF InvalidPattern, NoSourceConfigured, sourceVars, readerVars
  <2>2. Abstract!Refuse
    BY <2>1 DEF Abstract!Refuse, Boundaries, OwnedBy
  <2> QED BY <2>1, <2>2 DEF Profiles, Abstract!Next, InProgress
<1>2. CASE StartProfile
  <2>1. /\ main = "idle" /\ main' = "pre_init" /\ runs < MaxRuns /\ runs' = runs + 1
        /\ outcome' = "none" /\ reported' = reported /\ detected' = 0
        /\ OwnedBy("profiler") # {}
        /\ \A s \in Sources : owner'[s] # "profiler"
    BY <1>2 DEF StartProfile, Reown, OwnedBy
  <2>2. Abstract!Begin
    BY <2>1 DEF Abstract!Begin, Boundaries, OwnedBy
  <2> QED BY <2>1, <2>2 DEF Profiles, Abstract!Next, InProgress
<1>3. CASE PreInit \/ SpawnCommand \/ PauseProcess \/ InitSources \/ InitDone
           \/ RunSources \/ SpawnReader
  <2>1. /\ main # "idle" /\ main' # "idle"
        /\ runs' = runs /\ outcome' = outcome /\ reported' = reported
        /\ detected' = detected /\ readerResult' = readerResult
    BY <1>3 DEF PreInit, SpawnCommand, PauseProcess, InitSources, InitDone, RunSources,
         SpawnReader, Goto, readerVars
  <2>2. \A s \in Sources : owner[s] # "profiler" /\ owner'[s] # "profiler"
    BY <1>3, <2>1
       DEF MappingInv, IInv, Ownership, PreInit, SpawnCommand, PauseProcess, InitSources,
           SpawnInitTasks, InitDone, RunSources, StartWorkers, SpawnReader, Reown, OwnedBy,
           sourceVars
  <2> QED BY <2>1, <2>2
          DEF Profiles, Abstract!vars, Boundaries, OwnedBy, InProgress, MappingInv
<1>4. CASE \/ PreInitFails \/ SpawnFails \/ PauseFails \/ InitTimeout \/ InitPanicked
           \/ InitFailed \/ SpawnReaderFails
  <2>1. /\ main # "idle" /\ detected' = detected /\ readerResult' = readerResult
        /\ \/ Abort("MetricSourceError") \/ Abort("SpawnFailed")
           \/ Abort("ProcessControlFailed") \/ Abort("InitializationError")
           \/ Abort("JoinError") \/ Abort("ReaderThreadSpawnFailed")
    BY <1>4 DEF PreInitFails, SpawnFails, PauseFails, InitTimeout, InitPanicked, InitFailed,
         SpawnReaderFails, readerVars
  <2> QED BY <2>1, AbortProfiles
<1> QED BY <1>1, <1>2, <1>3, <1>4 DEF CallerStep

(* The end of the call: it succeeds with one phase more than boundaries, or *)
(* fails.                                                                   *)
LEMMA FinalizeStepProfiles == ASSUME MappingInv, FinalizeStep PROVE Profiles /\ InProgress'
<1>1. CASE ReceiveReaderResult \/ WaitForChildExit
  <2>1. /\ main # "idle" /\ outcome = "none" /\ runs' = runs /\ reported' = reported
        /\ detected' = detected /\ readerResult' = readerResult /\ owner' = owner
        /\ \/ main' # "idle" /\ outcome' = outcome
           \/ main' = "idle" /\ outcome' = "ReaderThreadPanicked"
    BY <1>1 DEF ReceiveReaderResult, WaitForChildExit, Goto, Return, readerVars, sourceVars,
         MappingInv
  <2>2. CASE main' # "idle" /\ outcome' = outcome
    BY <2>1, <2>2 DEF Profiles, Abstract!vars, Boundaries, OwnedBy, InProgress
  <2>3. CASE main' = "idle" /\ outcome' = "ReaderThreadPanicked"
    <3>1. Abstract!Fail
      BY <2>1, <2>3 DEF Abstract!Fail, Boundaries, OwnedBy
    <3> QED BY <2>3, <3>1 DEF Profiles, Abstract!Next, InProgress
  <2> QED BY <2>1, <2>2, <2>3
<1>2. CASE \E s \in Sources : FinalizeSendJoin(s)
  BY <1>2, NobodyNotices DEF FinalizeSendJoin, SendJoin, mainVars, readerVars, sourceVars,
     Boundaries
<1>3. CASE FinalizeTakeHandles
  <2>1. /\ main # "idle" /\ main' # "idle"
        /\ runs' = runs /\ outcome' = outcome /\ reported' = reported
        /\ detected' = detected /\ readerResult' = readerResult /\ owner' = owner
    BY <1>3 DEF FinalizeTakeHandles, TakeHandles, Goto, readerVars, sourceVars
  <2> QED BY <2>1
          DEF Profiles, Abstract!vars, Boundaries, OwnedBy, InProgress, MappingInv
<1>4. CASE \/ WaitFails \/ FinalizeJoinError \/ FinalizeFails
           \/ \E s \in Sources : FinalizeSendFails(s)
  <2>1. PICK result : result # "ok" /\ Abort(result)
    BY <1>4 DEF WaitFails, FinalizeJoinError, FinalizeFails, FinalizeSendFails, EventError
  <2>2. main # "idle" /\ detected' = detected /\ readerResult' = readerResult
    BY <1>4 DEF WaitFails, FinalizeJoinError, FinalizeFails, FinalizeSendFails, readerVars
  <2> QED BY <2>1, <2>2, AbortProfiles
<1>5. CASE ReturnResults
  <2>1. /\ main # "idle" /\ main' = "idle" /\ outcome' = "ok" /\ runs' = runs
        /\ readerResult = "ok" /\ detected' = detected /\ readerResult' = readerResult
        /\ detected \in Nat /\ detected >= 2 /\ joinHandles = Sources
        /\ reported' = ReportedPhases
    BY <1>5 DEF ReturnResults, readerVars, MappingInv, IInv, Control, Handles, TypeOK
  <2>2. ReportedPhases = detected - 1
    BY <1>5, ResultsAligned DEF MappingInv
  <2>3. 1 \in Sources /\ owner'[1] = "profiler"
    BY <1>5, <2>1, NAssumption DEF ReturnResults, Reown, Sources
  <2>4. Abstract!Succeed
    BY <2>1, <2>2, <2>3 DEF Abstract!Succeed, Boundaries, OwnedBy
  <2> QED BY <2>1, <2>4 DEF Profiles, Abstract!Next, InProgress
<1> QED BY <1>1, <1>2, <1>3, <1>4, <1>5 DEF FinalizeStep

(* The reader thread passes a boundary when every worker was sent NewPhase. *)
LEMMA SendEventProfiles == ASSUME MappingInv, SendEvent PROVE Profiles /\ InProgress'
<1>1. /\ UNCHANGED <<main, runs, outcome, reported, owner>>
      /\ main # "idle" /\ outcome = "none"
      /\ reader \in Broadcasting /\ readerResult = "none" /\ detected \in Nat
      /\ reader \in {"new_phase", "last_phase"} => detected >= 1
  BY DEF SendEvent, BlockingSend, mainVars, sourceVars, MappingInv, IInv, Control, TypeOK,
         Broadcasting
<1>2. CASE cursor < N
  BY <1>1, <1>2, NobodyNotices DEF SendEvent, Boundaries
<1>3. CASE ~ (cursor < N) /\ reader = "new_phase"
  <2>1. detected' = detected + 1 /\ readerResult' = readerResult
    BY <1>3 DEF SendEvent, BroadcastEvent
  <2>2. Boundaries' = Boundaries + 1
    BY <1>1, <1>3, <2>1 DEF Boundaries
  <2>3. Abstract!PassBoundary
    BY <1>1, <2>2 DEF Abstract!PassBoundary, OwnedBy
  <2> QED BY <1>1, <2>3 DEF Profiles, Abstract!Next, InProgress
<1>4. CASE ~ (cursor < N) /\ reader = "last_phase"
  <2>1. detected' = detected + 1 /\ readerResult' = "ok"
    BY <1>4 DEF SendEvent, BroadcastEvent
  <2>2. Boundaries' = Boundaries
    BY <1>1, <1>4, <2>1 DEF Boundaries
  <2> QED BY <1>1, <2>2, NobodyNotices
<1>5. CASE ~ (cursor < N) /\ reader \in {"first_measure", "measure", "last_measure"}
  <2>1. detected' = detected /\ readerResult' = readerResult
    BY <1>5 DEF SendEvent, BroadcastEvent, Measure, NewPhase
  <2> QED BY <1>1, <2>1, NobodyNotices DEF Boundaries
<1> QED BY <1>1, <1>2, <1>3, <1>4, <1>5 DEF Broadcasting

(* Nothing else that the reader thread does is told to the user. *)
LEMMA ReaderStepProfiles == ASSUME MappingInv, ReaderStep PROVE Profiles /\ InProgress'
<1>1. CASE SendEvent
  BY <1>1, SendEventProfiles
<1>2. CASE ReaderPanics
  <2>1. /\ UNCHANGED <<main, runs, outcome, reported, detected>>
        /\ main = "await_reader" /\ readerResult = "none" /\ readerResult' = "panicked"
    BY <1>2 DEF ReaderPanics, ReaderReturns, mainVars, MappingInv, IInv, Control
  <2>2. \A s \in Sources : owner[s] # "profiler" /\ owner'[s] # "profiler"
    BY <1>2, <2>1
       DEF ReaderPanics, DropOrchestrator, Reown, MappingInv, IInv, Ownership
  <2> QED BY <2>1, <2>2
          DEF Profiles, Abstract!vars, Boundaries, OwnedBy, InProgress, MappingInv
<1>3. CASE ResumeProcess
  <2>1. /\ UNCHANGED <<main, runs, outcome, reported, owner>>
        /\ detected = 0 /\ detected' = 1 /\ readerResult = "none" /\ readerResult' = "none"
    BY <1>3 DEF ResumeProcess, mainVars, sourceVars, MappingInv, IInv, Control
  <2> QED BY <2>1, NobodyNotices DEF Boundaries
<1>4. CASE \/ CreateSink \/ CreateSinkFails \/ SendEventFails \/ ResumeFails
           \/ ReadLine \/ ReadToken \/ WriteFails \/ ReadFails \/ ReadEof \/ FlushFails
  <2>1. /\ UNCHANGED <<main, runs, outcome, reported, owner>>
        /\ detected' = detected
        /\ \/ readerResult' = readerResult
           \/ readerResult = "none" /\ readerResult' \in ReaderErrors
    BY <1>4 DEF CreateSink, CreateSinkFails, SendEventFails, ResumeFails, ReadLine,
         ReadToken, WriteFails, ReadFails, ReadEof, EndOfFile, FlushFails, ReaderGoto,
         ReaderReturns, ReaderErrors, Broadcasting, readerVars, mainVars, sourceVars,
         MappingInv, IInv, Control
  <2>2. Boundaries' = Boundaries
    BY <2>1 DEF Boundaries, ReaderErrors
  <2> QED BY <2>1, <2>2, NobodyNotices
<1> QED BY <1>1, <1>2, <1>3, <1>4 DEF ReaderStep

(* Workers and init tasks never give a source back by themselves. *)
LEMMA SourceStepProfiles == ASSUME MappingInv, SourceStep PROVE Profiles /\ InProgress'
<1>1. PICK t \in Sources :
         InitTask(t) \/ InitTaskFails(t) \/ Worker(t) \/ WorkerFailure(t)
  BY DEF SourceStep
<1>2. UNCHANGED <<main, runs, outcome, reported, detected, readerResult>>
  BY <1>1 DEF InitTask, InitTaskFails, Worker, WorkerFailure, mainVars, readerVars
<1>3. \A s \in Sources : owner'[s] = "profiler" <=> owner[s] = "profiler"
  <2>1. /\ Held(t) /\ owner \in [Sources -> Owners]
    BY DEF MappingInv, IInv, TypeOK, RuntimeTypeOK
  <2>2. CASE InitTask(t) \/ InitTaskFails(t)
    <3>1. owner[t] = "init_task"
      BY <2>1, <2>2 DEF InitTask, InitTaskFails, InitTaskEnds, Held
    <3> QED BY <2>1, <2>2, <3>1 DEF InitTask, InitTaskFails, InitTaskEnds
  <2>3. CASE Worker(t) \/ WorkerFailure(t)
    <3> USE DEF Worker, WorkerFailure, RunWorker, RunWorkerFails, RecvEvent, RecvClosed,
           MeasureSource, InitNewPhase, JoinSource, RetrieveResult, MeasureFails,
           RetrieveFails, JoinFails, ConvertFails
    <3>1. owner[t] = "worker"
      BY <2>1, <2>3 DEF Held, Live
    <3> QED BY <2>1, <2>3, <3>1 DEF WorkerFails, EndWorker, sourceVars
  <2> QED BY <1>1, <2>2, <2>3
<1>4. OwnedBy("profiler")' = OwnedBy("profiler")
  BY <1>3 DEF OwnedBy
<1> QED BY <1>2, <1>4 DEF Profiles, Abstract!vars, Boundaries, InProgress, MappingInv

(* Every step of the profiler is a step of the session, or none. *)
LEMMA StepProfiles == ASSUME MappingInv, [Next]_vars PROVE Profiles /\ InProgress'
<1>1. CASE ChildStep \/ Finished \/ UNCHANGED vars
  <2>1. UNCHANGED <<main, runs, outcome, reported, owner, detected, readerResult>>
    BY <1>1 DEF ChildStep, ChildWrites, StdoutCloses, ChildExits, Finished, vars,
         sourceVars, mainVars, readerVars
  <2> QED BY <2>1, NobodyNotices DEF Boundaries
<1> QED BY <1>1, CallerStepProfiles, FinalizeStepProfiles, ReaderStepProfiles,
           SourceStepProfiles DEF Next

-----------------------------------------------------------------------------
(* The two refinements *)

(* Init: all sources are idle, and no call was made. *)
LEMMA MappingBase ==
    ASSUME Init
    PROVE  /\ MappingInv
           /\ Abstract!Init
           /\ \A s \in Sources : SeenFrom(s)!ReaderInit
<1>1. IInv
  BY InductionBase
<1>2. MappingInv
  BY <1>1 DEF MappingInv, Life, Init
<1>3. OwnedBy("profiler") # {}
  <2>1. 1 \in Sources
    BY NAssumption DEF Sources
  <2> QED BY <2>1 DEF Init, OwnedBy
<1>4. Abstract!Init
  BY <1>3 DEF Init, Abstract!Init, Boundaries
<1>5. \A s \in Sources : SeenFrom(s)!ReaderInit
  BY DEF Init, SeenFrom!ReaderInit, Stage
<1> QED BY <1>2, <1>4, <1>5

(* What the mappings rest on is kept by every step. *)
LEMMA MappingStep == MappingInv /\ [Next]_vars => MappingInv'
<1> SUFFICES ASSUME MappingInv, [Next]_vars PROVE MappingInv'
  OBVIOUS
<1>1. IInv'
  BY InductionStep DEF MappingInv
<1>2. \A s \in Sources : Life(s)'
  BY StepCalls DEF SourcesCalled
<1>3. InProgress'
  BY StepProfiles
<1> QED BY <1>1, <1>2, <1>3 DEF MappingInv, InProgress

(* MappingInv holds in every state of every behaviour of the profiler. *)
THEOREM MappingInvariance == Spec => []MappingInv
<1>1. Init => MappingInv
  BY MappingBase
<1> QED BY <1>1, MappingStep, PTL DEF Spec

(* profile(), with its reader thread, workers, channels and failures,     *)
(* implements the session that PhaseProfiling promises: one phase more    *)
(* than boundaries passed on success, no results and no sources on error. *)
THEOREM Refinement == Spec => ImplementsPhaseProfiling
<1>1. Init => Abstract!Init
  BY MappingBase
<1>2. MappingInv /\ [Next]_vars => [Abstract!Next]_Abstract!vars
  BY StepProfiles DEF Profiles
<1> QED BY <1>1, <1>2, MappingInvariance, PTL
        DEF Spec, ImplementsPhaseProfiling, Abstract!Spec

(* Each source is called in the order of the MetricReader protocol, *)
(* whatever fails and however the calls of the others interleave.   *)
THEOREM SourcesInOrder == Spec => CallsSourcesInOrder
<1>1. Init => \A s \in Sources : SeenFrom(s)!ReaderInit
  BY MappingBase
<1>2. MappingInv /\ [Next]_vars =>
         [ \A s \in Sources :
             SeenFrom(s)!ReaderNext \/ UNCHANGED SeenFrom(s)!readerVars ]_vars
  BY StepCalls DEF SourcesCalled, Called
<1> QED BY <1>1, <1>2, MappingInvariance, PTL DEF Spec, CallsSourcesInOrder

=============================================================================
