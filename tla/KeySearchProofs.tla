-------------------------- MODULE KeySearchProofs --------------------------
(***************************************************************************)
(* Proofs about KeySearch, for any workers, batches, keys and funded       *)
(* addresses: its safety, what the two log files hold, and that the        *)
(* search implements SearchContract.  For the logs the first invariant is  *)
(* extended by what is known of each worker's current batch and of the     *)
(* workers that failed.                                                    *)
(***************************************************************************)
EXTENDS KeySearch, TLAPS, FiniteSetTheorems

-----------------------------------------------------------------------------
(* The strengthening, in parts named for what they speak of.               *)

Starting == {"check", "create"}
InBatch  == {"compressed", "uncompressed", "lookup", "log"}
InLoop   == InBatch \cup {"draw", "post"}
Over     == {"failed", "stopped"}

\* The main thread died before it started a worker.
Stillborn == pc[Main] = "failed" /\ \A w \in Workers : pc[w] = "unborn"

\* The main thread has created the log files before any worker is born.
LogFiles ==
    /\ pc[Main] \in Starting =>
         /\ log = <<>>
         /\ path[Main] >= 2 => "folder" \in present
         /\ path[Main] >= 3 => "log" \in present
    /\ pc[Main] = "create" => LogPaths[path[Main]] \notin present
    /\ pc[Main] \notin Starting /\ ~Stillborn => present = {"folder", "log", "error"}
    /\ \A w \in Workers : pc[w] # "create"

\* Where the main thread is tells which workers are born.
MainOrder ==
    /\ pc[Main] \in {"check", "create", "init", "spawn", "await", "end", "failed"}
    /\ pc[Main] \in {"check", "create", "init"} => \A w \in Workers : pc[w] = "unborn"
    /\ pc[Main] \in {"await", "end"} => \A w \in Workers : pc[w] # "unborn"
    /\ \A w \in Workers : pc[w] \notin {"init", "spawn", "await", "end"}

\* A promise is resolved by the error or by the exit of a worker that is over,
\* and an exit that was handled had its error handled with it.
Endings ==
    /\ resolved = errored \cup exited
    /\ errored \subseteq failed /\ failed \cap exited \subseteq errored
    /\ \A w \in failed : pc[w] \in Over
    /\ \A w \in exited : pc[w] = "stopped" /\ port[w] = 0
    /\ pc[Main] = "end" => resolved = Workers

\* The table exists from the start of the first worker to the report, or to
\* the end of the process if there is none.
Table ==
    /\ pc[Main] \in {"spawn", "await", "failed"} /\ ~Stillborn => bmul = "table" /\ allocated
    /\ TableSafe

\* Where a worker is tells how far it is in its batches.
WorkerProgress(w) ==
    /\ port[w] <= posted[w]
    /\ pc[w] \in {"unborn", "check", "create", "open"} => posted[w] = 0
    /\ pc[w] \in InLoop => posted[w] < NumBatches
    /\ pc[w] \in {"close", "finished"} => posted[w] = NumBatches
    /\ pc[w] = "stopped" /\ w \notin failed => posted[w] = NumBatches
    /\ pc[w] = "failed" => w \in failed
    /\ pc[w] \in InBatch => Len(drawn[w]) >= 1
    /\ pc[w] = "log" => slot[w] >= 1

Progress == \A w \in Workers : WorkerProgress(w)

Inv == TypeOK /\ LogFiles /\ MainOrder /\ Endings /\ Table /\ Progress

-----------------------------------------------------------------------------
(* Frames: which actions touch which group of variables.                   *)

\* The death of the main thread changes nothing but its place.
LEMMA MainDies ==
    ASSUME TypeOK, Fail(Main)
    PROVE  /\ pc'[Main] = "failed" /\ \A w \in Workers : pc'[w] = pc[w]
           /\ UNCHANGED <<logVars, tableVars, workerVars, eventVars>>
<1>1. failed' = failed
  BY SearchAssumption DEF Fail
<1> QED
  BY <1>1, SearchAssumption DEF Fail, Goto, TypeOK, Threads, eventVars

LEMMA LogFrame ==
    ASSUME [Next]_vars
    PROVE  \/ UNCHANGED logVars
           \/ \E t \in Threads : InitializeLogs(t)
           \/ \E w \in Workers : OnError(w) \/ OnExit(w) \/ (LogKey(w) /\ ~Fail(w))
<1>1. CASE UNCHANGED vars
  BY <1>1 DEF vars
<1>2. CASE MainStep
  BY <1>2 DEF MainStep, PublicKeyCreateInit, StartWorker, Finish, Fail
<1>3. ASSUME NEW w \in Workers, WorkerStep(w), ~LogKey(w) \/ Fail(w)
      PROVE  UNCHANGED logVars
  BY <1>3 DEF WorkerStep, OpenDatabase, CreatePrivateKey, CompressedDone, UncompressedDone,
              LookupAnswers, PostMessage, CloseDatabase, ThreadStops, Fail
<1>4. ASSUME NEW w \in Workers, OnMessage(w)
      PROVE  UNCHANGED logVars
  BY <1>4 DEF OnMessage
<1> QED
  BY <1>1, <1>2, <1>3, <1>4 DEF Next, EventStep, ProgressTimer, ProcessEnded

LEMMA TableFrame ==
    ASSUME [Next]_vars
    PROVE  \/ UNCHANGED tableVars
           \/ PublicKeyCreateInit \/ Finish
           \/ \E w \in Workers : \/ CreatePrivateKey(w) \/ CompressedDone(w)
                                 \/ UncompressedDone(w) \/ NextSlot(w)
<1>1. CASE UNCHANGED vars
  BY <1>1 DEF vars
<1>2. ASSUME NEW t \in Threads, InitializeLogs(t)
      PROVE  UNCHANGED tableVars
  BY <1>2 DEF InitializeLogs, CheckPath, CreatePath, Fail
<1>3. ASSUME NEW w \in Workers, StartWorker(w) \/ EventStep(w)
      PROVE  UNCHANGED tableVars
  BY <1>3 DEF StartWorker, EventStep, OnMessage, OnError, OnExit, Fail
<1>4. ASSUME NEW w \in Workers, WorkerStep(w), ~CreatePrivateKey(w), ~CompressedDone(w),
             ~UncompressedDone(w), ~NextSlot(w)
      PROVE  UNCHANGED tableVars
  BY <1>4 DEF WorkerStep, OpenDatabase, LookupAnswers, LogKey, PostMessage, CloseDatabase,
              ThreadStops, Fail
<1> QED
  BY <1>1, <1>2, <1>3, <1>4 DEF Next, MainStep, ProgressTimer, ProcessEnded

LEMMA WorkerFrame ==
    ASSUME [Next]_vars
    PROVE  \/ UNCHANGED workerVars
           \/ \E w \in Workers : CreatePrivateKey(w) \/ LookupAnswers(w) \/ LogKey(w) \/ PostMessage(w)
<1>1. CASE UNCHANGED vars
  BY <1>1 DEF vars
<1>2. ASSUME NEW t \in Threads, InitializeLogs(t)
      PROVE  UNCHANGED workerVars
  BY <1>2 DEF InitializeLogs, CheckPath, CreatePath, Fail
<1>3. CASE MainStep
  BY <1>3 DEF MainStep, PublicKeyCreateInit, StartWorker, Finish, Fail
<1>4. ASSUME NEW w \in Workers, EventStep(w)
      PROVE  UNCHANGED workerVars
  BY <1>4 DEF EventStep, OnMessage, OnError, OnExit, Fail
<1>5. ASSUME NEW w \in Workers, WorkerStep(w), ~CreatePrivateKey(w), ~LookupAnswers(w),
             ~LogKey(w), ~PostMessage(w)
      PROVE  UNCHANGED workerVars
  BY <1>5 DEF WorkerStep, OpenDatabase, CompressedDone, UncompressedDone, CloseDatabase,
              ThreadStops, Fail
<1> QED
  BY <1>1, <1>2, <1>3, <1>4, <1>5 DEF Next, ProgressTimer, ProcessEnded

LEMMA EventFrame ==
    ASSUME TypeOK, [Next]_vars
    PROVE  \/ UNCHANGED eventVars
           \/ Finish
           \/ \E w \in Workers :
                 Fail(w) \/ OnMessage(w) \/ OnError(w) \/ OnExit(w) \/ PostMessage(w)
<1>1. CASE UNCHANGED vars
  BY <1>1 DEF vars
<1>2. ASSUME NEW t \in Threads, InitializeLogs(t), ~Fail(t)
      PROVE  UNCHANGED eventVars
  BY <1>2 DEF InitializeLogs, CheckPath, CreatePath
<1>5. CASE Fail(Main)
  BY <1>5, MainDies
<1>3. ASSUME MainStep, ~Finish, ~Fail(Main)
      PROVE  UNCHANGED eventVars
  BY <1>3 DEF MainStep, PublicKeyCreateInit, StartWorker
<1>4. ASSUME NEW w \in Workers, WorkerStep(w), ~PostMessage(w), ~Fail(w)
      PROVE  UNCHANGED eventVars
  BY <1>4 DEF WorkerStep, OpenDatabase, CreatePrivateKey, CompressedDone, UncompressedDone,
              LookupAnswers, LogKey, CloseDatabase, ThreadStops
<1> QED
  BY <1>1, <1>2, <1>3, <1>4, <1>5 DEF Next, EventStep, ProgressTimer, ProcessEnded, Threads

\* The control graph outside initializeLogs: how one step moves its thread.
MainEdges == {<<"init", "spawn">>, <<"await", "end">>}

WorkerEdges == {<<"open", "draw">>, <<"open", "close">>, <<"open", "failed">>,
                <<"draw", "compressed">>, <<"compressed", "uncompressed">>,
                <<"uncompressed", "lookup">>, <<"lookup", "compressed">>,
                <<"lookup", "post">>, <<"lookup", "log">>, <<"lookup", "failed">>,
                <<"log", "compressed">>, <<"log", "post">>, <<"log", "failed">>,
                <<"post", "draw">>, <<"post", "close">>,
                <<"close", "finished">>, <<"close", "failed">>,
                <<"finished", "stopped">>, <<"failed", "stopped">>}

Moves(t, edges) == \E l \in Labels : <<pc[t], l>> \in edges /\ Goto(t, l)

LEMMA ControlFrame ==
    ASSUME [Next]_vars
    PROVE  \/ UNCHANGED pc
           \/ Fail(Main)
           \/ Moves(Main, MainEdges)
           \/ \E t \in Threads : InitializeLogs(t)
           \/ \E w \in Workers : StartWorker(w) \/ Moves(w, WorkerEdges)
<1> USE DEF Moves, Labels
<1>1. CASE UNCHANGED vars
  BY <1>1 DEF vars
<1>3. CASE PublicKeyCreateInit \/ Finish
  BY <1>3 DEF PublicKeyCreateInit, Finish, MainEdges
<1>4. ASSUME NEW w \in Workers, EventStep(w)
      PROVE  UNCHANGED pc \/ Fail(Main)
  BY <1>4 DEF EventStep, OnMessage, OnError, OnExit
<1>5. ASSUME NEW w \in Workers, WorkerStep(w)
      PROVE  Moves(w, WorkerEdges)
  BY <1>5 DEF WorkerStep, OpenDatabase, CreatePrivateKey, CompressedDone, UncompressedDone,
              LookupAnswers, LogKey, PostMessage, CloseDatabase, ThreadStops,
              Fail, NextSlot, EnterNative, LoopHead, WorkerEdges
<1> QED
  BY <1>1, <1>3, <1>4, <1>5 DEF Next, MainStep, ProgressTimer, ProcessEnded

-----------------------------------------------------------------------------
(* Type correctness.                                                       *)

LEMMA PathFacts ==
    ASSUME NEW i \in 1..Len(LogPaths)
    PROVE  /\ Len(LogPaths) = 3
           /\ i \in {1, 2, 3}
           /\ LogPaths[i] = IF i = 1 THEN "folder" ELSE IF i = 2 THEN "log" ELSE "error"
  BY DEF LogPaths

LEMMA CreatePathFacts ==
    ASSUME NEW t \in Threads, CreatePath(t), ~Fail(t)
    PROVE  /\ NextPath(t)
           /\ present' = present \cup {LogPaths[path[t]]}
           /\ \/ LogPaths[path[t]] = "log" /\ log' = <<>> /\ errorLog' = errorLog
              \/ LogPaths[path[t]] = "error" /\ log' = log /\ errorLog' = <<>>
              \/ LogPaths[path[t]] \notin {"log", "error"} /\ UNCHANGED <<log, errorLog>>
  BY DEF CreatePath

\* The main thread has nothing left to log once it has reported: it dies
\* before, if at all.
LEMMA DiesBeforeEnd ==
    ASSUME TypeOK, Endings, [Next]_vars, Fail(Main)
    PROVE  pc[Main] # "end"
<1> SUFFICES ASSUME pc[Main] = "end" PROVE FALSE
  OBVIOUS
<1>1. pc' # pc /\ \A w \in Workers : pc'[w] = pc[w]
  BY MainDies
<1>2. failed \subseteq errored
  BY DEF Endings, TypeOK, EventTypes
<1>3. \A w \in Workers : ~EventStep(w)
  BY <1>1, <1>2 DEF EventStep, OnMessage, OnError, OnExit
<1>4. ~MainStep /\ ~InitializeLogs(Main)
  BY DEF MainStep, PublicKeyCreateInit, StartWorker, Finish, InitializeLogs, CheckPath, CreatePath
<1>5. ASSUME NEW w \in Workers, InitializeLogs(w) \/ WorkerStep(w)
      PROVE  pc'[Main] = pc[Main]
  BY <1>5, SearchAssumption
  DEF InitializeLogs, CheckPath, CreatePath, NextPath, WorkerStep, OpenDatabase, CreatePrivateKey,
      CompressedDone, UncompressedDone, LookupAnswers, LogKey, PostMessage, CloseDatabase, ThreadStops,
      Fail, NextSlot, EnterNative, Goto, TypeOK, Threads
<1> QED
  BY <1>1, <1>3, <1>4, <1>5, MainDies DEF Next, ProgressTimer, ProcessEnded, vars, Threads

\* Nothing happens any more after a death before the first worker.
LEMMA StillbornStays ==
    ASSUME Stillborn, [Next]_vars
    PROVE  UNCHANGED vars
<1>1. \A w \in Workers : ~InitializeLogs(w) /\ ~WorkerStep(w)
  BY DEF Stillborn, InitializeLogs, CheckPath, CreatePath, WorkerStep, OpenDatabase, CreatePrivateKey,
     CompressedDone, UncompressedDone, LookupAnswers, LogKey, PostMessage, CloseDatabase, ThreadStops
<1>2. ~MainStep /\ ~InitializeLogs(Main)
  BY DEF Stillborn, MainStep, PublicKeyCreateInit, StartWorker, Finish, InitializeLogs, CheckPath, CreatePath
<1>3. \A w \in Workers : ~EventStep(w)
  BY DEF Stillborn, EventStep, OnMessage, OnError, OnExit, EventLoopRuns
<1> QED
  BY <1>1, <1>2, <1>3 DEF Next, ProgressTimer, ProcessEnded, Threads

LEMMA NextPathType ==
    ASSUME TypeOK, NEW t \in Threads, NextPath(t)
    PROVE  path' \in [Threads -> 1..Len(LogPaths)]
<1>1. path[t] \in 1..Len(LogPaths)
  BY DEF TypeOK, LogTypes
<1> QED
  BY <1>1, PathFacts DEF TypeOK, LogTypes, NextPath

LEMMA LineType ==
    ASSUME TypeOK, Progress, NEW w \in Workers, LogKey(w), ~Fail(w)
    PROVE  Line(Batch(w)[slot[w]]) \in Lines
<1>1. Batch(w) \in Batches
  BY DEF LogKey, Batch, TypeOK, WorkerTypes, Progress, WorkerProgress, InBatch
<1>2. Batch(w)[slot[w]] \in Keys
  BY <1>1, SearchAssumption DEF LogKey, Batches, TypeOK, WorkerTypes, Progress, WorkerProgress
<1> QED
  BY <1>2, SearchAssumption DEF Line, Lines

LEMMA LogTypesStep ==
    ASSUME TypeOK, Progress, [Next]_vars
    PROVE  LogTypes'
<1>1. CASE UNCHANGED logVars
  BY <1>1 DEF logVars, TypeOK, LogTypes
<1>2. ASSUME NEW t \in Threads, CheckPath(t)
      PROVE  LogTypes'
  BY <1>2, NextPathType DEF CheckPath, TypeOK, LogTypes
<1>3. ASSUME NEW t \in Threads, CreatePath(t), ~Fail(t)
      PROVE  LogTypes'
  <2>1. present' \subseteq {"folder", "log", "error"}
    <3>1. LogPaths[path[t]] \in {"folder", "log", "error"}
      BY PathFacts DEF TypeOK, LogTypes
    <3> QED
      BY <1>3, <3>1, CreatePathFacts DEF TypeOK, LogTypes
  <2>2. log' \in Seq(Lines) /\ errorLog' \in Seq(Workers)
    <3>1. CASE log' = <<>> /\ errorLog' = errorLog
      BY <3>1 DEF TypeOK, LogTypes
    <3>2. CASE log' = log /\ errorLog' = <<>>
      BY <3>2 DEF TypeOK, LogTypes
    <3>3. CASE log' = log /\ errorLog' = errorLog
      BY <3>3 DEF TypeOK, LogTypes
    <3> QED
      BY <1>3, <3>1, <3>2, <3>3, CreatePathFacts
  <2> QED
    BY <1>3, <2>1, <2>2, CreatePathFacts, NextPathType DEF LogTypes
<1>4. ASSUME NEW t \in Threads, Fail(t)
      PROVE  LogTypes'
  BY <1>4 DEF Fail, logVars, TypeOK, LogTypes
<1>5. ASSUME NEW w \in Workers, OnError(w) \/ OnExit(w), ~Fail(Main)
      PROVE  LogTypes'
  <2>1. errorLog' \in Seq(Workers)
    <3>1. CASE errorLog' = errorLog
      BY <3>1 DEF TypeOK, LogTypes
    <3>2. CASE errorLog' = Append(errorLog, w)
      BY <3>2 DEF TypeOK, LogTypes
    <3> QED
      BY <1>5, <3>1, <3>2 DEF OnError, OnExit
  <2> QED
    BY <1>5, <2>1 DEF OnError, OnExit, TypeOK, LogTypes
<1>6. ASSUME NEW w \in Workers, LogKey(w), ~Fail(w)
      PROVE  LogTypes'
  <2>3. Line(Batch(w)[slot[w]]) \in Lines
    BY <1>6, LineType
  <2>1. log' = Append(log, Line(Batch(w)[slot[w]])) /\ UNCHANGED <<path, present, errorLog>>
    BY <1>6 DEF LogKey
  <2>4. log' \in Seq(Lines)
    BY <2>1, <2>3 DEF TypeOK, LogTypes
  <2> QED
    BY <2>1, <2>4 DEF TypeOK, LogTypes
<1> QED
  BY <1>1, <1>2, <1>3, <1>4, <1>5, <1>6, LogFrame DEF InitializeLogs, Threads

LEMMA TableTypesStep ==
    ASSUME TypeOK, [Next]_vars
    PROVE  TableTypes'
<1> USE DEF TypeOK, TableTypes
<1>1. CASE UNCHANGED tableVars
  BY <1>1 DEF tableVars
<1>2. CASE PublicKeyCreateInit \/ Finish
  BY <1>2 DEF PublicKeyCreateInit, Finish
<1>3. ASSUME NEW w \in Workers,
             CreatePrivateKey(w) \/ CompressedDone(w) \/ UncompressedDone(w) \/ NextSlot(w)
      PROVE  TableTypes'
  BY <1>3 DEF CreatePrivateKey, CompressedDone, UncompressedDone, NextSlot, EnterNative, tableVars
<1> QED
  BY <1>1, <1>2, <1>3, TableFrame

LEMMA NextSlotType ==
    ASSUME TypeOK, NEW w \in Workers, NextSlot(w)
    PROVE  slot' \in [Workers -> 0..BatchSize]
<1>1. slot \in [Workers -> 0..BatchSize] /\ BatchSize \in Nat
  BY SearchAssumption DEF TypeOK, WorkerTypes
<1>2. CASE slot[w] < BatchSize
  <2>1. slot' = [slot EXCEPT ![w] = slot[w] + 1]
    BY <1>2 DEF NextSlot
  <2> QED
    BY <1>1, <1>2, <2>1
<1>3. CASE ~(slot[w] < BatchSize)
  BY <1>1, <1>3 DEF NextSlot
<1> QED
  BY <1>2, <1>3

LEMMA WorkerTypesStep ==
    ASSUME TypeOK, Progress, [Next]_vars
    PROVE  WorkerTypes'
<1> USE SearchAssumption DEF TypeOK, WorkerTypes
<1>1. CASE UNCHANGED workerVars
  BY <1>1 DEF workerVars
<1>2. ASSUME NEW w \in Workers, CreatePrivateKey(w)
      PROVE  WorkerTypes'
  BY <1>2 DEF CreatePrivateKey
<1>3. ASSUME NEW w \in Workers, LookupAnswers(w) \/ LogKey(w)
      PROVE  WorkerTypes'
  <2>1. slot' \in [Workers -> 0..BatchSize]
    BY <1>3, NextSlotType DEF LookupAnswers, LogKey, Fail, workerVars
  <2>2. UNCHANGED <<drawn, posted>>
    BY <1>3 DEF LookupAnswers, LogKey, Fail, workerVars
  <2> QED
    BY <2>1, <2>2
<1>4. ASSUME NEW w \in Workers, PostMessage(w)
      PROVE  WorkerTypes'
  BY <1>4 DEF PostMessage, Progress, WorkerProgress, InLoop
<1> QED
  BY <1>1, <1>2, <1>3, <1>4, WorkerFrame

LEMMA EventTypesStep ==
    ASSUME TypeOK, Progress, [Next]_vars
    PROVE  EventTypes'
<1> USE SearchAssumption DEF TypeOK, EventTypes
<1>1. CASE UNCHANGED eventVars
  BY <1>1 DEF eventVars
<1>2. CASE Finish
  BY <1>2 DEF Finish
<1>3. ASSUME NEW w \in Workers, Fail(w)
      PROVE  EventTypes'
  BY <1>3 DEF Fail
<1>7. CASE Fail(Main)
  BY <1>1, <1>7, MainDies
<1>4. ASSUME NEW w \in Workers, OnMessage(w) \/ OnError(w), ~Fail(Main)
      PROVE  EventTypes'
  <2>1. keysProcessed' \in Nat /\ port' \in [Workers -> 0..NumBatches]
    BY <1>4 DEF OnMessage, OnError
  <2> QED
    BY <1>4, <2>1 DEF OnMessage, OnError
<1>5. ASSUME NEW w \in Workers, OnExit(w), ~Fail(Main)
      PROVE  EventTypes'
  <2>1. keysProcessed' \in Nat /\ port' \in [Workers -> 0..NumBatches]
    <3>1. BatchSize * port[w] \in Nat
      OBVIOUS
    <3> QED
      BY <1>5, <3>1 DEF OnExit
  <2> QED
    BY <1>5, <2>1 DEF OnExit
<1>6. ASSUME NEW w \in Workers, PostMessage(w)
      PROVE  EventTypes'
  <2>1. port[w] <= posted[w] /\ posted[w] < NumBatches
    BY <1>6 DEF PostMessage, Progress, WorkerProgress, InLoop
  <2> QED
    BY <1>6, <2>1 DEF PostMessage, WorkerTypes
<1> QED
  BY <1>1, <1>2, <1>3, <1>4, <1>5, <1>6, <1>7, EventFrame

-----------------------------------------------------------------------------
(* The order of the threads.                                               *)

\* The path that NextPath leaves behind exists, so when the last one is left
\* behind, all of them do.
LEMMA PathDone ==
    ASSUME TypeOK, LogFiles, pc[Main] \in Starting, NextPath(Main),
           log' = <<>>, present' \subseteq {"folder", "log", "error"},
           present \subseteq present', LogPaths[path[Main]] \in present',
           \A w \in Workers : pc[w] = "unborn"
    PROVE  LogFiles'
<1> DEFINE p == path[Main]
<1>1. p \in {1, 2, 3} /\ Len(LogPaths) = 3
      /\ LogPaths[p] = IF p = 1 THEN "folder" ELSE IF p = 2 THEN "log" ELSE "error"
  BY PathFacts DEF TypeOK, LogTypes, Threads
<1>2. \A w \in Workers : pc'[w] = "unborn"
  BY SearchAssumption DEF NextPath, Goto, TypeOK, Threads
<1>3. p >= 2 => "folder" \in present
  BY DEF LogFiles
<1>4. p >= 3 => "log" \in present
  BY DEF LogFiles
<1>5. CASE p < 3
  <2>1. pc'[Main] = "check" /\ path'[Main] = p + 1
    BY <1>1, <1>5 DEF NextPath, Goto, TypeOK, LogTypes, Threads
  <2>2. p + 1 >= 2 => "folder" \in present'
    BY <1>1, <1>3
  <2>3. p + 1 >= 3 => "log" \in present'
    BY <1>1, <1>4
  <2> QED
    BY <1>2, <2>1, <2>2, <2>3 DEF LogFiles, Starting, Stillborn
<1>6. CASE p = 3
  <2>1. pc'[Main] = "init"
    BY <1>1, <1>6 DEF NextPath, AfterLogs, Goto, TypeOK, Threads
  <2>2. "folder" \in present' /\ "log" \in present' /\ "error" \in present'
    BY <1>1, <1>3, <1>4, <1>6
  <2>3. present' = {"folder", "log", "error"}
    BY <2>2
  <2> QED
    BY <1>2, <2>1, <2>3 DEF LogFiles, Starting
<1> QED
  BY <1>1, <1>5, <1>6

\* Once they exist, initializeLogs creates nothing.
LEMMA WorkersOnlyCheck ==
    ASSUME TypeOK, LogFiles, pc[Main] \notin Starting, NEW t \in Threads, InitializeLogs(t)
    PROVE  t \in Workers /\ CheckPath(t) /\ NextPath(t)
<1>1. t \in Workers /\ pc[t] # "create"
  BY DEF InitializeLogs, CheckPath, CreatePath, Starting, Threads, LogFiles
<1>3. ~Stillborn
  BY <1>1 DEF Stillborn, InitializeLogs, CheckPath, CreatePath
<1>2. LogPaths[path[t]] \in present
  BY <1>1, <1>3, PathFacts DEF Threads, LogFiles, TypeOK, LogTypes
<1> QED
  BY <1>1, <1>2 DEF InitializeLogs, CheckPath, CreatePath

LEMMA LogFilesStep ==
    ASSUME TypeOK, LogFiles, MainOrder, [Next]_vars
    PROVE  LogFiles'
<1>f. CASE Fail(Main)
  BY <1>f, MainDies DEF LogFiles, MainOrder, Starting, Stillborn, logVars
<1>s. CASE Stillborn
  BY <1>s, StillbornStays DEF LogFiles, Stillborn, vars, logVars
<1> SUFFICES ASSUME ~Fail(Main), ~Stillborn
             PROVE  LogFiles'
  BY <1>f, <1>s
<1>1. CASE CheckPath(Main)
  <2>0. \A w \in Workers : pc[w] = "unborn"
    BY <1>1 DEF CheckPath, MainOrder
  <2>1. CASE LogPaths[path[Main]] \in present
    BY <1>1, <2>0, <2>1, PathDone DEF CheckPath, LogFiles, Starting, TypeOK, LogTypes
  <2>2. CASE LogPaths[path[Main]] \notin present
    BY <1>1, <2>0, <2>2, SearchAssumption DEF CheckPath, Goto, LogFiles, Starting, TypeOK, Threads, Stillborn
  <2> QED
    BY <2>1, <2>2
<1>2. CASE CreatePath(Main)
  <2>0. \A w \in Workers : pc[w] = "unborn"
    BY <1>2 DEF CreatePath, MainOrder
  <2>1. LogPaths[path[Main]] \notin present /\ log = <<>>
    BY <1>2 DEF CreatePath, LogFiles, Starting
  <2>3. log' = <<>> /\ NextPath(Main) /\ present' = present \cup {LogPaths[path[Main]]}
    BY <1>2, <2>1, CreatePathFacts DEF Threads
  <2>4. LogPaths[path[Main]] \in {"folder", "log", "error"}
    BY PathFacts DEF TypeOK, LogTypes, Threads
  <2> QED
    BY <1>2, <2>0, <2>3, <2>4, PathDone DEF CreatePath, Starting, TypeOK, LogTypes
<1>3. ASSUME ~CheckPath(Main), ~CreatePath(Main), pc[Main] \in Starting
      PROVE  UNCHANGED <<pc, logVars>>
  <2>1. \A w \in Workers : pc[w] = "unborn"
    BY <1>3 DEF MainOrder, Starting
  <2>2. ~MainStep
    BY <1>3 DEF MainStep, PublicKeyCreateInit, StartWorker, Finish, Starting
  <2>3. \A w \in Workers : ~InitializeLogs(w) /\ ~WorkerStep(w)
    BY <2>1 DEF InitializeLogs, CheckPath, CreatePath, WorkerStep, OpenDatabase, CreatePrivateKey,
       CompressedDone, UncompressedDone, LookupAnswers, LogKey, PostMessage, CloseDatabase, ThreadStops
  <2>4. \A w \in Workers : ~EventStep(w)
    BY <1>3 DEF EventStep, OnMessage, OnError, OnExit, EventLoopRuns, Starting
  <2> QED
    BY <1>3, <2>2, <2>3, <2>4 DEF Next, vars, ProgressTimer, ProcessEnded, InitializeLogs, Threads
<1>4. ASSUME pc[Main] \notin Starting
      PROVE  LogFiles'
  <2>1. present = {"folder", "log", "error"}
    BY <1>4 DEF LogFiles
  <2>2. pc'[Main] \notin Starting /\ \A w \in Workers : pc'[w] # "create"
    <3>1. ASSUME NEW t \in Threads, InitializeLogs(t)
          PROVE  t \in Workers /\ NextPath(t)
      BY <1>4, <3>1, WorkersOnlyCheck
    <3>2. CASE \E w \in Workers : NextPath(w)
      BY <1>4, <3>2, SearchAssumption DEF NextPath, Goto, AfterLogs, LogFiles, TypeOK, Threads, Starting
    <3>3. CASE UNCHANGED pc
      BY <1>4, <3>3 DEF LogFiles
    <3>4. CASE Moves(Main, MainEdges)
      BY <1>4, <3>4, SearchAssumption DEF Moves, MainEdges, Goto, LogFiles, TypeOK, Threads, Starting
    <3>5. ASSUME NEW w \in Workers, StartWorker(w)
          PROVE  pc'[Main] \notin Starting /\ \A v \in Workers : pc'[v] # "create"
      BY <1>4, <3>5, SearchAssumption DEF StartWorker, LogFiles, TypeOK, Threads, Starting
    <3>6. ASSUME NEW w \in Workers, Moves(w, WorkerEdges)
          PROVE  pc'[Main] \notin Starting /\ \A v \in Workers : pc'[v] # "create"
      BY <1>4, <3>6, SearchAssumption DEF Moves, WorkerEdges, Goto, LogFiles, TypeOK, Threads, Starting
    <3> QED
      BY <3>1, <3>2, <3>3, <3>4, <3>5, <3>6, ControlFrame
  <2>3. present' = present
    BY <1>4, WorkersOnlyCheck, LogFrame DEF logVars, CheckPath, OnError, OnExit, LogKey
  <2> QED
    BY <2>1, <2>2, <2>3 DEF LogFiles, Starting
<1> QED
  BY <1>1, <1>2, <1>3, <1>4 DEF LogFiles, logVars

LEMMA MainOrderStep ==
    ASSUME TypeOK, LogFiles, MainOrder, [Next]_vars
    PROVE  MainOrder'
<1> USE SearchAssumption DEF TypeOK, Threads
<1>f. CASE Fail(Main)
  BY <1>f, MainDies DEF MainOrder
<1> SUFFICES ASSUME ~Fail(Main)
             PROVE  MainOrder'
  BY <1>f
<1>1. CASE UNCHANGED pc
  BY <1>1 DEF MainOrder
<1>2. CASE InitializeLogs(Main)
  <2>1. pc'[Main] \in {"check", "create", "init"}
    BY <1>2, PathFacts
    DEF InitializeLogs, CheckPath, CreatePath, NextPath, AfterLogs, Goto
  <2>2. pc[Main] \in {"check", "create"}
    BY <1>2 DEF InitializeLogs, CheckPath, CreatePath
  <2>3. \A w \in Workers : pc'[w] = pc[w]
    BY <1>2
    DEF InitializeLogs, CheckPath, CreatePath, NextPath, Fail, Goto
  <2> QED
    BY <2>1, <2>2, <2>3 DEF MainOrder
<1>3. ASSUME NEW w \in Workers, InitializeLogs(w)
      PROVE  MainOrder'
  <2>1. pc[w] # "unborn"
    BY <1>3 DEF InitializeLogs, CheckPath, CreatePath
  <2>2. pc[Main] \notin {"check", "create", "init"}
    BY <2>1 DEF MainOrder
  <2>3. NextPath(w)
    BY <1>3, <2>2, WorkersOnlyCheck DEF Starting
  <2> QED
    BY <2>2, <2>3 DEF MainOrder, NextPath, AfterLogs, Goto
<1>4. CASE Moves(Main, MainEdges)
  BY <1>4 DEF Moves, MainEdges, Goto, MainOrder
<1>5. ASSUME NEW w \in Workers, StartWorker(w)
      PROVE  MainOrder'
  BY <1>5 DEF StartWorker, MainOrder
<1>6. ASSUME NEW w \in Workers, Moves(w, WorkerEdges)
      PROVE  MainOrder'
  BY <1>6 DEF Moves, WorkerEdges, Goto, MainOrder
<1> QED
  BY <1>1, <1>2, <1>3, <1>4, <1>5, <1>6, ControlFrame

LEMMA OverStays ==
    ASSUME TypeOK, LogFiles, MainOrder, [Next]_vars,
           NEW w \in Workers, pc[w] \in Over
    PROVE  pc'[w] \in Over /\ (pc[w] = "stopped" => pc'[w] = "stopped")
<1> USE SearchAssumption DEF TypeOK, Threads, Over
<1>f. CASE Fail(Main)
  BY <1>f, MainDies
<1>1. CASE UNCHANGED pc
  BY <1>1
<1>2. ASSUME NEW t \in Threads, InitializeLogs(t)
      PROVE  t # w /\ pc'[w] = pc[w]
  BY <1>2 DEF InitializeLogs, CheckPath, CreatePath, NextPath, Fail, Goto
<1>3. CASE Moves(Main, MainEdges)
  BY <1>3 DEF Moves, Goto
<1>4. ASSUME NEW v \in Workers, StartWorker(v), ~Fail(Main)
      PROVE  pc'[w] = pc[w]
  BY <1>4 DEF StartWorker
<1>5. ASSUME NEW v \in Workers, Moves(v, WorkerEdges)
      PROVE  pc'[w] \in Over /\ (pc[w] = "stopped" => pc'[w] = "stopped")
  BY <1>5 DEF Moves, WorkerEdges, Goto
<1> QED
  BY <1>f, <1>1, <1>2, <1>3, <1>4, <1>5, ControlFrame

\* The main thread is at its end, or it handles events, or it finishes.
LEMMA EndStays ==
    ASSUME TypeOK, LogFiles, MainOrder, [Next]_vars, pc'[Main] = "end"
    PROVE  pc[Main] = "end" \/ Finish
<1> USE SearchAssumption DEF TypeOK, Threads
<1>f. ~Fail(Main)
  BY MainDies
<1>1. ASSUME NEW t \in Threads, InitializeLogs(t)
      PROVE  pc[Main] = "end"
  BY <1>1 DEF InitializeLogs, CheckPath, CreatePath, NextPath, AfterLogs, Fail, Goto
<1>2. ASSUME MainStep
      PROVE  Finish
  BY <1>f, <1>2 DEF MainStep, PublicKeyCreateInit, StartWorker, Goto
<1>3. ASSUME NEW w \in Workers, WorkerStep(w)
      PROVE  pc'[Main] = pc[Main]
  BY <1>3 DEF WorkerStep, OpenDatabase, CreatePrivateKey, CompressedDone, UncompressedDone,
              LookupAnswers, LogKey, PostMessage, CloseDatabase, ThreadStops,
              Fail, NextSlot, EnterNative, Goto
<1>4. ASSUME NEW w \in Workers, EventStep(w)
      PROVE  pc' = pc
  BY <1>f, <1>4 DEF EventStep, OnMessage, OnError, OnExit
<1> QED
  BY <1>1, <1>2, <1>3, <1>4 DEF Next, ProgressTimer, ProcessEnded, vars

LEMMA EndingsStep ==
    ASSUME TypeOK, LogFiles, MainOrder, Endings, [Next]_vars
    PROVE  Endings'
<1> USE SearchAssumption DEF TypeOK, EventTypes, Threads
<1>0. /\ \A w \in failed : pc'[w] \in Over
      /\ \A w \in exited : pc'[w] = "stopped"
  BY OverStays DEF Endings, Over
<1>1. CASE UNCHANGED eventVars /\ ~Finish
  <2>1. pc'[Main] = "end" => pc[Main] = "end"
    BY <1>1, EndStays
  <2> QED
    BY <1>0, <1>1, <2>1 DEF eventVars, Endings
<1>2. CASE Finish
  BY <1>0, <1>2 DEF Finish, Goto, Endings
<1>3. ASSUME NEW w \in Workers, Fail(w)
      PROVE  Endings'
  BY <1>0, <1>3 DEF Fail, Goto, Endings, Over
<1>4. ASSUME NEW w \in Workers, OnMessage(w)
      PROVE  Endings'
  BY <1>0, <1>4 DEF OnMessage, Endings
<1>5. ASSUME NEW w \in Workers, OnError(w), ~Fail(Main)
      PROVE  Endings'
  BY <1>0, <1>5 DEF OnError, Endings
<1>6. ASSUME NEW w \in Workers, OnExit(w), ~Fail(Main)
      PROVE  Endings'
  <2>1. /\ pc[w] = "stopped" /\ UNCHANGED <<pc, failed>>
        /\ port' = [port EXCEPT ![w] = 0]
        /\ errored' = IF w \in failed THEN errored \cup {w} ELSE errored
        /\ exited' = exited \cup {w} /\ resolved' = resolved \cup {w}
    BY <1>6 DEF OnExit
  <2>2. resolved' = errored' \cup exited' /\ (pc[Main] = "end" => resolved' = Workers)
    BY <2>1 DEF Endings
  <2>3. errored' \subseteq failed /\ failed \cap exited' \subseteq errored'
    BY <2>1 DEF Endings
  <2>4. \A v \in exited' : pc[v] = "stopped" /\ port'[v] = 0
    BY <2>1 DEF Endings
  <2> QED
    BY <2>1, <2>2, <2>3, <2>4 DEF Endings
<1>7. ASSUME NEW w \in Workers, PostMessage(w)
      PROVE  Endings'
  BY <1>0, <1>7 DEF PostMessage, Goto, Endings
<1>8. CASE Fail(Main)
  BY <1>0, <1>8, MainDies DEF Endings, eventVars
<1> QED
  BY <1>1, <1>2, <1>3, <1>4, <1>5, <1>6, <1>7, <1>8, EventFrame

\* A worker inside a native call was there already, or it just read bmul.
LEMMA NativeFrame ==
    ASSUME TypeOK, [Next]_vars, ~PublicKeyCreateInit, ~Finish, NEW w \in Workers,
           pc'[w] \in {"compressed", "uncompressed"}
    PROVE  \/ pc'[w] = pc[w] /\ using'[w] = using[w]
           \/ /\ using' = [using EXCEPT ![w] = bmul]
              /\ pc[w] \notin Over \cup {"unborn"}
<1> USE SearchAssumption DEF TypeOK, TableTypes, Threads, Over
<1>f. CASE Fail(Main)
  BY <1>f, MainDies DEF tableVars
<1>1. CASE UNCHANGED vars
  BY <1>1 DEF vars, tableVars
<1>2. ASSUME NEW t \in Threads, InitializeLogs(t)
      PROVE  pc'[w] = pc[w] /\ using' = using
  BY <1>2 DEF InitializeLogs, CheckPath, CreatePath, NextPath, AfterLogs, Fail, Goto, tableVars
<1>3. ASSUME NEW v \in Workers, StartWorker(v), ~Fail(Main)
      PROVE  pc'[w] = pc[w] /\ using' = using
  BY <1>3 DEF StartWorker, tableVars
<1>4. ASSUME NEW v \in Workers, EventStep(v), ~Fail(Main)
      PROVE  pc'[w] = pc[w] /\ using' = using
  BY <1>4 DEF EventStep, OnMessage, OnError, OnExit, tableVars
<1>5. ASSUME NEW v \in Workers, WorkerStep(v), v # w
      PROVE  pc'[w] = pc[w] /\ using'[w] = using[w]
  BY <1>5 DEF WorkerStep, OpenDatabase, CreatePrivateKey, CompressedDone, UncompressedDone,
              LookupAnswers, LogKey, PostMessage, CloseDatabase, ThreadStops,
              Fail, NextSlot, EnterNative, Goto, tableVars
<1>6. ASSUME WorkerStep(w)
      PROVE  /\ using' = [using EXCEPT ![w] = bmul]
             /\ pc[w] \notin Over \cup {"unborn"}
  BY <1>6 DEF WorkerStep, OpenDatabase, CreatePrivateKey, CompressedDone, UncompressedDone,
              LookupAnswers, LogKey, PostMessage, CloseDatabase, ThreadStops,
              Fail, NextSlot, EnterNative, LoopHead, Goto
<1> QED
  BY <1>f, <1>1, <1>2, <1>3, <1>4, <1>5, <1>6 DEF Next, MainStep, ProgressTimer, ProcessEnded

\* The table is made before the workers start and destroyed when all are over.
LEMMA TableStep ==
    ASSUME TypeOK, LogFiles, MainOrder, Endings, Table, [Next]_vars
    PROVE  Table'
<1> USE SearchAssumption DEF TypeOK, TableTypes, Threads
<1> DEFINE Lasting == {"spawn", "await", "failed"}
<1>1. CASE PublicKeyCreateInit
  BY <1>1 DEF PublicKeyCreateInit, Goto, MainOrder, Table, TableSafe
<1>2. CASE Finish
  <2>1. \A w \in Workers : pc[w] \in Over
    BY <1>2 DEF Finish, Endings, Over
  <2>2. \A w \in Workers : pc'[w] \notin {"compressed", "uncompressed"}
    BY <1>2, <2>1 DEF Finish, Goto, Over
  <2> QED
    BY <1>2, <2>2 DEF Finish, Goto, Table, TableSafe
<1>f. CASE Fail(Main)
  <2>1. pc[Main] \in {"check", "create", "init"} => Stillborn'
    BY <1>f, MainDies DEF MainOrder, Stillborn
  <2>2. Stillborn => Stillborn'
    BY <1>f, MainDies DEF Stillborn
  <2>3. pc[Main] # "end"
    BY <1>f, DiesBeforeEnd
  <2> QED
    BY <1>f, <2>1, <2>2, <2>3, MainDies DEF MainOrder, Table, TableSafe, tableVars
<1>s. CASE Stillborn
  BY <1>s, StillbornStays DEF vars, tableVars, Table, TableSafe, Stillborn
<1>3. ASSUME ~PublicKeyCreateInit, ~Finish, ~Fail(Main), ~Stillborn
      PROVE  UNCHANGED <<bmul, allocated>>
             /\ (pc'[Main] \in Lasting => pc[Main] \in Lasting)
  <2>1. UNCHANGED <<bmul, allocated>>
    BY <1>3, TableFrame DEF tableVars, CreatePrivateKey, CompressedDone, UncompressedDone,
       NextSlot, EnterNative
  <2>2. ASSUME NEW t \in Threads, InitializeLogs(t)
        PROVE  pc'[Main] = pc[Main] \/ pc'[Main] \notin Lasting
    <3>1. CASE t = Main
      BY <1>3, <2>2, <3>1 DEF InitializeLogs, CheckPath, CreatePath, NextPath, AfterLogs, Goto
    <3>2. CASE t # Main
      BY <2>2, <3>2 DEF InitializeLogs, CheckPath, CreatePath, NextPath, Fail, Goto
    <3> QED
      BY <3>1, <3>2
  <2>3. ASSUME MainStep
        PROVE  pc[Main] \in Lasting
    BY <1>3, <2>3 DEF MainStep, StartWorker
  <2>4. ASSUME NEW w \in Workers, WorkerStep(w)
        PROVE  pc'[Main] = pc[Main]
    BY <2>4 DEF WorkerStep, OpenDatabase, CreatePrivateKey, CompressedDone, UncompressedDone,
                LookupAnswers, LogKey, PostMessage, CloseDatabase, ThreadStops,
                Fail, NextSlot, EnterNative, Goto
  <2>5. ASSUME NEW w \in Workers, EventStep(w)
        PROVE  pc' = pc
    BY <1>3, <2>5 DEF EventStep, OnMessage, OnError, OnExit
  <2> QED
    BY <2>1, <2>2, <2>3, <2>4, <2>5 DEF Next, ProgressTimer, ProcessEnded, vars
<1>4. ASSUME ~PublicKeyCreateInit, ~Finish, ~Fail(Main), ~Stillborn, NEW w \in Workers,
             pc'[w] \in {"compressed", "uncompressed"}
      PROVE  using'[w] = "table" /\ allocated'
  <2>1. CASE pc'[w] = pc[w] /\ using'[w] = using[w]
    BY <1>3, <1>4, <2>1 DEF Table, TableSafe
  <2>2. CASE using' = [using EXCEPT ![w] = bmul] /\ pc[w] \notin Over \cup {"unborn"}
    <3>1. pc[Main] \in Lasting
      BY <2>2 DEF MainOrder, Endings, Over
    <3> QED
      BY <1>3, <1>4, <2>2, <3>1 DEF Table
  <2> QED
    BY <1>4, <2>1, <2>2, NativeFrame
<1> QED
  BY <1>1, <1>2, <1>f, <1>s, <1>3, <1>4 DEF Table, TableSafe

\* A worker's own variables change by its own steps and by its events.
LEMMA OthersFrame ==
    ASSUME TypeOK, NEW v \in Workers, WorkerStep(v), NEW w \in Workers, v # w
    PROVE  /\ pc'[w] = pc[w] /\ drawn'[w] = drawn[w] /\ slot'[w] = slot[w]
           /\ posted'[w] = posted[w] /\ port'[w] = port[w]
           /\ w \in failed' <=> w \in failed
<1> USE SearchAssumption DEF TypeOK, WorkerTypes, EventTypes, Threads
<1>1. CASE Fail(v)
  BY <1>1 DEF Fail, Goto, workerVars
<1>2. CASE LookupAnswers(v) \/ LogKey(v)
  BY <1>1, <1>2 DEF LookupAnswers, LogKey, NextSlot, EnterNative, Goto, eventVars
<1>3. CASE ~Fail(v) /\ ~LookupAnswers(v) /\ ~LogKey(v)
  BY <1>3 DEF WorkerStep, OpenDatabase, CreatePrivateKey, CompressedDone, UncompressedDone,
              PostMessage, CloseDatabase, ThreadStops, EnterNative, Goto, workerVars, eventVars
<1> QED
  BY <1>1, <1>2, <1>3

\* One worker's place, batches and messages stay in step.
LEMMA ProgressStep ==
    ASSUME TypeOK, LogFiles, MainOrder, Endings, Progress, [Next]_vars
    PROVE  Progress'
<1> SUFFICES ASSUME NEW w \in Workers
             PROVE  WorkerProgress(w)'
  BY DEF Progress
<1>0. WorkerProgress(w)
  BY DEF Progress
<1> USE <1>0, SearchAssumption DEF TypeOK, WorkerTypes, EventTypes, Threads, WorkerProgress, InLoop, InBatch
<1>f. CASE Fail(Main)
  BY <1>f, MainDies DEF workerVars, eventVars
<1>1. CASE UNCHANGED vars
  BY <1>1 DEF vars, workerVars, eventVars
<1>2. ASSUME NEW t \in Threads, InitializeLogs(t), t # w
      PROVE  WorkerProgress(w)'
  BY <1>2 DEF InitializeLogs, CheckPath, CreatePath, NextPath, Fail, Goto, workerVars, eventVars
<1>3. CASE InitializeLogs(w)
  <2>1. CheckPath(w) /\ NextPath(w)
    BY <1>3, WorkersOnlyCheck DEF MainOrder, Starting, InitializeLogs, CheckPath, CreatePath
  <2> QED
    BY <2>1 DEF CheckPath, NextPath, AfterLogs, Goto, workerVars, eventVars
<1>4. CASE MainStep /\ ~Fail(Main)
  BY <1>4 DEF MainStep, PublicKeyCreateInit, StartWorker, Finish, Goto, workerVars, eventVars
<1>5. ASSUME NEW v \in Workers, EventStep(v), ~Fail(Main)
      PROVE  WorkerProgress(w)'
  <2>1. UNCHANGED <<pc, workerVars, failed>>
    BY <1>5 DEF EventStep, OnMessage, OnError, OnExit
  <2>2. port'[w] = port[w] \/ port'[w] = port[w] - 1 \/ port'[w] = 0
    BY <1>5 DEF EventStep, OnMessage, OnError, OnExit
  <2> QED
    BY <2>1, <2>2 DEF workerVars
<1>6. ASSUME NEW v \in Workers, WorkerStep(v), v # w
      PROVE  WorkerProgress(w)'
  BY <1>6, OthersFrame
<1>7. CASE Fail(w)
  BY <1>7 DEF Fail, Goto, workerVars
<1>8. CASE OpenDatabase(w) /\ ~Fail(w)
  BY <1>8 DEF OpenDatabase, LoopHead, Goto, workerVars, eventVars
<1>9. CASE CreatePrivateKey(w)
  <2>1. \E b \in Batches : drawn'[w] = Append(drawn[w], b)
    BY <1>9 DEF CreatePrivateKey
  <2>2. Len(drawn'[w]) >= 1
    <3>1. drawn[w] \in Seq(Batches)
      OBVIOUS
    <3>2. \A b \in Batches : Len(Append(drawn[w], b)) = Len(drawn[w]) + 1
      BY <3>1
    <3> QED
      BY <2>1, <3>1, <3>2
  <2> QED
    BY <1>9, <2>2 DEF CreatePrivateKey, EnterNative, Goto, eventVars
<1>10. CASE CompressedDone(w) \/ UncompressedDone(w)
  BY <1>10 DEF CompressedDone, UncompressedDone, Goto, workerVars, eventVars
<1>11. CASE LookupAnswers(w) /\ ~Fail(w)
  <2>1. \/ Goto(w, "post") \/ Goto(w, "compressed")
        \/ Goto(w, "log") /\ slot[w] > 0 /\ slot' = slot
    BY <1>11 DEF LookupAnswers, NextSlot, EnterNative
  <2>2. UNCHANGED <<drawn, posted, port, failed>> /\ pc[w] = "lookup"
    BY <1>11 DEF LookupAnswers, eventVars
  <2> QED
    BY <2>1, <2>2 DEF Goto
<1>12. CASE LogKey(w) /\ ~Fail(w)
  BY <1>12 DEF LogKey, NextSlot, EnterNative, Goto, eventVars
<1>13. CASE PostMessage(w)
  BY <1>13 DEF PostMessage, LoopHead, Goto
<1>14. CASE CloseDatabase(w) /\ ~Fail(w)
  BY <1>14 DEF CloseDatabase, Goto, workerVars, eventVars
<1>15. CASE ThreadStops(w)
  BY <1>15 DEF ThreadStops, Goto, workerVars, eventVars
<1> QED
  BY <1>f, <1>1, <1>2, <1>3, <1>4, <1>5, <1>6, <1>7, <1>8, <1>9, <1>10, <1>11, <1>12, <1>13, <1>14, <1>15
  DEF Next, ProgressTimer, ProcessEnded, WorkerStep

-----------------------------------------------------------------------------
(* The counter.                                                            *)

Counted == keysProcessed = BatchSize * Cardinality(Delivered)

LEMMA DeliveredFinite == ASSUME TypeOK PROVE IsFiniteSet(Delivered)
<1>1. IsFiniteSet(1..NumBatches)
  BY SearchAssumption, FS_Interval
<1>2. IsFiniteSet(Workers \X (1..NumBatches))
  BY <1>1, SearchAssumption, FS_Product
<1> QED
  BY <1>2, FS_Subset DEF Delivered

\* Handling n messages of w delivers the n batches after those delivered.
LEMMA DeliverMore ==
    ASSUME TypeOK, Progress, Counted, NEW w \in Workers, NEW n \in 0..port[w],
           port' = [port EXCEPT ![w] = @ - n], posted' = posted,
           keysProcessed' = keysProcessed + BatchSize * n
    PROVE  Counted'
<1> DEFINE d == posted[w] - port[w]
           new == {w} \X ((d + 1)..(d + n))
<1>1. /\ d \in Nat /\ n \in Nat /\ d + n <= NumBatches
      /\ NumBatches \in Nat /\ BatchSize \in Nat
  BY SearchAssumption DEF Progress, WorkerProgress, TypeOK, WorkerTypes, EventTypes
<1>2. \A v \in Workers : posted'[v] - port'[v] = IF v = w THEN d + n ELSE posted[v] - port[v]
  BY <1>1 DEF TypeOK, WorkerTypes, EventTypes
<1>3. \A v \in Workers, i \in 1..NumBatches :
        <<v, i>> \in Delivered' <=> <<v, i>> \in Delivered \cup new
  BY <1>1, <1>2 DEF Delivered
<1>4. Delivered' = Delivered \cup new
  <2>1. /\ Delivered' \subseteq Workers \X (1..NumBatches)
        /\ Delivered \subseteq Workers \X (1..NumBatches)
    BY DEF Delivered
  <2>2. new \subseteq Workers \X (1..NumBatches)
    <3>1. (d + 1)..(d + n) \subseteq 1..NumBatches
      BY <1>1
    <3> QED
      BY <3>1
  <2>3. \A x \in Workers \X (1..NumBatches) : x \in Delivered' <=> x \in Delivered \cup new
    BY <1>3
  <2> QED
    BY <2>1, <2>2, <2>3
<1>5. Delivered \cap new = {}
  BY <1>1 DEF Delivered
<1>6. IsFiniteSet(new) /\ Cardinality(new) = n
  <2>1. d + 1 \in Int /\ d + n \in Int
    BY <1>1
  <2>2. IsFiniteSet((d + 1)..(d + n)) /\ Cardinality((d + 1)..(d + n)) = n
    <3>1. /\ IsFiniteSet((d + 1)..(d + n))
          /\ Cardinality((d + 1)..(d + n))
             = IF d + 1 > d + n THEN 0 ELSE (d + n) - (d + 1) + 1
      BY <2>1, FS_Interval
    <3> QED
      BY <1>1, <3>1
  <2>3. IsFiniteSet({w}) /\ Cardinality({w}) = 1
    BY FS_Singleton
  <2>4. IsFiniteSet(new) /\ Cardinality(new) = 1 * n
    BY <2>2, <2>3, FS_Product, ZenonT(30)
  <2> QED
    BY <1>1, <2>4
<1>7. Cardinality(Delivered) \in Nat
  BY DeliveredFinite, FS_CardinalityType
<1>8. Cardinality(Delivered') = Cardinality(Delivered) + n
  <2>1. Cardinality(Delivered \cup new)
        = Cardinality(Delivered) + Cardinality(new) - Cardinality(Delivered \cap new)
    BY <1>6, DeliveredFinite, FS_Union
  <2>2. Cardinality(Delivered \cap new) = 0
    BY <1>5, FS_EmptySet
  <2> QED
    BY <1>1, <1>4, <1>6, <1>7, <2>1, <2>2
<1>9. BatchSize * (Cardinality(Delivered) + n)
      = BatchSize * Cardinality(Delivered) + BatchSize * n
  BY <1>1, <1>7
<1> QED
  BY <1>8, <1>9 DEF Counted

LEMMA CountedStep ==
    ASSUME TypeOK, Progress, Endings, Counted, [Next]_vars
    PROVE  Counted'
<1> USE SearchAssumption
<1>1. ASSUME UNCHANGED <<posted, port, keysProcessed>>
      PROVE  Counted'
  BY <1>1 DEF Counted, Delivered
<1>2. ASSUME NEW w \in Workers, OnMessage(w)
      PROVE  Counted'
  <2>1. 1 \in 0..port[w] /\ BatchSize * 1 = BatchSize
    BY <1>2 DEF OnMessage, TypeOK, EventTypes
  <2> QED
    BY <1>2, <2>1, DeliverMore DEF OnMessage, workerVars
<1>3. ASSUME NEW w \in Workers, OnExit(w), ~Fail(Main)
      PROVE  Counted'
  <2>1. port[w] \in 0..port[w] /\ port[w] - port[w] = 0
    BY DEF TypeOK, EventTypes
  <2> QED
    BY <1>3, <2>1, DeliverMore DEF OnExit, workerVars
<1>4. ASSUME NEW w \in Workers, PostMessage(w)
      PROVE  Counted'
  <2>1. \A v \in Workers : posted'[v] - port'[v] = posted[v] - port[v]
    BY <1>4 DEF PostMessage, TypeOK, WorkerTypes, EventTypes
  <2>2. Delivered' = Delivered
    BY <2>1 DEF Delivered
  <2> QED
    BY <1>4, <2>2 DEF PostMessage, Counted
<1>5. CASE UNCHANGED eventVars /\ UNCHANGED posted
  BY <1>1, <1>5 DEF eventVars
<1>6. ASSUME NEW w \in Workers, OnError(w)
      PROVE  UNCHANGED <<posted, port, keysProcessed>>
  BY <1>6 DEF OnError, Fail, workerVars
<1>7. ASSUME NEW t \in Threads, Fail(t)
      PROVE  UNCHANGED <<posted, port, keysProcessed>>
  BY <1>7 DEF Fail, workerVars
<1>8. CASE Finish
  BY <1>1, <1>8 DEF Finish, workerVars
<1>9. ASSUME NEW w \in Workers, CreatePrivateKey(w) \/ LookupAnswers(w) \/ LogKey(w)
      PROVE  UNCHANGED posted
  BY <1>9 DEF CreatePrivateKey, LookupAnswers, LogKey, Fail, workerVars
<1> QED
  BY <1>1, <1>2, <1>3, <1>4, <1>5, <1>6, <1>7, <1>8, <1>9, EventFrame, WorkerFrame
  DEF workerVars, Threads

\* What is printed: the counter at the end, all of it if no worker failed.
Printed ==
    pc[Main] = "end" /\ failed = {} => reported = BatchSize * (Cardinality(Workers) * NumBatches)

LEMMA AllDelivered ==
    ASSUME TypeOK, Progress, Endings, Counted, resolved = Workers, failed = {}
    PROVE  keysProcessed = BatchSize * (Cardinality(Workers) * NumBatches)
<1>1. \A w \in Workers : port[w] = 0 /\ posted[w] = NumBatches
  BY DEF Endings, Progress, WorkerProgress
<1>2. Delivered = Workers \X (1..NumBatches)
  BY <1>1, SearchAssumption DEF Delivered
<1>3. IsFiniteSet(1..NumBatches) /\ Cardinality(1..NumBatches) = NumBatches
  BY SearchAssumption, FS_Interval
<1>4. Cardinality(Delivered) = Cardinality(Workers) * NumBatches
  BY <1>2, <1>3, SearchAssumption, FS_Product
<1> QED
  BY <1>4 DEF Counted

LEMMA PrintedStep ==
    ASSUME TypeOK, LogFiles, MainOrder, Endings, Progress, Counted, Printed, [Next]_vars
    PROVE  Printed'
<1> SUFFICES ASSUME pc'[Main] = "end", failed' = {}
             PROVE  reported' = BatchSize * (Cardinality(Workers) * NumBatches)
  BY DEF Printed
<1>1. CASE Finish
  BY <1>1, AllDelivered DEF Finish
<1>2. CASE ~Finish
  <2>1. pc[Main] = "end"
    BY <1>2, EndStays
  <2>2. reported' = reported /\ failed \subseteq failed'
    BY <1>2, EventFrame DEF eventVars, Fail, OnMessage, OnError, OnExit, PostMessage
  <2> QED
    BY <2>1, <2>2 DEF Printed
<1> QED
  BY <1>1, <1>2

-----------------------------------------------------------------------------
(* The theorems.                                                           *)

IInv == Inv /\ Counted /\ Printed

LEMMA InitInv == Init => IInv
<1> SUFFICES ASSUME Init PROVE IInv
  OBVIOUS
<1> USE SearchAssumption DEF Init, InitAt, Threads
<1>1. pc \in [Threads -> Labels]
  BY DEF Labels
<1>2. LogTypes
  BY DEF LogTypes, LogPaths
<1>3. TableTypes
  BY DEF TableTypes
<1>9. WorkerTypes
  BY DEF WorkerTypes
<1>10. EventTypes
  BY DEF EventTypes
<1>4. LogFiles /\ MainOrder
  BY DEF LogFiles, MainOrder, Starting
<1>5. Endings
  BY DEF Endings
<1>6. Table /\ Progress
  BY DEF Table, TableSafe, Progress, WorkerProgress, InLoop, InBatch
<1>7. Counted
  <2>1. Delivered = {}
    BY DEF Delivered
  <2> QED
    BY <2>1, FS_EmptySet DEF Counted
<1>8. Printed
  BY DEF Printed
<1> QED
  BY <1>1, <1>2, <1>3, <1>4, <1>5, <1>6, <1>7, <1>8, <1>9, <1>10 DEF IInv, Inv, TypeOK

LEMMA StepInv == IInv /\ [Next]_vars => IInv'
<1> SUFFICES ASSUME IInv, [Next]_vars PROVE IInv'
  OBVIOUS
<1>1. pc' \in [Threads -> Labels]
  <2> USE DEF IInv, Inv, TypeOK, Threads
  <2>1. ASSUME NEW t \in Threads, InitializeLogs(t)
        PROVE  pc' \in [Threads -> Labels]
    BY <2>1 DEF InitializeLogs, CheckPath, CreatePath, NextPath, AfterLogs, Fail, Goto, Labels
  <2>2. ASSUME NEW w \in Workers, StartWorker(w) \/ Fail(Main)
        PROVE  pc' \in [Threads -> Labels]
    BY <2>2 DEF StartWorker, Fail, Goto, Labels
  <2>f. CASE Fail(Main)
    BY <2>f DEF Fail, Goto, Labels
  <2>3. ASSUME NEW t \in Threads, NEW edges, Moves(t, edges)
        PROVE  pc' \in [Threads -> Labels]
    BY <2>3 DEF Moves, Goto
  <2> QED
    BY <2>1, <2>2, <2>3, <2>f, ControlFrame
<1>2. TypeOK'
  BY <1>1, LogTypesStep, TableTypesStep, WorkerTypesStep, EventTypesStep DEF IInv, Inv, TypeOK
<1> QED
  BY <1>2, LogFilesStep, MainOrderStep, EndingsStep, TableStep, ProgressStep, CountedStep, PrintedStep
  DEF IInv, Inv

\* Every reachable state satisfies the strengthening.
THEOREM Invariance == Spec => []IInv
<1> QED
  BY InitInv, StepInv, PTL DEF Spec

\* The variables of the search keep their types.
THEOREM TypeCorrect == Spec => []TypeOK
<1>1. IInv => TypeOK
  BY DEF IInv, Inv
<1> QED
  BY <1>1, Invariance, PTL

\* However many workers there are, none of them is inside a native
\* multiplication when finish() has destroyed the table.
THEOREM TableSafety == Spec => []TableSafe
<1>1. IInv => TableSafe
  BY DEF IInv, Inv, Table
<1> QED
  BY <1>1, Invariance, PTL

\* The counter is exact at every moment, and the printed total of a search
\* without failures is workers times batches times batch size.
THEOREM ReportIsComplete == Spec => []ReportComplete
<1>1. IInv => ReportComplete
  BY DEF IInv, Counted, Printed, ReportComplete
<1> QED
  BY <1>1, Invariance, PTL

LEMMA AppendKeeps ==
    ASSUME NEW S, NEW s \in Seq(S), NEW x \in S
    PROVE  Len(Append(s, x)) >= Len(s) /\ SubSeq(Append(s, x), 1, Len(s)) = s
  OBVIOUS

LEMMA SameKeeps ==
    ASSUME NEW S, NEW s \in Seq(S)
    PROVE  Len(s) >= Len(s) /\ SubSeq(s, 1, Len(s)) = s
  OBVIOUS

LEMMA EmptyKeeps ==
    ASSUME NEW S, NEW s \in Seq(S)
    PROVE  Len(s) >= Len(<<>>) /\ SubSeq(s, 1, Len(<<>>)) = <<>>
  OBVIOUS

\* No step truncates or rewrites a log that has lines.
THEOREM LogOnlyGrows == Spec => LogNeverLosesLines
<1>1. ASSUME IInv, [Next]_vars
      PROVE  [Len(log') >= Len(log) /\ SubSeq(log', 1, Len(log)) = log]_log
  <2>1. TypeOK /\ LogFiles /\ Progress /\ TypeOK'
    BY <1>1, StepInv DEF IInv, Inv
  <2>2. log \in Seq(Lines) /\ log' \in Seq(Lines)
    BY <2>1 DEF TypeOK, LogTypes
  <2>3. ASSUME NEW t \in Threads, InitializeLogs(t)
        PROVE  log' = log \/ log = <<>>
    <3>1. CASE pc[Main] \in Starting
      BY <2>1, <3>1 DEF LogFiles
    <3>2. CASE pc[Main] \notin Starting
      BY <2>1, <2>3, <3>2, WorkersOnlyCheck DEF CheckPath
    <3> QED
      BY <3>1, <3>2
  <2>4. ASSUME NEW w \in Workers, OnError(w) \/ OnExit(w)
        PROVE  log' = log
    BY <2>4 DEF OnError, OnExit, Fail, logVars
  <2>5. CASE log = <<>>
    BY <2>2, <2>5, EmptyKeeps
  <2>6. ASSUME NEW w \in Workers, LogKey(w), ~Fail(w)
        PROVE  Len(log') >= Len(log) /\ SubSeq(log', 1, Len(log)) = log
    BY <2>1, <2>2, <2>6, LineType, AppendKeeps DEF LogKey
  <2> QED
    BY <1>1, <2>3, <2>4, <2>5, <2>6, LogFrame DEF logVars
<1> QED
  BY <1>1, Invariance, PTL DEF Spec, LogNeverLosesLines

-----------------------------------------------------------------------------
(* What the logs hold, and SearchContract.                                 *)

IsHit(k) == AddressesOf[k] \cap Funded # {}

\* Batch Len(drawn[w]) is the current one from its drawing to its message; a
\* worker that does not test key by key is at slot 0.
BatchPlace(w) ==
    /\ Len(drawn[w]) <= NumBatches
    /\ pc[w] \in InBatch \cup {"post"} => Len(drawn[w]) = posted[w] + 1
    /\ pc[w] \in {"unborn", "check", "open", "draw"} => Len(drawn[w]) = posted[w]
    /\ pc[w] \in {"unborn", "check", "open", "draw", "post"} => slot[w] = 0
    /\ pc[w] = "log" => IsHit(Batch(w)[slot[w]])

Places == \A w \in Workers : BatchPlace(w)

Injective(q) == \A m, n \in DOMAIN q : q[m] = q[n] => m = n
Elements(q)  == {q[n] : n \in DOMAIN q}

\* The error log names the workers whose error an event handler has met.
Errors ==
    /\ Injective(errorLog)
    /\ Elements(errorLog) = errored

Reported == pc[Main] # "end" => reported = -1

LogInv == IInv /\ Places /\ Errors /\ Reported /\ LogMatchesTests

-----------------------------------------------------------------------------
(* Steps of a worker's own, and steps of the others.                       *)

\* What is a worker's own changes by its own steps only, but that it is
\* started, and looks for the log files.
LEMMA OwnFrame ==
    ASSUME IInv, [Next]_vars, NEW w \in Workers
    PROVE  \/ WorkerStep(w)
           \/ /\ drawn'[w] = drawn[w] /\ slot'[w] = slot[w] /\ posted'[w] = posted[w]
              /\ \/ pc'[w] = pc[w]
                 \/ pc[w] = "unborn" /\ pc'[w] = "check"
                 \/ pc[w] = "check" /\ pc'[w] \in {"check", "open"}
<1> USE SearchAssumption DEF IInv, Inv, TypeOK, Threads
<1>f. CASE Fail(Main)
  BY <1>f, MainDies DEF workerVars
<1>1. CASE UNCHANGED vars
  BY <1>1 DEF vars, workerVars
<1>2. ASSUME NEW t \in Threads, InitializeLogs(t), t # w
      PROVE  pc'[w] = pc[w] /\ UNCHANGED workerVars
  BY <1>2 DEF InitializeLogs, CheckPath, CreatePath, NextPath, Fail, Goto
<1>3. CASE InitializeLogs(w)
  <2>1. CheckPath(w) /\ NextPath(w)
    BY <1>3, WorkersOnlyCheck DEF MainOrder, Starting, InitializeLogs, CheckPath, CreatePath
  <2> QED
    BY <2>1 DEF CheckPath, NextPath, AfterLogs, Goto, workerVars
<1>4. CASE MainStep /\ ~Fail(Main)
  BY <1>4 DEF MainStep, PublicKeyCreateInit, StartWorker, Finish, Goto, workerVars
<1>5. ASSUME NEW v \in Workers, EventStep(v), ~Fail(Main)
      PROVE  UNCHANGED <<pc, workerVars>>
  BY <1>5 DEF EventStep, OnMessage, OnError, OnExit
<1>6. ASSUME NEW v \in Workers, WorkerStep(v), v # w
      PROVE  pc'[w] = pc[w] /\ drawn'[w] = drawn[w] /\ slot'[w] = slot[w] /\ posted'[w] = posted[w]
  BY <1>6, OthersFrame
<1> QED
  BY <1>f, <1>1, <1>2, <1>3, <1>4, <1>5, <1>6 DEF Next, ProgressTimer, ProcessEnded, workerVars

\* Drawing a batch makes it the current one and leaves the others.
LEMMA DrawnBatch ==
    ASSUME IInv, NEW w \in Workers, CreatePrivateKey(w)
    PROVE  /\ Len(drawn'[w]) = Len(drawn[w]) + 1
           /\ \A i \in 1..Len(drawn[w]) : drawn'[w][i] = drawn[w][i]
           /\ pc[w] = "draw" /\ pc'[w] = "compressed"
           /\ slot'[w] = slot[w] /\ posted'[w] = posted[w]
<1>1. drawn[w] \in Seq(Batches)
  BY DEF IInv, Inv, TypeOK, WorkerTypes
<1>2. \A b \in Batches : /\ Len(Append(drawn[w], b)) = Len(drawn[w]) + 1
                         /\ \A i \in 1..Len(drawn[w]) : Append(drawn[w], b)[i] = drawn[w][i]
  BY <1>1
<1>3. \E b \in Batches : drawn'[w] = Append(drawn[w], b)
  BY DEF CreatePrivateKey, IInv, Inv, TypeOK, WorkerTypes
<1> QED
  BY <1>2, <1>3 DEF CreatePrivateKey, EnterNative, Goto, IInv, Inv, TypeOK, WorkerTypes, Threads

\* On to the next slot, or out of the loop after the last.
LEMMA NextSlotEffect ==
    ASSUME IInv, NEW w \in Workers, NextSlot(w)
    PROVE  \/ slot[w] < BatchSize /\ slot'[w] = slot[w] + 1 /\ pc'[w] = "compressed"
           \/ slot[w] = BatchSize /\ slot'[w] = 0 /\ pc'[w] = "post"
  BY SearchAssumption DEF NextSlot, EnterNative, Goto, IInv, Inv, TypeOK, WorkerTypes, Threads

\* A lookup that answers: the batch has no hit, or its keys are tested alone;
\* the key alone is no hit, or it is logged.
LEMMA LookupEffect ==
    ASSUME IInv, NEW w \in Workers, LookupAnswers(w), ~Fail(w)
    PROVE  /\ pc[w] = "lookup" /\ UNCHANGED <<logVars, drawn, posted, eventVars>>
           /\ \/ slot[w] = 0 /\ Values(w) = {} /\ pc'[w] = "post" /\ slot' = slot
              \/ slot[w] = 0 /\ Values(w) # {} /\ NextSlot(w)
              \/ slot[w] > 0 /\ Values(w) = {} /\ NextSlot(w)
              \/ slot[w] > 0 /\ Values(w) # {} /\ pc'[w] = "log" /\ slot' = slot
  BY DEF LookupAnswers, Goto, IInv, Inv, TypeOK, Threads

\* Every step keeps each worker's place in its batch.
LEMMA PlacesStep ==
    ASSUME IInv, Places, [Next]_vars
    PROVE  Places'
<1> SUFFICES ASSUME NEW w \in Workers
             PROVE  BatchPlace(w)'
  BY DEF Places
<1>0. BatchPlace(w) /\ WorkerProgress(w)
  BY DEF Places, IInv, Inv, Progress
<1> USE <1>0, SearchAssumption DEF BatchPlace, WorkerProgress, InLoop, InBatch
<1>t. /\ pc \in [Threads -> Labels] /\ w \in Threads
      /\ drawn[w] \in Seq(Batches) /\ Len(drawn[w]) \in Nat
      /\ slot \in [Workers -> 0..BatchSize] /\ slot[w] \in 0..BatchSize
      /\ posted \in [Workers -> 0..NumBatches] /\ posted[w] \in 0..NumBatches
  BY DEF IInv, Inv, TypeOK, WorkerTypes, Threads
<1>1. CASE ~WorkerStep(w)
  BY <1>1, OwnFrame DEF Batch
<1>2. CASE Fail(w)
  BY <1>2, <1>t DEF Fail, Goto, workerVars
<1>3. CASE OpenDatabase(w) /\ ~Fail(w)
  BY <1>3, <1>t DEF OpenDatabase, LoopHead, Goto, workerVars
<1>4. CASE CreatePrivateKey(w)
  BY <1>4, <1>t, DrawnBatch
<1>5. CASE CompressedDone(w) \/ UncompressedDone(w)
  BY <1>5, <1>t DEF CompressedDone, UncompressedDone, Goto, workerVars
<1>6. CASE LookupAnswers(w) /\ ~Fail(w)
  <2>1. pc'[w] = "log" => slot[w] > 0 /\ Values(w) # {} /\ UNCHANGED <<drawn, slot>>
    BY <1>6, LookupEffect, NextSlotEffect
  <2>2. slot[w] > 0 /\ Values(w) # {} => IsHit(Batch(w)[slot[w]])
    BY DEF Values, KeysAsked, IsHit
  <2>3. pc'[w] = "log" => IsHit(Batch(w)[slot[w]])'
    BY <2>1, <2>2 DEF Batch, IsHit
  <2> QED
    BY <1>6, <1>t, <2>3, LookupEffect, NextSlotEffect
<1>7. CASE LogKey(w) /\ ~Fail(w)
  BY <1>7, <1>t, NextSlotEffect DEF LogKey
<1>8. CASE PostMessage(w)
  BY <1>8, <1>t DEF PostMessage, LoopHead, Goto
<1>9. CASE CloseDatabase(w) /\ ~Fail(w)
  BY <1>9, <1>t DEF CloseDatabase, Goto, workerVars
<1>10. CASE ThreadStops(w)
  BY <1>10, <1>t DEF ThreadStops, Goto, workerVars
<1> QED
  BY <1>1, <1>2, <1>3, <1>4, <1>5, <1>6, <1>7, <1>8, <1>9, <1>10 DEF WorkerStep

-----------------------------------------------------------------------------
(* The error log.                                                          *)

\* A sequence without elements is empty.
LEMMA EmptyElements ==
    ASSUME NEW S, NEW q \in Seq(S), Elements(q) = {}
    PROVE  q = <<>>
<1>1. \A n \in DOMAIN q : FALSE
  BY DEF Elements
<1>2. Len(q) \in Nat /\ DOMAIN q = 1..Len(q)
  OBVIOUS
<1>3. Len(q) = 0
  BY <1>1, <1>2
<1> QED
  BY <1>3

\* A new element at the end keeps a sequence free of repetitions.
LEMMA AppendNew ==
    ASSUME NEW S, NEW q \in Seq(S), NEW x \in S, Injective(q), x \notin Elements(q)
    PROVE  Injective(Append(q, x)) /\ Elements(Append(q, x)) = Elements(q) \cup {x}
<1> DEFINE a == Append(q, x)
<1>1. /\ DOMAIN q = 1..Len(q) /\ Len(q) \in Nat
      /\ DOMAIN a = 1..(Len(q) + 1)
      /\ \A n \in DOMAIN q : a[n] = q[n]
      /\ a[Len(q) + 1] = x
  OBVIOUS
<1> HIDE DEF a
<1>2. \A n \in DOMAIN a : n \in DOMAIN q \/ n = Len(q) + 1
  BY <1>1
<1>3. DOMAIN q \subseteq DOMAIN a /\ Len(q) + 1 \in DOMAIN a
  BY <1>1
<1>4. \A n \in DOMAIN q : q[n] # x
  BY DEF Elements
<1>5. Injective(a)
  BY <1>1, <1>2, <1>4 DEF Injective
<1>6. Elements(a) = Elements(q) \cup {x}
  BY <1>1, <1>2, <1>3 DEF Elements
<1> QED
  BY <1>5, <1>6 DEF a

\* Only the main thread finds a log file missing, and may die of it.
LEMMA MainCreates ==
    ASSUME IInv, [Next]_vars, NEW t \in Threads, CreatePath(t)
    PROVE  t = Main /\ pc[Main] \in Starting
<1> USE DEF IInv, Inv
<1>1. CASE pc[Main] \in Starting
  BY <1>1 DEF CreatePath, MainOrder, Starting, Threads
<1>2. CASE pc[Main] \notin Starting
  BY <1>2, WorkersOnlyCheck DEF InitializeLogs, CheckPath, CreatePath
<1> QED
  BY <1>1, <1>2

\* Every step keeps the error log and the errors handled in agreement.
LEMMA ErrorsStep ==
    ASSUME IInv, Errors, [Next]_vars
    PROVE  Errors'
<1> USE DEF IInv, Inv
<1>0. errorLog \in Seq(Workers)
  BY DEF TypeOK, LogTypes
<1>f. CASE Fail(Main)
  BY <1>f, MainDies DEF logVars, eventVars, Errors
<1>1. ASSUME NEW t \in Threads, CreatePath(t), ~Fail(Main)
      PROVE  errorLog' = errorLog
  <2>1. t = Main /\ pc[Main] \in Starting
    BY <1>1, MainCreates
  <2>2. failed = {}
    BY <2>1 DEF Endings, MainOrder, Starting, Over, TypeOK, EventTypes
  <2>3. errorLog = <<>>
    BY <1>0, <2>2, EmptyElements DEF Errors, Endings
  <2> QED
    BY <1>1, <2>1, <2>3, CreatePathFacts
<1>2. ASSUME NEW w \in Workers, w \notin errored, errorLog' = Append(errorLog, w),
             errored' = errored \cup {w}
      PROVE  Injective(errorLog') /\ Elements(errorLog') = errored'
  BY <1>0, <1>2, AppendNew DEF Errors
<1>3. ASSUME NEW w \in Workers, OnError(w), ~Fail(Main)
      PROVE  Errors'
  BY <1>2, <1>3 DEF OnError, Errors
<1>4. ASSUME NEW w \in Workers, OnExit(w), ~Fail(Main)
      PROVE  Errors'
  <2>1. CASE w \in failed \ errored
    BY <1>2, <1>4, <2>1 DEF OnExit, Errors
  <2>2. CASE w \notin failed \ errored
    <3>1. errored' = errored /\ errorLog' = errorLog
      BY <1>4, <2>2 DEF OnExit
    <3> QED
      BY <1>4, <2>2, <3>1 DEF OnExit, Errors
  <2> QED
    BY <2>1, <2>2
<1>5. ASSUME NEW w \in Workers, Fail(w)
      PROVE  Errors'
  BY <1>5 DEF Fail, logVars, Errors
<1>6. ASSUME UNCHANGED <<errorLog, errored>>
      PROVE  Errors'
  BY <1>6 DEF Errors
<1>7. ASSUME NEW w \in Workers, OnMessage(w) \/ (WorkerStep(w) /\ ~Fail(w))
      PROVE  UNCHANGED <<errorLog, errored>>
  BY <1>7 DEF OnMessage, WorkerStep, OpenDatabase, CreatePrivateKey, CompressedDone, UncompressedDone,
              LookupAnswers, LogKey, PostMessage, CloseDatabase, ThreadStops, logVars, eventVars
<1>9. CASE MainStep /\ ~Fail(Main)
  BY <1>6, <1>9 DEF MainStep, PublicKeyCreateInit, StartWorker, Finish, logVars, eventVars
<1>10. ASSUME NEW t \in Threads, InitializeLogs(t), ~Fail(Main)
       PROVE  UNCHANGED <<errorLog, errored>>
  <2>1. CASE CheckPath(t)
    BY <2>1 DEF CheckPath, eventVars
  <2>2. CASE CreatePath(t)
    BY <1>1, <1>10, <2>2, MainCreates DEF CreatePath, eventVars
  <2> QED
    BY <1>10, <2>1, <2>2 DEF InitializeLogs
<1> QED
  BY <1>f, <1>3, <1>4, <1>5, <1>6, <1>7, <1>9, <1>10
  DEF Next, EventStep, ProgressTimer, ProcessEnded, vars, logVars, eventVars

\* Nothing is reported before the end.
LEMMA ReportedStep ==
    ASSUME IInv, Reported, [Next]_vars
    PROVE  Reported'
<1> SUFFICES ASSUME pc'[Main] # "end"
             PROVE  reported' = -1
  BY DEF Reported
<1>1. ~Finish
  BY DEF Finish, Goto, IInv, Inv, TypeOK, Threads
<1>f. CASE Fail(Main)
  BY <1>f, MainDies, DiesBeforeEnd DEF Reported, eventVars, IInv, Inv
<1> SUFFICES ASSUME ~Fail(Main)
             PROVE  reported' = -1
  BY <1>f
<1>2. pc[Main] # "end"
  <2> USE SearchAssumption DEF IInv, Inv, TypeOK, Threads
  <2>1. ASSUME NEW t \in Threads, InitializeLogs(t), pc[Main] = "end"
        PROVE  pc'[Main] = "end"
    BY <2>1 DEF InitializeLogs, CheckPath, CreatePath, NextPath, AfterLogs, Fail, Goto
  <2>2. ASSUME NEW w \in Workers, StartWorker(w) \/ Moves(w, WorkerEdges), pc[Main] = "end"
        PROVE  pc'[Main] = "end"
    BY <2>2 DEF StartWorker, Moves, Goto
  <2>3. pc[Main] = "end" => ~Moves(Main, MainEdges)
    BY DEF Moves, MainEdges
  <2> QED
    BY <2>1, <2>2, <2>3, ControlFrame
<1> QED
  BY <1>1, <1>2, EventFrame DEF Reported, eventVars, Fail, OnMessage, OnError, OnExit, PostMessage, IInv, Inv

-----------------------------------------------------------------------------
(* The log.                                                                *)

\* Only LogKey, when it does not fail, changes the log: when a thread creates the file, it has no
\* lines to lose.
LEMMA LogKept ==
    ASSUME IInv, [Next]_vars, \A w \in Workers : ~LogKey(w) \/ Fail(w)
    PROVE  log' = log
<1>1. ASSUME NEW t \in Threads, InitializeLogs(t)
      PROVE  log' = log
  <2>1. CASE pc[Main] \in Starting
    <3>1. log = <<>>
      BY <2>1 DEF IInv, Inv, LogFiles
    <3> QED
      BY <1>1, <3>1, CreatePathFacts DEF InitializeLogs, CheckPath, Fail, logVars
  <2>2. CASE pc[Main] \notin Starting
    BY <1>1, <2>2, WorkersOnlyCheck DEF CheckPath, IInv, Inv
  <2> QED
    BY <2>1, <2>2
<1>2. ASSUME NEW w \in Workers, OnError(w) \/ OnExit(w)
      PROVE  log' = log
  BY <1>2 DEF OnError, OnExit, Fail, logVars
<1> QED
  BY <1>1, <1>2, LogFrame DEF logVars

HitSlots(w, k) == {d \in SlotsDone(w) : drawn[w][d[1]][d[2]] = k /\ IsHit(k)}

\* The hits on a key are the same if those of each worker are.
LEMMA HitsBySlots ==
    ASSUME NEW k, \A w \in Workers : HitSlots(w, k)' = HitSlots(w, k)
    PROVE  HitsDone(k)' = HitsDone(k)
<1>1. HitsDone(k) = UNION {{w} \X HitSlots(w, k) : w \in Workers}
  BY DEF HitsDone, HitSlots, IsHit
<1>2. HitsDone(k)' = UNION {{w} \X HitSlots(w, k)' : w \in Workers}
  BY DEF HitsDone, HitSlots, IsHit
<1> QED
  BY <1>1, <1>2

\* The batches and slots of a worker, as the numbers they are.
LEMMA PlaceTypes ==
    ASSUME IInv, NEW w \in Workers
    PROVE  /\ drawn[w] \in Seq(Batches) /\ Len(drawn[w]) \in Nat
           /\ slot[w] \in 0..BatchSize /\ posted[w] \in 0..NumBatches
           /\ BatchSize \in Nat \ {0} /\ NumBatches \in Nat \ {0}
  BY SearchAssumption DEF IInv, Inv, TypeOK, WorkerTypes

\* No step but a lookup and the writing of a line tests a key to the end.
LEMMA SlotsKept ==
    ASSUME IInv, Places, [Next]_vars, NEW w \in Workers,
           ~LogKey(w) \/ Fail(w), ~LookupAnswers(w) \/ Fail(w)
    PROVE  /\ SlotsDone(w)' = SlotsDone(w)
           /\ \A d \in SlotsDone(w) : drawn'[w][d[1]] = drawn[w][d[1]]
<1>0. BatchPlace(w) /\ WorkerProgress(w)
  BY DEF Places, IInv, Inv, Progress
<1> USE <1>0, PlaceTypes DEF BatchPlace, WorkerProgress, InLoop, InBatch, SlotsDone
<1>t. pc \in [Threads -> Labels] /\ w \in Threads /\ posted \in [Workers -> 0..NumBatches]
  BY DEF IInv, Inv, TypeOK, WorkerTypes, Threads
<1>1. ASSUME drawn'[w] = drawn[w], slot'[w] = slot[w], posted'[w] = posted[w],
             pc[w] = "post" <=> pc'[w] = "post"
      PROVE  /\ SlotsDone(w)' = SlotsDone(w)
             /\ \A d \in SlotsDone(w) : drawn'[w][d[1]] = drawn[w][d[1]]
  BY <1>1
<1>2. CASE ~WorkerStep(w)
  BY <1>1, <1>2, OwnFrame
<1>3. CASE Fail(w) /\ pc[w] # "post"
  BY <1>1, <1>3, <1>t DEF Fail, Goto, workerVars
<1>4. CASE OpenDatabase(w) \/ CompressedDone(w) \/ UncompressedDone(w) \/ CloseDatabase(w)
           \/ ThreadStops(w)
  BY <1>1, <1>3, <1>4, <1>t
  DEF OpenDatabase, CompressedDone, UncompressedDone, CloseDatabase, ThreadStops, LoopHead, Goto, workerVars
<1>5. CASE CreatePrivateKey(w)
  <2>1. /\ Len(drawn'[w]) = posted[w] + 1 /\ Len(drawn[w]) = posted[w]
        /\ \A i \in 1..Len(drawn[w]) : drawn'[w][i] = drawn[w][i]
        /\ slot[w] = 0 /\ pc[w] = "draw" /\ pc'[w] = "compressed"
        /\ slot'[w] = slot[w] /\ posted'[w] = posted[w]
    BY <1>5, DrawnBatch
  <2>2. ASSUME NEW i \in Nat, NEW j \in 1..BatchSize
        PROVE  <<i, j>> \in SlotsDone(w)' <=> <<i, j>> \in SlotsDone(w)
    BY <2>1
  <2>3. /\ SlotsDone(w)' \subseteq Nat \X (1..BatchSize)
        /\ SlotsDone(w) \subseteq Nat \X (1..BatchSize)
    BY <2>1
  <2>4. SlotsDone(w)' = SlotsDone(w)
    BY <2>2, <2>3
  <2>5. \A d \in SlotsDone(w) : d[1] \in 1..Len(drawn[w])
    OBVIOUS
  <2> QED
    BY <2>1, <2>4, <2>5
<1>6. CASE PostMessage(w)
  <2>1. /\ drawn' = drawn /\ slot' = slot /\ slot[w] = 0 /\ pc[w] = "post" /\ pc'[w] # "post"
        /\ posted'[w] = posted[w] + 1 /\ Len(drawn[w]) = posted[w] + 1
    BY <1>6, <1>t DEF PostMessage, LoopHead, Goto
  <2>2. \A d \in (1..Len(drawn[w])) \X (1..BatchSize) : d[1] <= posted[w] + 1
    BY <2>1
  <2> QED
    BY <2>1, <2>2
<1> QED
  BY <1>2, <1>3, <1>4, <1>5, <1>6 DEF WorkerStep, LookupAnswers, LogKey

\* The keys that a lookup is done with are no hits.
LEMMA LookupHits ==
    ASSUME IInv, Places, NEW w \in Workers, LookupAnswers(w), ~Fail(w), NEW k
    PROVE  HitSlots(w, k)' = HitSlots(w, k)
<1>0. BatchPlace(w) /\ WorkerProgress(w)
  BY DEF Places, IInv, Inv, Progress
<1> USE <1>0, PlaceTypes DEF BatchPlace, WorkerProgress, InLoop, InBatch
<1> DEFINE b == Len(drawn[w])
<1>1. /\ UNCHANGED <<drawn, posted>> /\ pc[w] = "lookup" /\ b = posted[w] + 1
      /\ Batch(w) = drawn[w][b]
  BY LookupEffect DEF Batch
<1>2. CASE slot[w] = 0 /\ Values(w) = {}
  <2>1. \A j \in 1..BatchSize : ~IsHit(drawn[w][b][j])
    BY <1>1, <1>2 DEF Values, KeysAsked, IsHit
  <2>2. pc'[w] = "post" /\ slot' = slot
    BY <1>2, LookupEffect
  <2>3. SlotsDone(w)' = SlotsDone(w) \cup {d \in (1..b) \X (1..BatchSize) : d[1] = b}
    BY <1>1, <1>2, <2>2 DEF SlotsDone
  <2> QED
    BY <1>1, <2>1, <2>3 DEF HitSlots
<1>3. CASE slot[w] = 0 /\ Values(w) # {}
  <2>1. pc'[w] = "compressed" /\ slot'[w] = 1
    BY <1>3, LookupEffect, NextSlotEffect
  <2>2. SlotsDone(w)' = SlotsDone(w)
    BY <1>1, <1>3, <2>1 DEF SlotsDone
  <2> QED
    BY <1>1, <2>2 DEF HitSlots
<1>4. CASE slot[w] > 0 /\ Values(w) = {}
  <2>1. ~IsHit(drawn[w][b][slot[w]])
    BY <1>1, <1>4 DEF Values, KeysAsked, IsHit
  <2>2. \/ slot[w] < BatchSize /\ slot'[w] = slot[w] + 1 /\ pc'[w] = "compressed"
        \/ slot[w] = BatchSize /\ slot'[w] = 0 /\ pc'[w] = "post"
    BY <1>4, LookupEffect, NextSlotEffect
  <2>3. SlotsDone(w)' = SlotsDone(w) \cup {<<b, slot[w]>>}
    BY <1>1, <1>4, <2>2 DEF SlotsDone
  <2> QED
    BY <1>1, <2>1, <2>3 DEF HitSlots
<1>5. CASE slot[w] > 0 /\ Values(w) # {}
  <2>1. pc'[w] = "log" /\ slot' = slot
    BY <1>5, LookupEffect
  <2> QED
    BY <1>1, <2>1 DEF SlotsDone, HitSlots
<1> QED
  BY <1>2, <1>3, <1>4, <1>5

\* Writing a line tests the key at the current slot to the end.
LEMMA LogKeySlots ==
    ASSUME IInv, Places, NEW w \in Workers, LogKey(w), ~Fail(w)
    PROVE  /\ drawn' = drawn
           /\ <<Len(drawn[w]), slot[w]>> \notin SlotsDone(w)
           /\ SlotsDone(w)' = SlotsDone(w) \cup {<<Len(drawn[w]), slot[w]>>}
<1>0. BatchPlace(w) /\ WorkerProgress(w)
  BY DEF Places, IInv, Inv, Progress
<1> USE <1>0, PlaceTypes DEF BatchPlace, WorkerProgress, InLoop, InBatch
<1>1. /\ UNCHANGED <<drawn, posted>> /\ pc[w] = "log" /\ slot[w] >= 1
      /\ Len(drawn[w]) = posted[w] + 1
  BY DEF LogKey
<1>2. \/ slot[w] < BatchSize /\ slot'[w] = slot[w] + 1 /\ pc'[w] = "compressed"
      \/ slot[w] = BatchSize /\ slot'[w] = 0 /\ pc'[w] = "post"
  BY NextSlotEffect DEF LogKey
<1> QED
  BY <1>1, <1>2, SMTT(20) DEF SlotsDone

\* A key can be hit only finitely often.
LEMMA HitsFinite ==
    ASSUME IInv, Places, NEW k
    PROVE  IsFiniteSet(HitsDone(k))
<1> DEFINE all == Workers \X ((1..NumBatches) \X (1..BatchSize))
<1>1. IsFiniteSet(1..NumBatches) /\ IsFiniteSet(1..BatchSize)
  BY SearchAssumption, FS_Interval
<1>2. IsFiniteSet((1..NumBatches) \X (1..BatchSize))
  BY <1>1, FS_Product
<1>3. IsFiniteSet(all)
  BY <1>2, SearchAssumption, FS_Product
<1>4. ASSUME NEW w \in Workers
      PROVE  SlotsDone(w) \subseteq (1..NumBatches) \X (1..BatchSize)
  <2>1. Len(drawn[w]) <= NumBatches /\ Len(drawn[w]) \in Nat /\ NumBatches \in Nat
    BY PlaceTypes DEF Places, BatchPlace
  <2>2. 1..Len(drawn[w]) \subseteq 1..NumBatches
    BY <2>1
  <2> QED
    BY <2>2 DEF SlotsDone
<1>5. HitsDone(k) \subseteq all
  BY <1>4 DEF HitsDone
<1> QED
  BY <1>3, <1>5, FS_Subset

At(q, y) == {n \in DOMAIN q : q[n] = y}

\* A line more for a key counts one more, and leaves the count of the others.
LEMMA LineCount ==
    ASSUME NEW S, NEW q \in Seq(S), NEW x \in S, NEW y
    PROVE  /\ x = y => Cardinality(At(Append(q, x), y)) = Cardinality(At(q, y)) + 1
           /\ x # y => At(Append(q, x), y) = At(q, y)
<1> DEFINE a == Append(q, x)
<1> USE DEF At
<1>1. /\ DOMAIN q = 1..Len(q) /\ Len(q) \in Nat
      /\ DOMAIN a = 1..(Len(q) + 1)
      /\ \A n \in DOMAIN q : a[n] = q[n]
      /\ a[Len(q) + 1] = x
  OBVIOUS
<1> HIDE DEF a
<1>2. DOMAIN a = DOMAIN q \cup {Len(q) + 1} /\ Len(q) + 1 \notin DOMAIN q
  BY <1>1
<1>3. IsFiniteSet(At(q, y))
  <2>1. IsFiniteSet(DOMAIN q)
    BY <1>1, FS_Interval
  <2> QED
    BY <2>1, FS_Subset
<1>4. CASE x = y
  <2>1. At(a, y) = At(q, y) \cup {Len(q) + 1} /\ Len(q) + 1 \notin At(q, y)
    BY <1>1, <1>2, <1>4
  <2>2. Cardinality(At(a, y)) = Cardinality(At(q, y)) + 1
    BY <1>3, <2>1, FS_AddElement
  <2> QED
    BY <1>3, <1>4, <2>2 DEF a
<1>5. CASE x # y
  <2>1. At(a, y) = At(q, y)
    BY <1>1, <1>2, <1>5
  <2> QED
    BY <1>3, <1>5, <2>1 DEF a
<1> QED
  BY <1>4, <1>5

\* A line is that of one key.
LEMMA LineKey == ASSUME NEW k PROVE Line(k).key = k
  BY DEF Line

\* Every step keeps the log equal to the tests that are done.
LEMMA LogMatchesStep ==
    ASSUME IInv, Places, LogMatchesTests, [Next]_vars
    PROVE  LogMatchesTests'
<1>1. CASE \A w \in Workers : ~LogKey(w) \/ Fail(w)
  <2>1. log' = log
    BY <1>1, LogKept
  <2>2. ASSUME NEW w \in Workers, NEW k
        PROVE  HitSlots(w, k)' = HitSlots(w, k)
    <3>1. CASE LookupAnswers(w) /\ ~Fail(w)
      BY <3>1, LookupHits
    <3>2. CASE ~LookupAnswers(w) \/ Fail(w)
      BY <1>1, <3>2, SlotsKept DEF HitSlots
    <3> QED
      BY <3>1, <3>2
  <2>3. ASSUME NEW k \in Keys
        PROVE  HitsDone(k)' = HitsDone(k)
    BY <2>2, HitsBySlots
  <2>4. \A k : Line(k)' = Line(k)
    BY DEF Line
  <2> QED
    BY <2>1, <2>3 DEF LogMatchesTests, Line
<1>2. ASSUME NEW w \in Workers, LogKey(w), ~Fail(w)
      PROVE  LogMatchesTests'
  <2>0. PICK at : at = <<Len(drawn[w]), slot[w]>>
    OBVIOUS
  <2>k. PICK k0 : k0 = drawn[w][at[1]][at[2]]
    OBVIOUS
  <2>1. /\ k0 = Batch(w)[slot[w]] /\ IsHit(k0)
        /\ log' = Append(log, Line(k0)) /\ Line(k0) \in Lines
        /\ log \in Seq(Lines)
    BY <1>2, <2>0, <2>k, LineType DEF LogKey, Places, BatchPlace, Batch, IInv, Inv, TypeOK, LogTypes
  <2>2. /\ drawn' = drawn /\ at \notin SlotsDone(w) /\ SlotsDone(w)' = SlotsDone(w) \cup {at}
    BY <1>2, <2>0, LogKeySlots
  <2>3. ASSUME NEW v \in Workers, v # w
        PROVE  SlotsDone(v)' = SlotsDone(v)
    <3>1. pc'[v] = pc[v] /\ slot'[v] = slot[v] /\ posted'[v] = posted[v]
      BY <1>2, <2>3, OthersFrame DEF WorkerStep, IInv, Inv
    <3> QED
      BY <2>2, <3>1 DEF SlotsDone
  <2>4. ASSUME NEW k \in Keys, k # k0
        PROVE  HitsDone(k)' = HitsDone(k)
    <3>1. ASSUME NEW v \in Workers
          PROVE  HitSlots(v, k)' = HitSlots(v, k)
      BY <2>2, <2>3, <2>4, <2>k DEF HitSlots
    <3> QED
      BY <3>1, HitsBySlots
  <2>5. HitsDone(k0)' = HitsDone(k0) \cup {<<w, at>>} /\ <<w, at>> \notin HitsDone(k0)
    <3>1. \A v \in Workers : HitSlots(v, k0)' = HitSlots(v, k0) \cup (IF v = w THEN {at} ELSE {})
      BY <2>1, <2>2, <2>3, <2>k DEF HitSlots
    <3>2. HitsDone(k0) = UNION {{v} \X HitSlots(v, k0) : v \in Workers}
      BY DEF HitsDone, HitSlots, IsHit
    <3>3. HitsDone(k0)' = UNION {{v} \X HitSlots(v, k0)' : v \in Workers}
      BY DEF HitsDone, HitSlots, IsHit
    <3>4. at \notin HitSlots(w, k0)
      BY <2>2 DEF HitSlots
    <3> QED
      BY <3>1, <3>2, <3>3, <3>4
  <2>6. Cardinality(HitsDone(k0)') = Cardinality(HitsDone(k0)) + 1
    BY <2>5, HitsFinite, FS_AddElement
  <2>l. ASSUME NEW k
        PROVE  /\ Line(k0) = Line(k) => Cardinality(At(log', Line(k))) = Cardinality(At(log, Line(k))) + 1
               /\ Line(k0) # Line(k) => At(log', Line(k)) = At(log, Line(k))
    BY <2>1, LineCount
  <2>7. ASSUME NEW k \in Keys
        PROVE  Cardinality({n \in DOMAIN log' : log'[n] = Line(k)}) = Cardinality(HitsDone(k)')
    <3>0. Cardinality({n \in DOMAIN log : log[n] = Line(k)}) = Cardinality(HitsDone(k))
      BY DEF LogMatchesTests
    <3>1. CASE k = k0
      BY <2>l, <2>6, <3>0, <3>1 DEF At
    <3>2. CASE k # k0
      <4>1. Line(k) # Line(k0)
        BY <3>2, LineKey
      <4> QED
        BY <2>l, <2>4, <3>0, <3>2, <4>1 DEF At
    <3> QED
      BY <3>1, <3>2
  <2>8. \A n \in DOMAIN log' : log'[n] = Line(log'[n].key)
    <3>1. \A n \in DOMAIN log : log[n] = Line(log[n].key)
      <4>1. CASE Keys = {}
        BY <4>1, <2>1 DEF Lines
      <4>2. CASE Keys # {}
        BY <4>2 DEF LogMatchesTests
      <4> QED
        BY <4>1, <4>2
    <3>2. \A n \in DOMAIN log' : (n \in DOMAIN log /\ log'[n] = log[n]) \/ log'[n] = Line(k0)
      BY <2>1
    <3> QED
      BY <3>1, <3>2, LineKey
  <2> QED
    BY <2>7, <2>8 DEF LogMatchesTests, Line
<1> QED
  BY <1>1, <1>2

-----------------------------------------------------------------------------
(* The refinement of SearchContract.                                       *)

\* The variables of the contract, as the search shows them.
Tested  == {d \in Workers \X (1..NumBatches) : d[2] <= posted[d[1]]}
Running == {w \in Workers : pc[w] \notin {"finished", "failed", "stopped"}}

\* An initial search is an initial contract.
LEMMA ContractInit == Init => Contract!Init
<1> SUFFICES ASSUME Init PROVE Contract!Init
  OBVIOUS
<1> USE SearchAssumption DEF Init, InitAt, Threads
<1>1. Tested = {} /\ Delivered = {}
  BY DEF Tested, Delivered
<1>2. Running = Workers
  BY DEF Running
<1> QED
  BY <1>1, <1>2 DEF Contract!Init, Tested, Running

\* A step that touches nothing the contract sees is a stutter of it.
LEMMA ContractStutter ==
    ASSUME UNCHANGED <<log, posted, port, reported>>, Running' = Running
    PROVE  UNCHANGED Contract!contract
  BY DEF Contract!contract, Running, Delivered

\* A thread that moves on between places where it works is seen by nobody.
LEMMA RunningKept ==
    ASSUME TypeOK, NEW t \in Threads, NEW l, Goto(t, l),
           t \in Workers => pc[t] \notin {"finished"} \cup Over /\ l \notin {"finished"} \cup Over
    PROVE  Running' = Running
  BY DEF Running, Goto, TypeOK, Over

\* A line of the log is a discovery.
LEMMA DiscoverStep ==
    ASSUME IInv, Places, NEW w \in Workers, LogKey(w), ~Fail(w)
    PROVE  Contract!Discover
<1>1. pc[w] = "log" /\ log' = Append(log, Line(Batch(w)[slot[w]]))
      /\ UNCHANGED <<posted, port, reported>>
  BY DEF LogKey, eventVars
<1>2. IsHit(Batch(w)[slot[w]]) /\ Batch(w)[slot[w]] \in Keys
  <2>1. Batch(w) \in Batches
    BY <1>1 DEF Batch, IInv, Inv, TypeOK, WorkerTypes, Progress, WorkerProgress, InBatch
  <2>2. slot[w] \in 1..BatchSize
    BY <1>1, SearchAssumption DEF IInv, Inv, TypeOK, WorkerTypes, Progress, WorkerProgress
  <2> QED
    BY <1>1, <2>1, <2>2 DEF Batches, Places, BatchPlace
<1>3. \E l \in {"compressed", "post"} : Goto(w, l)
  BY DEF LogKey, NextSlot, EnterNative
<1>4. Running' = Running /\ Running # {}
  BY <1>1, <1>3, RunningKept DEF IInv, Inv, Over, Threads, Running
<1>5. Batch(w)[slot[w]] \in Contract!Hits
  BY <1>2 DEF Contract!Hits, IsHit
<1> QED
  BY <1>1, <1>4, <1>5 DEF Contract!Discover, Line, Running, Delivered

\* A message posted is a batch tested, the next one of its worker.
LEMMA TestStep ==
    ASSUME IInv, NEW w \in Workers, PostMessage(w), log' = log
    PROVE  Contract!Test(w)
<1> DEFINE i == posted[w] + 1
<1>1. /\ pc[w] = "post" /\ posted' = [posted EXCEPT ![w] = i] /\ port' = [port EXCEPT ![w] = @ + 1]
      /\ reported' = reported /\ i \in 1..NumBatches
      /\ posted \in [Workers -> 0..NumBatches] /\ port \in [Workers -> 0..NumBatches]
      /\ NumBatches \in Nat
  BY SearchAssumption DEF PostMessage, IInv, Inv, TypeOK, WorkerTypes, EventTypes, Progress, WorkerProgress, InLoop
<1>2. Running' = Running /\ w \in Running
  <2>1. \E l \in {"draw", "close"} : Goto(w, l)
    BY DEF PostMessage, LoopHead
  <2> QED
    BY <1>1, <2>1, RunningKept DEF IInv, Inv, Over, Threads, Running
<1>3. Delivered' = Delivered
  <2>1. \A v \in Workers : posted'[v] - port'[v] = posted[v] - port[v]
    BY <1>1
  <2> QED
    BY <2>1 DEF Delivered
<1>4. Tested \cap ({w} \X (1..NumBatches)) = {w} \X (1..(i - 1))
  <2>1. i - 1 = posted[w] /\ posted[w] \in Nat
    BY <1>1
  <2> QED
    BY <1>1, <2>1 DEF Tested
<1>5. Tested' = Tested \cup {<<w, i>>}
  <2>1. \A v \in Workers, n \in 1..NumBatches :
          n <= posted'[v] <=> n <= posted[v] \/ (v = w /\ n = i)
    BY <1>1
  <2> QED
    BY <1>1, <2>1 DEF Tested
<1> QED
  BY <1>1, <1>2, <1>3, <1>4, <1>5 DEF Contract!Test, Tested, Running

\* Messages handled, one or all that are left, are batches counted.
LEMMA CountStep ==
    ASSUME IInv, NEW w \in Workers, NEW n \in 0..port[w], port' = [port EXCEPT ![w] = @ - n],
           UNCHANGED <<log, pc, posted, reported>>
    PROVE  Contract!Count
<1>1. \A v \in Workers : /\ posted[v] - port[v] <= posted'[v] - port'[v]
                         /\ posted'[v] - port'[v] <= posted[v]
  BY DEF IInv, Inv, TypeOK, WorkerTypes, EventTypes, Progress, WorkerProgress
<1>2. Delivered \subseteq Delivered' /\ Delivered' \subseteq Tested
  <2>1. \A v \in Workers : /\ posted[v] - port[v] \in Int /\ posted'[v] - port'[v] \in Int
                           /\ posted[v] \in Int
    BY DEF IInv, Inv, TypeOK, WorkerTypes, EventTypes
  <2> QED
    BY <1>1, <2>1 DEF Delivered, Tested
<1>3. Delivered' \ Delivered \in SUBSET (Tested \ Delivered)
      /\ Delivered' = Delivered \cup (Delivered' \ Delivered)
  BY <1>2
<1> QED
  BY <1>3 DEF Contract!Count, Tested

\* A worker that closes the database or fails has stopped.
LEMMA StopStep ==
    ASSUME IInv, NEW w \in Workers, pc[w] \notin {"finished"} \cup Over,
           Goto(w, "finished") \/ Goto(w, "failed"),
           UNCHANGED <<log, posted, port, reported>>
    PROVE  Contract!Stop(w)
<1>1. w \in Running /\ Running' = Running \ {w}
  BY DEF Running, Goto, Over, IInv, Inv, TypeOK, Threads
<1> QED
  BY <1>1 DEF Contract!Stop, Running, Delivered

\* The contract counts with the Cardinality of its own instance.
LEMMA SameCardinality == \A S : Contract!Cardinality(S) = Cardinality(S)
  BY DEF Contract!Cardinality, Cardinality

\* The main thread reports when nobody tests any more, and for the first time.
LEMMA ReportStep ==
    ASSUME IInv, Reported, Finish
    PROVE  Contract!Report
<1>1. Running = {} /\ Running' = {}
  BY DEF Finish, Goto, Running, IInv, Inv, Endings, Over, TypeOK, Threads
<1>2. reported = -1 /\ reported' = BatchSize * Cardinality(Delivered)
  BY DEF Finish, Reported, IInv, Counted
<1>3. UNCHANGED <<log, posted, port>>
  BY DEF Finish, logVars, workerVars
<1> QED
  BY <1>1, <1>2, <1>3, SameCardinality DEF Contract!Report, Running, Delivered

\* Every step of the search is a step of the contract or a stutter.
LEMMA ContractStep ==
    ASSUME IInv, Places, Reported, [Next]_vars
    PROVE  [Contract!Next]_Contract!contract
<1> USE DEF Contract!Next
<1>1. CASE \E w \in Workers : LogKey(w) /\ ~Fail(w)
  BY <1>1, DiscoverStep
<1>f. CASE Fail(Main)
  <2>1. Running' = Running
    BY <1>f, MainDies DEF Running, IInv, Inv
  <2> QED
    BY <1>f, <2>1, MainDies, ContractStutter DEF logVars, workerVars, eventVars, IInv, Inv
<1>2. CASE UNCHANGED vars
  BY <1>2, ContractStutter DEF vars, logVars, workerVars, eventVars, Running
<1> SUFFICES ASSUME Next, ~Fail(Main), \A w \in Workers : ~LogKey(w) \/ Fail(w)
             PROVE  [Contract!Next]_Contract!contract
  BY <1>1, <1>2, <1>f
<1>3. log' = log
  BY LogKept
<1>4. ASSUME NEW t \in Threads, InitializeLogs(t)
      PROVE  UNCHANGED Contract!contract
  <2>0. ~(CreatePath(t) /\ Fail(t))
    BY <1>4, MainCreates
  <2>1. \E l : Goto(t, l) /\ (t \in Workers => l \notin {"finished"} \cup Over)
    BY <1>4, <2>0 DEF InitializeLogs, CheckPath, CreatePath, NextPath, AfterLogs, Over
  <2>2. pc[t] \notin {"finished"} \cup Over
    BY <1>4 DEF InitializeLogs, CheckPath, CreatePath, Over
  <2>3. UNCHANGED <<posted, port, reported>>
    BY <1>4, <2>0 DEF InitializeLogs, CheckPath, CreatePath, workerVars, eventVars
  <2> QED
    BY <1>3, <2>1, <2>2, <2>3, RunningKept, ContractStutter DEF IInv, Inv
<1>5. CASE PublicKeyCreateInit
  BY <1>3, <1>5, RunningKept, ContractStutter, SearchAssumption
  DEF PublicKeyCreateInit, IInv, Inv, Threads, workerVars, eventVars
<1>6. ASSUME NEW w \in Workers, StartWorker(w)
      PROVE  UNCHANGED Contract!contract
  <2>1. Running' = Running
    BY <1>6, SearchAssumption DEF StartWorker, Running, IInv, Inv, TypeOK, Threads
  <2> QED
    BY <1>3, <1>6, <2>1, ContractStutter DEF StartWorker, workerVars, eventVars
<1>7. CASE Finish
  BY <1>7, ReportStep
<1>8. ASSUME NEW w \in Workers, OnMessage(w)
      PROVE  Contract!Count
  <2>1. 1 \in 0..port[w]
    BY <1>8 DEF OnMessage, IInv, Inv, TypeOK, EventTypes
  <2> QED
    BY <1>3, <1>8, <2>1, CountStep DEF OnMessage, workerVars
<1>9. ASSUME NEW w \in Workers, OnExit(w)
      PROVE  Contract!Count
  <2>1. port[w] \in 0..port[w] /\ port[w] - port[w] = 0
    BY DEF IInv, Inv, TypeOK, EventTypes
  <2> QED
    BY <1>3, <1>9, <2>1, CountStep DEF OnExit, workerVars
<1>10. ASSUME NEW w \in Workers, OnError(w)
       PROVE  UNCHANGED Contract!contract
  BY <1>3, <1>10, ContractStutter DEF OnError, workerVars, Running
<1>11. ASSUME NEW w \in Workers, PostMessage(w)
       PROVE  Contract!Test(w)
  BY <1>3, <1>11, TestStep
<1>12. ASSUME NEW w \in Workers, WorkerStep(w), Fail(w)
       PROVE  Contract!Stop(w)
  <2>1. pc[w] \notin {"finished"} \cup Over
    BY <1>12 DEF WorkerStep, OpenDatabase, CreatePrivateKey, CompressedDone, UncompressedDone,
                LookupAnswers, LogKey, PostMessage, CloseDatabase, ThreadStops, Fail, Goto, Over,
                EnterNative, NextSlot, IInv, Inv, TypeOK, Threads, LoopHead
  <2> QED
    BY <1>3, <1>12, <2>1, StopStep DEF Fail, workerVars
<1>13. ASSUME NEW w \in Workers, CloseDatabase(w), ~Fail(w)
       PROVE  Contract!Stop(w)
  BY <1>3, <1>13, StopStep DEF CloseDatabase, Over, workerVars, eventVars
<1>14. ASSUME NEW w \in Workers,
              \/ OpenDatabase(w) \/ CreatePrivateKey(w) \/ CompressedDone(w) \/ UncompressedDone(w)
              \/ LookupAnswers(w),
              ~Fail(w)
       PROVE  UNCHANGED Contract!contract
  <2>1. \E l \in {"draw", "close", "compressed", "uncompressed", "lookup", "log", "post"} : Goto(w, l)
    BY <1>14 DEF OpenDatabase, CreatePrivateKey, CompressedDone, UncompressedDone, LookupAnswers,
                 LoopHead, NextSlot, EnterNative
  <2>2. pc[w] \notin {"finished"} \cup Over
    BY <1>14 DEF OpenDatabase, CreatePrivateKey, CompressedDone, UncompressedDone, LookupAnswers, Over
  <2>3. UNCHANGED <<posted, port, reported>>
    BY <1>14 DEF OpenDatabase, CreatePrivateKey, CompressedDone, UncompressedDone, LookupAnswers,
                 workerVars, eventVars
  <2> QED
    BY <1>3, <2>1, <2>2, <2>3, RunningKept, ContractStutter DEF IInv, Inv, Threads, Over
<1>15. ASSUME NEW w \in Workers, ThreadStops(w)
       PROVE  UNCHANGED Contract!contract
  <2>1. Running' = Running
    BY <1>15 DEF ThreadStops, Goto, Running, IInv, Inv, TypeOK, Threads
  <2> QED
    BY <1>3, <1>15, <2>1, ContractStutter DEF ThreadStops, workerVars, eventVars
<1>16. ASSUME NEW w \in Workers, WorkerStep(w)
       PROVE  [Contract!Next]_Contract!contract
  BY <1>11, <1>12, <1>13, <1>14, <1>15, <1>16 DEF WorkerStep
<1> QED
  BY <1>2, <1>4, <1>5, <1>6, <1>7, <1>8, <1>9, <1>10, <1>16
  DEF Next, MainStep, EventStep, ProgressTimer, ProcessEnded

-----------------------------------------------------------------------------
(* The theorems.                                                           *)

\* The strengthening holds at first.
LEMMA LogInvInit == Init => LogInv
<1> SUFFICES ASSUME Init PROVE LogInv
  OBVIOUS
<1>1. IInv
  BY InitInv
<1> USE SearchAssumption DEF Init, InitAt, Threads
<1>2. Places
  BY DEF Places, BatchPlace, InBatch
<1>3. Errors
  BY DEF Errors, Injective, Elements
<1>4. Reported
  BY DEF Reported
<1>5. \A w \in Workers : SlotsDone(w) = {}
  BY DEF SlotsDone
<1>6. \A k : HitsDone(k) = {}
  BY <1>5 DEF HitsDone
<1>7. LogMatchesTests
  <2>1. DOMAIN log = {}
    OBVIOUS
  <2>2. \A k : {n \in DOMAIN log : log[n] = Line(k)} = {}
    BY <2>1
  <2> QED
    BY <1>6, <2>1, <2>2 DEF LogMatchesTests
<1> QED
  BY <1>1, <1>2, <1>3, <1>4, <1>7 DEF LogInv

\* Every step keeps the strengthening.
LEMMA LogInvStep == LogInv /\ [Next]_vars => LogInv'
  BY StepInv, PlacesStep, ErrorsStep, ReportedStep, LogMatchesStep DEF LogInv

\* Every reachable state satisfies the strengthening.
THEOREM LogInvariance == Spec => []LogInv
<1> QED
  BY LogInvInit, LogInvStep, PTL DEF Spec

\* Each funded key that was tested to the end has its line in the log, one for
\* each time it was drawn, and nothing else is in the log.
THEOREM LogIsExact == Spec => []LogMatchesTests
<1>1. LogInv => LogMatchesTests
  BY DEF LogInv
<1> QED
  BY <1>1, LogInvariance, PTL

\* Every worker that failed is in the error log once when the search reports.
THEOREM ErrorLogIsComplete == Spec => []FailuresLogged
<1>1. LogInv => FailuresLogged
  <2> SUFFICES ASSUME LogInv PROVE FailuresLogged
    OBVIOUS
  <2>1. pc[Main] = "end" => errored = failed
    BY DEF LogInv, Errors, IInv, Inv, Endings, TypeOK, EventTypes
  <2> QED
    BY <2>1 DEF LogInv, Errors, Injective, Elements, FailuresLogged
<1> QED
  BY <1>1, LogInvariance, PTL

\* The search, with its threads, ports and passes, implements the contract.
THEOREM ContractImplemented == Spec => ImplementsContract
<1>1. LogInv /\ [Next]_vars => [Contract!Next]_Contract!contract
  BY ContractStep DEF LogInv
<1> QED
  BY <1>1, ContractInit, LogInvariance, PTL DEF Spec, ImplementsContract, Contract!Spec
============================================================================
