----------------------------- MODULE KeySearch -----------------------------
(***************************************************************************)
(* The search program: the main thread of app_search.js, the worker        *)
(* threads that run worker_task.js, the native multiplication table all of *)
(* them share (the C++ global bmul of the addon), and the two log files of *)
(* util/log_util.js.                                                       *)
(*                                                                         *)
(* A thread runs JavaScript without interruption from one await (or one    *)
(* native call) to the next, but the threads run in parallel, so a step is *)
(* what one thread does between two accesses to what it shares with the    *)
(* others: the table, the log files and the ports that carry a worker's    *)
(* messages to the main thread.                                            *)
(***************************************************************************)
EXTENDS Integers, Sequences, FiniteSets

CONSTANTS
    Workers,      \* the worker threads, NUM_WORKERS of them
    Main,         \* the main thread
    NumBatches,   \* NUM_BATCHES_PER_WORKER
    BatchSize,    \* BATCH_SIZE
    Keys,         \* the private keys that createPrivateKey can draw
    Addresses,    \* the address strings
    AddressesOf,  \* what getAddressArray derives from one private key
    Funded        \* the keys of the address database

ASSUME SearchAssumption ==
    /\ IsFiniteSet(Workers) /\ Main \notin Workers
    /\ NumBatches \in Nat \ {0} /\ BatchSize \in Nat \ {0}
    /\ AddressesOf \in [Keys -> SUBSET Addresses]
    /\ Funded \subseteq Addresses

Threads  == Workers \cup {Main}
LogPaths == <<"folder", "log", "error">>   \* in the order initializeLogs visits them
Batches  == [1..BatchSize -> Keys]

VARIABLES
    pc,            \* where each thread is
    path,          \* position in LogPaths while a thread runs initializeLogs
    present,       \* the log paths that exist on the disk
    log,           \* the lines of logs/log.txt
    errorLog,      \* the workers whose error is in logs/log_error.txt, in order
    bmul,          \* the global pointer: "null" or "table"
    allocated,     \* whether the memory the table lives in is allocated
    using,         \* the pointer a native call of the thread took from bmul
    drawn,         \* the batches each worker has drawn, the current one last
    slot,          \* 0 while the whole batch is tested, else the key tested alone
    posted,        \* the messages the worker has posted
    port,          \* those of them the main thread has not handled yet
    failed,        \* the workers an exception has ended
    errored,       \* those whose "error" event has been handled
    exited,        \* the workers whose "exit" event has been handled
    resolved,      \* the workers whose promise in promiseArray is resolved
    keysProcessed, \* the main thread's counter
    reported       \* its value when the totals are printed, -1 before

logVars    == <<path, present, log, errorLog>>
tableVars  == <<bmul, allocated, using>>
workerVars == <<drawn, slot, posted>>
eventVars  == <<port, failed, errored, exited, resolved, keysProcessed, reported>>
vars == <<pc, logVars, tableVars, workerVars, eventVars>>

Goto(t, label) == pc' = [pc EXCEPT ![t] = label]

-----------------------------------------------------------------------------
(* The state when app_search.js starts.  The log files are there from an   *)
(* earlier search, or they are not.                                        *)

InitAt(label) ==
    /\ pc = [t \in Threads |-> IF t = Main THEN label ELSE "unborn"]
    /\ path = [t \in Threads |-> 1]
    /\ present \in {{}, {"folder", "log", "error"}}
    /\ log = <<>> /\ errorLog = <<>>
    /\ bmul = "null" /\ allocated = FALSE
    /\ using = [w \in Workers |-> "null"]
    /\ drawn = [w \in Workers |-> <<>>]
    /\ slot = [w \in Workers |-> 0]
    /\ posted = [w \in Workers |-> 0]
    /\ port = [w \in Workers |-> 0]
    /\ failed = {} /\ errored = {} /\ exited = {} /\ resolved = {}
    /\ keysProcessed = 0
    /\ reported = -1

\* Mutant: app_search.js does not require log_util.js before it starts workers.
InitWithoutLogs == InitAt("init")

Init == InitAt("check")

-----------------------------------------------------------------------------
(* initializeLogs runs in every thread that requires log_util.js: for each *)
(* path it asks whether the path exists and, if not, creates it.           *)

AfterLogs(t) == IF t = Main THEN "init" ELSE "open"

NextPath(t) ==
    /\ path' = [path EXCEPT ![t] = IF @ < Len(LogPaths) THEN @ + 1 ELSE @]
    /\ Goto(t, IF path[t] < Len(LogPaths) THEN "check" ELSE AfterLogs(t))

CheckPath(t) ==
    /\ pc[t] = "check"
    /\ IF LogPaths[path[t]] \in present
       THEN NextPath(t)
       ELSE Goto(t, "create") /\ UNCHANGED path
    /\ UNCHANGED <<present, log, errorLog, tableVars, workerVars, eventVars>>

\* An exception nobody catches ends the thread, and that of the main thread
\* the process: the workers may take some more steps until they are stopped.
Fail(t) ==
    /\ Goto(t, "failed")
    /\ failed' = failed \cup ({t} \cap Workers)
    /\ UNCHANGED <<logVars, tableVars, workerVars,
                   port, errored, exited, resolved, keysProcessed, reported>>

\* If the path appeared since it was looked for, mkdirSync throws and
\* writeFileSync truncates.  Either may also throw for the disk's reasons.
CreatePath(t) ==
    /\ pc[t] = "create"
    /\ LET p == LogPaths[path[t]] IN
         \/ Fail(t)
         \/ /\ ~(p = "folder" /\ p \in present)
            /\ present' = present \cup {p}
            /\ log' = IF p = "log" THEN <<>> ELSE log
            /\ errorLog' = IF p = "error" THEN <<>> ELSE errorLog
            /\ NextPath(t)
            /\ UNCHANGED <<tableVars, workerVars, eventVars>>

InitializeLogs(t) == CheckPath(t) \/ CreatePath(t)

-----------------------------------------------------------------------------
(* The main thread: init, processKeys and finish.                          *)

PublicKeyCreateInit ==
    /\ pc[Main] = "init"
    /\ bmul' = "table" /\ allocated' = TRUE
    /\ Goto(Main, "spawn")
    /\ UNCHANGED <<logVars, using, workerVars, eventVars>>

\* One turn of the loop of processKeys: the thread of w starts at once.  If
\* new Worker throws, the promise of the async function around it is rejected
\* and nobody handles that.
StartWorker(w) ==
    /\ pc[Main] = "spawn" /\ pc[w] = "unborn"
    /\ \/ /\ pc' = [pc EXCEPT ![w] = "check",
                              ![Main] = IF \A v \in Workers \ {w} : pc[v] # "unborn"
                                        THEN "await" ELSE "spawn"]
          /\ UNCHANGED <<logVars, tableVars, workerVars, eventVars>>
       \/ Fail(Main)

\* Events are handled while the main thread waits, and again once it has
\* printed its totals.  Between the last resolve() and finish() only
\* microtasks run.
EventLoopRuns ==
    \/ pc[Main] = "await" /\ resolved # Workers
    \/ pc[Main] = "end"

OnMessage(w) ==
    /\ EventLoopRuns /\ port[w] > 0
    /\ port' = [port EXCEPT ![w] = @ - 1]
    /\ keysProcessed' = keysProcessed + BatchSize
    /\ UNCHANGED <<pc, logVars, tableVars, workerVars,
                   failed, errored, exited, resolved, reported>>

\* The error is logged, then the promise resolved.  If logError throws, the
\* main thread dies of it before it resolves.
OnError(w) ==
    /\ EventLoopRuns /\ w \in failed \ errored
    /\ \/ /\ errorLog' = Append(errorLog, w)
          /\ errored' = errored \cup {w}
          /\ resolved' = resolved \cup {w}
          /\ UNCHANGED <<pc, path, present, log, tableVars, workerVars,
                         port, failed, exited, keysProcessed, reported>>
       \/ Fail(Main)

\* Mutants of the "exit" handler: it logs an error that the "error" handler has
\* logged, it does not resolve.
OnExitLogsAgain(w) ==
    /\ EventLoopRuns /\ pc[w] = "stopped" /\ w \notin exited
    /\ keysProcessed' = keysProcessed + BatchSize * port[w]
    /\ port' = [port EXCEPT ![w] = 0]
    /\ errorLog' = IF w \in failed THEN Append(errorLog, w) ELSE errorLog
    /\ errored' = IF w \in failed THEN errored \cup {w} ELSE errored
    /\ exited' = exited \cup {w}
    /\ resolved' = resolved \cup {w}
    /\ UNCHANGED <<pc, path, present, log, tableVars, workerVars, failed, reported>>

OnExitUnresolved(w) ==
    /\ EventLoopRuns /\ pc[w] = "stopped" /\ w \notin exited
    /\ keysProcessed' = keysProcessed + BatchSize * port[w]
    /\ port' = [port EXCEPT ![w] = 0]
    /\ exited' = exited \cup {w}
    /\ UNCHANGED <<pc, logVars, tableVars, workerVars, failed, errored, resolved, reported>>

\* Node drains the ports of a stopped worker before it emits "exit", and so
\* handles an error that is still in them.
OnExit(w) ==
    /\ EventLoopRuns /\ pc[w] = "stopped" /\ w \notin exited
    /\ \/ /\ keysProcessed' = keysProcessed + BatchSize * port[w]
          /\ port' = [port EXCEPT ![w] = 0]
          /\ errorLog' = IF w \in failed \ errored THEN Append(errorLog, w) ELSE errorLog
          /\ errored' = IF w \in failed THEN errored \cup {w} ELSE errored
          /\ exited' = exited \cup {w}
          /\ resolved' = resolved \cup {w}
          /\ UNCHANGED <<pc, path, present, log, tableVars, workerVars, failed, reported>>
       \/ w \in failed \ errored /\ Fail(Main)

\* Mutant: the promises are raced instead of awaited together.
FinishOnFirst ==
    /\ pc[Main] = "await" /\ resolved # {}
    /\ bmul' = "null" /\ allocated' = FALSE
    /\ reported' = keysProcessed
    /\ Goto(Main, "end")
    /\ UNCHANGED <<logVars, using, workerVars,
                   port, failed, errored, exited, resolved, keysProcessed>>

\* What follows the await of processKeys: finish() and the printed totals.
Finish ==
    /\ pc[Main] = "await" /\ resolved = Workers
    /\ bmul' = "null" /\ allocated' = FALSE
    /\ reported' = keysProcessed
    /\ Goto(Main, "end")
    /\ UNCHANGED <<logVars, using, workerVars,
                   port, failed, errored, exited, resolved, keysProcessed>>

-----------------------------------------------------------------------------
(* A worker thread: foo() of worker_task.js.                               *)

\* Mutant: the loop leaves out the last batch.
LoopHeadShort(i) == IF i < NumBatches - 1 THEN "draw" ELSE "close"

\* The head of the loop over batches.
LoopHead(i) == IF i < NumBatches THEN "draw" ELSE "close"

OpenDatabase(w) ==
    /\ pc[w] = "open"
    /\ \/ /\ Goto(w, LoopHead(0))
          /\ UNCHANGED <<logVars, tableVars, workerVars, eventVars>>
       \/ Fail(w)

\* The first native call of getAddressArray starts and reads the pointer.
EnterNative(w) ==
    /\ Goto(w, "compressed")
    /\ using' = [using EXCEPT ![w] = bmul]
    /\ UNCHANGED <<bmul, allocated>>

CreatePrivateKey(w) ==
    /\ pc[w] = "draw"
    /\ \E b \in Batches : drawn' = [drawn EXCEPT ![w] = Append(@, b)]
    /\ EnterNative(w)
    /\ UNCHANGED <<logVars, slot, posted, eventVars>>

\* _secp256k1c has returned and _secp256k1u reads the pointer again.
CompressedDone(w) ==
    /\ pc[w] = "compressed"
    /\ Goto(w, "uncompressed")
    /\ using' = [using EXCEPT ![w] = bmul]
    /\ UNCHANGED <<logVars, bmul, allocated, workerVars, eventVars>>

\* The addresses are derived and getMany is called.
UncompressedDone(w) ==
    /\ pc[w] = "uncompressed"
    /\ Goto(w, "lookup")
    /\ using' = [using EXCEPT ![w] = "null"]
    /\ UNCHANGED <<logVars, bmul, allocated, workerVars, eventVars>>

Batch(w) == drawn[w][Len(drawn[w])]
KeysAsked(w) ==
    IF slot[w] = 0 THEN {Batch(w)[j] : j \in 1..BatchSize} ELSE {Batch(w)[slot[w]]}
Values(w) == (UNION {AddressesOf[k] : k \in KeysAsked(w)}) \cap Funded
Line(k)   == [key |-> k, addresses |-> AddressesOf[k] \cap Funded]

\* Mutants of the loop over j: one turn too many, and an index that outlives it.
NextSlotPastEnd(w) ==
    IF slot[w] <= BatchSize
    THEN slot' = [slot EXCEPT ![w] = @ + 1] /\ EnterNative(w)
    ELSE slot' = [slot EXCEPT ![w] = 0] /\ Goto(w, "post") /\ UNCHANGED tableVars

NextSlotNoReset(w) ==
    IF slot[w] < BatchSize
    THEN slot' = [slot EXCEPT ![w] = @ + 1] /\ EnterNative(w)
    ELSE Goto(w, "post") /\ UNCHANGED <<slot, tableVars>>

\* The loop over j: on to the next key alone, or out of the loop.
NextSlot(w) ==
    IF slot[w] < BatchSize
    THEN slot' = [slot EXCEPT ![w] = @ + 1] /\ EnterNative(w)
    ELSE slot' = [slot EXCEPT ![w] = 0] /\ Goto(w, "post") /\ UNCHANGED tableVars

\* Mutant: once a batch has a hit, every key of it is logged.
LookupLogsAll(w) ==
    /\ pc[w] = "lookup"
    /\ IF slot[w] = 0
       THEN IF Values(w) = {} THEN Goto(w, "post") /\ UNCHANGED <<slot, tableVars>> ELSE NextSlot(w)
       ELSE Goto(w, "log") /\ UNCHANGED <<slot, tableVars>>
    /\ UNCHANGED <<logVars, drawn, posted, eventVars>>

\* getMany answers.  On a read error RocksDB.getMany resolves to undefined
\* and values.some throws.
LookupAnswers(w) ==
    /\ pc[w] = "lookup"
    /\ \/ /\ \/ /\ slot[w] = 0 /\ Values(w) = {}
                /\ Goto(w, "post") /\ UNCHANGED <<slot, tableVars>>
             \/ /\ slot[w] = 0 /\ Values(w) # {}
                /\ NextSlot(w)
             \/ /\ slot[w] > 0 /\ Values(w) = {}
                /\ NextSlot(w)
             \/ /\ slot[w] > 0 /\ Values(w) # {}
                /\ Goto(w, "log") /\ UNCHANGED <<slot, tableVars>>
          /\ UNCHANGED <<logVars, drawn, posted, eventVars>>
       \/ Fail(w)

\* The key is printed and appended to the log, or the append throws.
LogKey(w) ==
    /\ pc[w] = "log"
    /\ \/ /\ log' = Append(log, Line(Batch(w)[slot[w]]))
          /\ NextSlot(w)
          /\ UNCHANGED <<path, present, errorLog, drawn, posted, eventVars>>
       \/ Fail(w)

PostMessage(w) ==
    /\ pc[w] = "post"
    /\ posted' = [posted EXCEPT ![w] = @ + 1]
    /\ port' = [port EXCEPT ![w] = @ + 1]
    /\ Goto(w, LoopHead(posted[w] + 1))
    /\ UNCHANGED <<logVars, tableVars, drawn, slot,
                   failed, errored, exited, resolved, keysProcessed, reported>>

CloseDatabase(w) ==
    /\ pc[w] = "close"
    /\ \/ /\ Goto(w, "finished")
          /\ UNCHANGED <<logVars, tableVars, workerVars, eventVars>>
       \/ Fail(w)

\* Nothing keeps the thread's event loop alive any more, or it was ended.
ThreadStops(w) ==
    /\ pc[w] \in {"finished", "failed"}
    /\ Goto(w, "stopped")
    /\ UNCHANGED <<logVars, tableVars, workerVars, eventVars>>

-----------------------------------------------------------------------------
MainStep ==
    \/ PublicKeyCreateInit
    \/ \E w \in Workers : StartWorker(w)
    \/ Finish

EventStep(w) == OnMessage(w) \/ OnError(w) \/ OnExit(w)

WorkerStep(w) ==
    \/ OpenDatabase(w)
    \/ CreatePrivateKey(w) \/ CompressedDone(w) \/ UncompressedDone(w)
    \/ LookupAnswers(w) \/ LogKey(w) \/ PostMessage(w)
    \/ CloseDatabase(w)
    \/ ThreadStops(w)

\* The timer of processAllKeys prints the counter while the search runs, and
\* keeps the process alive.
ProgressTimer ==
    /\ pc[Main] = "await"
    /\ UNCHANGED vars

\* The process ends when the last worker has, or the main thread failed.
ProcessEnded ==
    /\ \/ pc[Main] = "end" /\ exited = Workers
       \/ pc[Main] = "failed"
    /\ UNCHANGED vars

Next ==
    \/ \E t \in Threads : InitializeLogs(t)
    \/ MainStep
    \/ \E w \in Workers : WorkerStep(w) \/ EventStep(w)
    \/ ProgressTimer
    \/ ProcessEnded

Spec == Init /\ [][Next]_vars

\* While the main thread lives every thread keeps running, the database
\* answers every call, and the event loop handles every event.
ProcessRuns == pc[Main] # "failed"

Fairness ==
    /\ \A t \in Threads : WF_vars(ProcessRuns /\ InitializeLogs(t))
    /\ WF_vars(MainStep)
    /\ \A w \in Workers : WF_vars(ProcessRuns /\ WorkerStep(w)) /\ WF_vars(EventStep(w))

FairSpec == Spec /\ Fairness

-----------------------------------------------------------------------------
(* Properties.                                                             *)

Labels == {"unborn", "check", "create", "init", "spawn", "await", "end",
           "open", "draw", "compressed", "uncompressed", "lookup", "log",
           "post", "close", "finished", "failed", "stopped"}

Lines == [key : Keys, addresses : SUBSET Addresses]

LogTypes ==
    /\ path \in [Threads -> 1..Len(LogPaths)]
    /\ present \subseteq {"folder", "log", "error"}
    /\ log \in Seq(Lines)
    /\ errorLog \in Seq(Workers)

TableTypes ==
    /\ bmul \in {"null", "table"} /\ allocated \in BOOLEAN
    /\ using \in [Workers -> {"null", "table"}]

WorkerTypes ==
    /\ drawn \in [Workers -> Seq(Batches)]
    /\ slot \in [Workers -> 0..BatchSize]
    /\ posted \in [Workers -> 0..NumBatches]

EventTypes ==
    /\ port \in [Workers -> 0..NumBatches]
    /\ failed \subseteq Workers /\ errored \subseteq Workers
    /\ exited \subseteq Workers /\ resolved \subseteq Workers
    /\ keysProcessed \in Nat
    /\ reported \in Nat \cup {-1}

\* The variables keep their types: no worker posts more batches than it is
\* given or tests a slot outside its batch, and only workers ever fail.
TypeOK ==
    /\ pc \in [Threads -> Labels]
    /\ LogTypes /\ TableTypes /\ WorkerTypes /\ EventTypes

\* A native call that multiplies with the shared table has a table, and it is
\* not freed under it: finish() of the main thread, which destroys bmul, and
\* getAddressArray of the workers run in different threads and share no lock
\* (secp256k1.cc: PublicKeyCreateFinish, PublicKeyCreateFastBatch).
TableSafe ==
    \A w \in Workers : pc[w] \in {"compressed", "uncompressed"} =>
        using[w] = "table" /\ allocated

\* The batches whose message the main thread has handled.
Delivered == {d \in Workers \X (1..NumBatches) : d[2] <= posted[d[1]] - port[d[1]]}

\* keysProcessed is BATCH_SIZE for each message handled, whether the message
\* event or the draining of the port at exit handled it, and the printed total
\* of a search in which no worker failed counts every key of every batch.
ReportComplete ==
    /\ keysProcessed = BatchSize * Cardinality(Delivered)
    /\ pc[Main] = "end" /\ failed = {} =>
           reported = BatchSize * (Cardinality(Workers) * NumBatches)

\* The slots of the batches of w that were tested key by key and done with:
\* those of the batches left behind, and those before the current slot.
SlotsDone(w) ==
    {d \in (1..Len(drawn[w])) \X (1..BatchSize) :
        \/ d[1] <= posted[w]
        \/ pc[w] = "post"
        \/ d[2] < slot[w]}

HitsDone(k) ==
    {h \in UNION {{w} \X SlotsDone(w) : w \in Workers} :
        drawn[h[1]][h[2][1]][h[2][2]] = k /\ AddressesOf[k] \cap Funded # {}}

\* The log holds one line for each funded key that a worker is done with, no
\* line twice and no line lost, with the funded addresses of that key, however
\* the workers interleave and whichever of them fail (worker_task.js: the two
\* passes over a batch; log_util.js: the creation of the files).
LogMatchesTests ==
    \A k \in Keys :
        Cardinality({n \in DOMAIN log : log[n] = Line(k)}) = Cardinality(HitsDone(k))
        /\ \A n \in DOMAIN log : log[n] = Line(log[n].key)

\* When the main thread reports, every worker that failed has its error in
\* log_error.txt, once, though both its "error" and its "exit" event resolve
\* its promise and either may come first.
FailuresLogged ==
    /\ \A m, n \in DOMAIN errorLog : errorLog[m] = errorLog[n] => m = n
    /\ pc[Main] = "end" => {errorLog[n] : n \in DOMAIN errorLog} = failed

\* No step of any thread loses a line already written to the log: the
\* truncation in initializeLogs never meets a log that has lines.
LogNeverLosesLines ==
    [][Len(log') >= Len(log) /\ SubSeq(log', 1, Len(log)) = log]_log

\* Whatever fails in the workers, and whenever, the main thread prints its
\* totals and handles the exit of every worker.  Nothing else ends the search
\* but an exception in the main thread itself (initializeLogs, new Worker, and
\* logError, which the "error" handler calls before it resolves): the process
\* then dies without its totals, and does not wait for ever either.
SearchEnds ==
    <>(\/ pc[Main] = "end" /\ exited = Workers
       \/ pc[Main] = "failed")

\* The search implements its contract: what the log, the counter and the
\* report show outside is a behaviour of SearchContract.
Contract == INSTANCE SearchContract WITH
    found   <- log,
    tested  <- {d \in Workers \X (1..NumBatches) : d[2] <= posted[d[1]]},
    counted <- Delivered,
    running <- {w \in Workers : pc[w] \notin {"finished", "failed", "stopped"}},
    report  <- reported

ImplementsContract == Contract!Spec

\* What README.md promises: a funded key a worker drew is in the log when the
\* worker has stopped.
EveryFundedKeyLogged ==
    \A w \in Workers : pc[w] = "stopped" =>
        \A i \in DOMAIN drawn[w] : \A j \in 1..BatchSize :
            AddressesOf[drawn[w][i][j]] \cap Funded # {} =>
                \E n \in DOMAIN log : log[n] = Line(drawn[w][i][j])
============================================================================
