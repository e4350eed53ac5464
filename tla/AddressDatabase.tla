-------------------------- MODULE AddressDatabase --------------------------
(***************************************************************************)
(* app_database.js: RocksDB.createFromFile loads a list of addresses, one  *)
(* a line, into the database.  Each line event starts a put that nobody    *)
(* waits for; the puts run on the thread pool of libuv, in any order,      *)
(* while more lines are read, and their callbacks come back to the event   *)
(* loop later.  The program can be run again, on the list as it is then,   *)
(* whether the run before ended or crashed.                                *)
(***************************************************************************)
EXTENDS Integers, Sequences, FiniteSets

CONSTANTS
    Addresses,  \* what a line can hold, Empty among them
    Empty,      \* the empty line
    Lists,      \* the lists that can be downloaded: sequences of lines
    MaxRuns     \* how often the program is run at most

ASSUME DatabaseAssumption ==
    /\ Lists \subseteq Seq(Addresses)
    /\ MaxRuns \in Nat \ {0}

VARIABLES
    pc,        \* "open", "read", "drain", or how the run ended: "exited", "crashed"
    run,       \* the number of the run
    list,      \* the file at addressPath
    next,      \* the line the reader delivers next
    queued,    \* the lines whose put the thread pool has not run
    stored,    \* those whose put succeeded, before the callback
    refused,   \* those whose put failed, before the callback
    promise,   \* the promise of createFromFile
    db         \* the keys in the database

loadVars == <<next, queued, stored, refused>>
vars == <<pc, run, list, loadVars, promise, db>>

ListedIn(l) == {l[i] : i \in DOMAIN l}

Init ==
    /\ pc = "open" /\ run = 1
    /\ list \in Lists
    /\ next = 1 /\ queued = {} /\ stored = {} /\ refused = {}
    /\ promise = "pending"
    /\ db = {}

\* The process dies: of the puts that the thread pool has not run, some run
\* still.  What was written stays, and the open files are closed.
Crash ==
    /\ pc' = "crashed"
    /\ \E some \in SUBSET queued : db' = db \cup {list[i] : i \in some}
    /\ queued' = {} /\ stored' = {} /\ refused' = {}
    /\ UNCHANGED <<run, list, next>>

\* createFromFile rejects if the database cannot be opened, and the caller
\* does not catch the rejection.
Open ==
    /\ pc = "open"
    /\ \/ pc' = "read" /\ UNCHANGED <<run, list, loadVars, promise, db>>
       \/ Crash /\ promise' = "rejected"

\* Mutant: an empty line is skipped without leaving it behind.
OnLineStuck ==
    /\ pc = "read" /\ next <= Len(list)
    /\ queued' = IF list[next] = Empty THEN queued ELSE queued \cup {next}
    /\ next' = IF list[next] = Empty THEN next ELSE next + 1
    /\ UNCHANGED <<pc, run, list, stored, refused, promise, db>>

\* The handler of "line" calls put.  An empty key is refused without the
\* thread pool.
OnLine ==
    /\ pc = "read" /\ next <= Len(list)
    /\ queued'  = IF list[next] = Empty THEN queued ELSE queued \cup {next}
    /\ refused' = IF list[next] = Empty THEN refused \cup {next} ELSE refused
    /\ next' = next + 1
    /\ UNCHANGED <<pc, run, list, stored, promise, db>>

\* The handler of "close" resolves the promise.
OnClose ==
    /\ pc = "read" /\ next > Len(list)
    /\ pc' = "drain" /\ promise' = "resolved"
    /\ UNCHANGED <<run, list, loadVars, db>>

\* The "error" event of the stream has no handler.
ReadFails ==
    /\ pc = "read"
    /\ Crash /\ UNCHANGED promise

PutRuns(i) ==
    /\ pc \in {"read", "drain"} /\ i \in queued
    /\ queued' = queued \ {i}
    /\ \/ /\ stored' = stored \cup {i}
          /\ db' = db \cup {list[i]}
          /\ UNCHANGED refused
       \/ /\ refused' = refused \cup {i}
          /\ UNCHANGED <<stored, db>>
    /\ UNCHANGED <<pc, run, list, next, promise>>

PutResolves(i) ==
    /\ pc \in {"read", "drain"} /\ i \in stored
    /\ stored' = stored \ {i}
    /\ UNCHANGED <<pc, run, list, next, queued, refused, promise, db>>

\* Mutant: a put that fails is swallowed, as get and getMany do.
PutSwallowed(i) ==
    /\ pc \in {"read", "drain"} /\ i \in refused
    /\ refused' = refused \ {i}
    /\ UNCHANGED <<pc, run, list, next, queued, stored, promise, db>>

\* The async handler of "line" rejects and nobody handles it.
PutRejects(i) ==
    /\ pc \in {"read", "drain"} /\ i \in refused
    /\ Crash /\ UNCHANGED promise

\* The process ends of itself when nothing is pending any more.
Exit ==
    /\ pc = "drain" /\ queued = {} /\ stored = {} /\ refused = {}
    /\ pc' = "exited"
    /\ UNCHANGED <<run, list, loadVars, promise, db>>

\* Mutant: the next run resumes after the last line read.
RunAgainResumes ==
    /\ pc \in {"exited", "crashed"} /\ run < MaxRuns
    /\ pc' = "open" /\ run' = run + 1
    /\ list' \in Lists
    /\ promise' = "pending"
    /\ UNCHANGED <<loadVars, db>>

\* The user runs the program again, perhaps with a newer list.  open() takes
\* the database that is there.
RunAgain ==
    /\ pc \in {"exited", "crashed"} /\ run < MaxRuns
    /\ pc' = "open" /\ run' = run + 1
    /\ list' \in Lists
    /\ next' = 1
    /\ promise' = "pending"
    /\ UNCHANGED <<queued, stored, refused, db>>

Stays ==
    /\ pc \in {"exited", "crashed"} /\ run = MaxRuns
    /\ UNCHANGED vars

Load ==
    \/ Open \/ OnLine \/ OnClose
    \/ \E i \in queued : PutRuns(i)
    \/ \E i \in stored : PutResolves(i)
    \/ \E i \in refused : PutRejects(i)
    \/ Exit

Next == Load \/ ReadFails \/ RunAgain \/ Stays

Spec == Init /\ [][Next]_vars

\* The event loop and the thread pool keep working.
FairSpec == Spec /\ WF_vars(Load)

-----------------------------------------------------------------------------
(* Properties.                                                             *)

TypeOK ==
    /\ pc \in {"open", "read", "drain", "exited", "crashed"}
    /\ run \in 1..MaxRuns
    /\ list \in Lists
    /\ next \in 1..(Len(list) + 1)
    /\ queued \subseteq 1..(next - 1)
    /\ stored \subseteq 1..(next - 1)
    /\ refused \subseteq 1..(next - 1)
    /\ promise \in {"pending", "resolved", "rejected"}
    /\ db \subseteq Addresses

\* While a run lasts, every line read is in the database, waits for the thread
\* pool, or has a refusal on its way that will end the run: no line is dropped
\* between the reader, the pool and the callbacks.
NoLineLost ==
    pc \in {"read", "drain"} =>
        \A i \in 1..(next - 1) : list[i] \in db \/ i \in queued \/ i \in refused

\* A run that ends of itself, without a crash, leaves every line of its list
\* in the database, though no put is awaited and earlier runs may have crashed
\* half-way on another list: the process outlives its pending puts, and a put
\* that fails ends it (RocksDB.js: the handlers of "line" and "close").
ExitMeansLoaded == pc = "exited" => ListedIn(list) \subseteq db

\* Every run ends: it exits or it crashes.
EachRunEnds == [](pc = "open" => <>(pc \in {"exited", "crashed"}))

\* The comment of app_database.js on its only statement is "Create the
\* database": when the promise it awaits is resolved, the addresses are there.
ResolvedMeansLoaded == promise = "resolved" => ListedIn(list) \subseteq db
============================================================================
