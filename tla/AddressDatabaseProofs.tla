----------------------- MODULE AddressDatabaseProofs -----------------------
(***************************************************************************)
(* Proofs about AddressDatabase, for any lists and any number of runs.     *)
(***************************************************************************)
EXTENDS AddressDatabase, TLAPS

\* Between runs nothing is under way, and the reader stops at the end of the
\* list.
RunOrder ==
    /\ pc \in {"open", "exited", "crashed"} => queued = {} /\ stored = {} /\ refused = {}
    /\ pc = "open" => next = 1
    /\ pc = "drain" => next = Len(list) + 1

Inv == TypeOK /\ RunOrder /\ NoLineLost /\ ExitMeansLoaded

LEMMA ListFacts ==
    ASSUME NEW l \in Lists
    PROVE  /\ Len(l) \in Nat /\ DOMAIN l = 1..Len(l)
           /\ \A i \in 1..Len(l) : l[i] \in Addresses
  BY DatabaseAssumption

LEMMA CrashInv ==
    ASSUME Inv, Crash, promise' \in {"pending", "resolved", "rejected"}
    PROVE  Inv'
<1>1. \A some \in SUBSET queued : {list[i] : i \in some} \subseteq Addresses
  <2>1. queued \subseteq 1..Len(list)
    BY ListFacts DEF Inv, TypeOK
  <2> QED
    BY <2>1, ListFacts DEF Inv, TypeOK
<1>2. TypeOK'
  BY <1>1 DEF Inv, TypeOK, Crash
<1> QED
  BY <1>2 DEF Crash, Inv, RunOrder, NoLineLost, ExitMeansLoaded

LEMMA OpenInv ==
    ASSUME Inv, Open
    PROVE  Inv'
<1>1. CASE Crash /\ promise' = "rejected"
  BY <1>1, CrashInv
<1>2. CASE pc = "open" /\ pc' = "read" /\ UNCHANGED <<run, list, loadVars, promise, db>>
  BY <1>2 DEF Inv, TypeOK, RunOrder, NoLineLost, ExitMeansLoaded, loadVars
<1> QED
  BY <1>1, <1>2 DEF Open

\* A line read is queued, or refused at once.
LEMMA OnLineInv ==
    ASSUME Inv, OnLine
    PROVE  Inv'
<1>1. next \in 1..Len(list) /\ Len(list) \in Nat
  BY ListFacts DEF Inv, TypeOK, OnLine
<1>2. next \in queued' \/ next \in refused'
  BY DEF OnLine
<1>3. queued \subseteq queued' /\ refused \subseteq refused'
  BY DEF OnLine
<1>4. TypeOK'
  <2>1. next' = next + 1 /\ UNCHANGED <<pc, run, list, stored, promise, db>>
    BY DEF OnLine
  <2>2. queued' \subseteq queued \cup {next} /\ refused' \subseteq refused \cup {next}
    BY DEF OnLine
  <2> QED
    BY <1>1, <2>1, <2>2 DEF Inv, TypeOK
<1>5. NoLineLost'
  BY <1>1, <1>2, <1>3 DEF OnLine, Inv, NoLineLost
<1> QED
  BY <1>4, <1>5 DEF OnLine, Inv, RunOrder, ExitMeansLoaded

LEMMA OnCloseInv ==
    ASSUME Inv, OnClose
    PROVE  Inv'
<1>1. next = Len(list) + 1
  BY ListFacts DEF OnClose, Inv, TypeOK
<1> QED
  BY <1>1 DEF OnClose, loadVars, Inv, TypeOK, RunOrder, NoLineLost, ExitMeansLoaded

\* A put that runs takes its line from the queue into the database, or to the
\* refusals.
LEMMA PutRunsInv ==
    ASSUME Inv, NEW i \in queued, PutRuns(i)
    PROVE  Inv'
<1>1. i \in 1..(next - 1) /\ list[i] \in Addresses
  <2>1. i \in 1..Len(list)
    BY ListFacts DEF Inv, TypeOK
  <2> QED
    BY <2>1, ListFacts DEF Inv, TypeOK
<1>2. TypeOK'
  BY <1>1 DEF PutRuns, Inv, TypeOK
<1>3. NoLineLost'
  BY DEF PutRuns, Inv, NoLineLost
<1> QED
  BY <1>2, <1>3 DEF PutRuns, Inv, RunOrder, ExitMeansLoaded

LEMMA PutResolvesInv ==
    ASSUME Inv, NEW i \in stored, PutResolves(i)
    PROVE  Inv'
  BY DEF PutResolves, Inv, TypeOK, RunOrder, NoLineLost, ExitMeansLoaded

\* A run exits when nothing is queued or refused, so every line is stored.
LEMMA ExitInv ==
    ASSUME Inv, Exit
    PROVE  Inv'
<1>1. \A i \in 1..Len(list) : list[i] \in db
  BY ListFacts DEF Exit, Inv, TypeOK, RunOrder, NoLineLost
<1>2. ListedIn(list) \subseteq db
  BY <1>1, ListFacts DEF ListedIn, Inv, TypeOK
<1> QED
  BY <1>2 DEF Exit, loadVars, Inv, TypeOK, RunOrder, NoLineLost, ExitMeansLoaded

LEMMA RunAgainInv ==
    ASSUME Inv, RunAgain
    PROVE  Inv'
<1>1. next' \in 1..(Len(list') + 1)
  BY ListFacts DEF RunAgain
<1>2. run' \in 1..MaxRuns
  BY DatabaseAssumption DEF RunAgain, Inv, TypeOK
<1> QED
  BY <1>1, <1>2 DEF RunAgain, Inv, TypeOK, RunOrder, NoLineLost, ExitMeansLoaded

LEMMA InitInv == Init => Inv
<1> SUFFICES ASSUME Init PROVE Inv
  OBVIOUS
<1>1. next \in 1..(Len(list) + 1) /\ run \in 1..MaxRuns
  BY ListFacts, DatabaseAssumption DEF Init
<1> QED
  BY <1>1 DEF Init, Inv, TypeOK, RunOrder, NoLineLost, ExitMeansLoaded

LEMMA StepInv == Inv /\ [Next]_vars => Inv'
<1> SUFFICES ASSUME Inv, [Next]_vars PROVE Inv'
  OBVIOUS
<1>1. CASE UNCHANGED vars
  BY <1>1 DEF vars, loadVars, Inv, TypeOK, RunOrder, NoLineLost, ExitMeansLoaded
<1>2. CASE Load
  <2>1. ASSUME NEW i \in refused, PutRejects(i)
        PROVE  Inv'
    BY <2>1, CrashInv DEF PutRejects, Inv, TypeOK
  <2> QED
    BY <1>2, <2>1, OpenInv, OnLineInv, OnCloseInv, PutRunsInv, PutResolvesInv, ExitInv DEF Load
<1>3. CASE ReadFails
  BY <1>3, CrashInv DEF ReadFails, Inv, TypeOK
<1> QED
  BY <1>1, <1>2, <1>3, RunAgainInv DEF Next, Stays

\* Every reachable state satisfies the invariant.
THEOREM Invariance == Spec => []Inv
<1> QED
  BY InitInv, StepInv, PTL DEF Spec

\* The variables of the load keep their types, whatever crashes and reruns.
THEOREM TypeCorrect == Spec => []TypeOK
<1>1. Inv => TypeOK
  BY DEF Inv
<1> QED
  BY <1>1, Invariance, PTL

\* No line is dropped between the reader, the thread pool and the callbacks.
THEOREM NothingDropped == Spec => []NoLineLost
<1>1. Inv => NoLineLost
  BY DEF Inv
<1> QED
  BY <1>1, Invariance, PTL

\* A run of app_database.js that exits has loaded its whole list.
THEOREM ExitLoads == Spec => []ExitMeansLoaded
<1>1. Inv => ExitMeansLoaded
  BY DEF Inv
<1> QED
  BY <1>1, Invariance, PTL
============================================================================
