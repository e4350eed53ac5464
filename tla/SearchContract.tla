--------------------------- MODULE SearchContract ---------------------------
(***************************************************************************)
(* What the search promises to whoever runs it, without its threads,       *)
(* ports, tables and passes over a batch: a log of funded keys that only   *)
(* grows while workers run, a count that never runs ahead of the batches   *)
(* tested, and one report, printed when no worker tests any more.          *)
(***************************************************************************)
EXTENDS Integers, Sequences, FiniteSets

CONSTANTS Workers, NumBatches, BatchSize, Keys, AddressesOf, Funded

VARIABLES
    found,    \* the lines of the log
    tested,   \* the batches <<w, i>> tested to the end
    counted,  \* those of them the progress display counts
    running,  \* the workers that have not stopped working
    report    \* the printed number of keys, -1 before

contract == <<found, tested, counted, running, report>>

Hits == {k \in Keys : AddressesOf[k] \cap Funded # {}}

Init ==
    /\ found = <<>> /\ tested = {} /\ counted = {}
    /\ running = Workers
    /\ report = -1

Discover ==
    /\ running # {}
    /\ \E k \in Hits :
         found' = Append(found, [key |-> k, addresses |-> AddressesOf[k] \cap Funded])
    /\ UNCHANGED <<tested, counted, running, report>>

\* Batches of a worker are tested one after the other.
Test(w) ==
    /\ w \in running
    /\ \E i \in 1..NumBatches :
         /\ tested \cap ({w} \X (1..NumBatches)) = {w} \X (1..(i - 1))
         /\ tested' = tested \cup {<<w, i>>}
    /\ UNCHANGED <<found, counted, running, report>>

Count ==
    /\ \E some \in SUBSET (tested \ counted) : counted' = counted \cup some
    /\ UNCHANGED <<found, tested, running, report>>

Stop(w) ==
    /\ w \in running
    /\ running' = running \ {w}
    /\ UNCHANGED <<found, tested, counted, report>>

Report ==
    /\ running = {} /\ report = -1
    /\ report' = BatchSize * Cardinality(counted)
    /\ UNCHANGED <<found, tested, counted, running>>

Next == Discover \/ Count \/ Report \/ \E w \in Workers : Test(w) \/ Stop(w)

Spec == Init /\ [][Next]_contract
=============================================================================
