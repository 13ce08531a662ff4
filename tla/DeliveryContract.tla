-------------------------- MODULE DeliveryContract --------------------------
(***************************************************************************)
(* What the durable delivery of observations promises, with no worker, no  *)
(* lease, no clock and no transaction in sight.  An outbox row is opened   *)
(* once, is attempted in batches, and ends either delivered or given up;   *)
(* only an operator opens a given-up row again.  InfluxDB stores the cell  *)
(* of a row (its point and typed field) at some moment after an attempt,   *)
(* possibly long after the row was settled.                                *)
(***************************************************************************)
EXTENDS Naturals

CONSTANTS
    Rows,       \* the observation_outbox rows that may ever exist
    CellOf(_)   \* the InfluxDB cell a row is written to

VARIABLES
    status,     \* the observable status of each row
    tries,      \* how many times the row was handed to a worker
    stored      \* the InfluxDB cells that hold a value

vars == <<status, tries, stored>>

Cells == {CellOf(r) : r \in Rows}

Status == {"absent", "open", "delivered", "dead_letter"}

TypeOK ==
    /\ status \in [Rows -> Status]
    /\ tries \in [Rows -> Nat]
    /\ stored \subseteq Cells

Init ==
    /\ status = [r \in Rows |-> "absent"]
    /\ tries = [r \in Rows |-> 0]
    /\ stored = {}

\* A row is inserted once.
Enqueue(r) ==
    /\ status[r] = "absent"
    /\ status' = [status EXCEPT ![r] = "open"]
    /\ UNCHANGED <<tries, stored>>

\* A batch of open rows is handed to a worker.
Attempt(batch) ==
    /\ \A r \in batch : status[r] = "open"
    /\ tries' = [r \in Rows |-> IF r \in batch THEN tries[r] + 1 ELSE tries[r]]
    /\ UNCHANGED <<status, stored>>

\* InfluxDB stores a row that was attempted before, however long ago.
Store(r) ==
    /\ tries[r] > 0
    /\ stored' = stored \cup {CellOf(r)}
    /\ UNCHANGED <<status, tries>>

\* A row is reported delivered only when its cell is in InfluxDB.
Deliver(r) ==
    /\ status[r] = "open"
    /\ CellOf(r) \in stored
    /\ status' = [status EXCEPT ![r] = "delivered"]
    /\ UNCHANGED <<tries, stored>>

\* A row that was attempted is given up.
GiveUp(r) ==
    /\ status[r] = "open"
    /\ tries[r] > 0
    /\ status' = [status EXCEPT ![r] = "dead_letter"]
    /\ UNCHANGED <<tries, stored>>

\* An operator opens given-up rows again; their tries keep counting.
Replay(batch) ==
    /\ \A r \in batch : status[r] = "dead_letter"
    /\ status' = [r \in Rows |-> IF r \in batch THEN "open" ELSE status[r]]
    /\ UNCHANGED <<tries, stored>>

Next ==
    \/ \E r \in Rows : Enqueue(r) \/ Store(r) \/ Deliver(r) \/ GiveUp(r)
    \/ \E batch \in SUBSET Rows : Attempt(batch) \/ Replay(batch)

Spec == Init /\ [][Next]_vars
=============================================================================
