----------------------------- MODULE Lifecycle -----------------------------
(***************************************************************************)
(* The promise behind every status column of the platform: each record     *)
(* moves along the edges of its state machine, one edge at a time, however *)
(* many requests run concurrently.  The services decide on a row they read *)
(* earlier and write later; here deciding and writing are one step.        *)
(***************************************************************************)
CONSTANTS
  Rows,          \* identifiers of records
  InitialStatus, \* status a record is created with
  Edges          \* pairs <<from, to>> of the state machine

VARIABLE status  \* status of each record

Init == status = [row \in Rows |-> InitialStatus]

Move(row) ==
  \E edge \in Edges :
    /\ edge[1] = status[row]
    /\ status' = [status EXCEPT ![row] = edge[2]]

Next == \E row \in Rows : Move(row)

Spec == Init /\ [][Next]_status
=============================================================================
