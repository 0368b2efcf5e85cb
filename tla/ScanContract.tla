---------------------------- MODULE ScanContract ----------------------------
(***************************************************************************)
(* What paging through a list promises its client, whatever the table does *)
(* meanwhile (docs/SEARCH.md, "Pagination"): rows that stay in scope and   *)
(* in place from the start of the walk are delivered exactly once, and all *)
(* of them before the walk ends.                                           *)
(***************************************************************************)
CONSTANT Id            \* the ids rows can have

VARIABLES
  steady,    \* ids of the rows that have stayed in scope and in place
  received,  \* ids delivered so far
  over       \* TRUE once the last page has been delivered

Init ==
  /\ steady \in SUBSET Id
  /\ received = {}
  /\ over = FALSE

\* A row changes, disappears or is denied: no promise about it any more.
Forget ==
  /\ steady' \subseteq steady
  /\ UNCHANGED <<received, over>>

\* A page arrives.  It repeats no steady row, and when it is the last one it
\* leaves no steady row out.
Deliver ==
  /\ over = FALSE
  /\ \E page \in SUBSET Id :
       /\ page \intersect received \intersect steady = {}
       /\ received' = received \union page
  /\ over' \in BOOLEAN
  /\ over' => steady \subseteq received'
  /\ UNCHANGED steady

\* After an error the client begins again.
Restart ==
  /\ over = FALSE
  /\ received' = {}
  /\ steady' \in SUBSET Id
  /\ UNCHANGED over

Next == Forget \/ Deliver \/ Restart

Spec == Init /\ [][Next]_<<steady, received, over>>

=============================================================================
