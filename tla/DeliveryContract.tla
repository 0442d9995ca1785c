--------------------------- MODULE DeliveryContract ---------------------------
(***************************************************************************)
(* What the pod's delivery ledger promises the API's outbox: a row per     *)
(* (entry, attempt) that is never lost once it exists, that is resolved    *)
(* from ledgered only, and whose completing states mean that the harness   *)
(* stores the user's message.  A state that could not be made durable may  *)
(* be forgotten by a restart, which leaves the row ledgered.               *)
(***************************************************************************)
EXTENDS Naturals

CONSTANTS
    Entries,   \* outbox entries
    Attempts   \* attempt numbers

VARIABLES
    row,        \* what GetDeliveryStatus answers for (entry, attempt)
    transcript  \* entries whose user message the harness stores

RowStates == {"none", "ledgered", "done", "failed"}

Moves(s) ==
    CASE s = "none"     -> {"none", "ledgered"}
      [] s = "ledgered" -> {"ledgered", "done", "failed"}
      [] s = "done"     -> {"done", "ledgered"}
      [] s = "failed"   -> {"failed", "ledgered"}

Init ==
    /\ row = [k \in Entries \X Attempts |-> "none"]
    /\ transcript = {}

Next ==
    /\ row' \in [Entries \X Attempts -> RowStates]
    /\ \A k \in Entries \X Attempts :
          /\ row'[k] \in Moves(row[k])
          /\ row'[k] = "done" => k[1] \in transcript'
    /\ transcript \subseteq transcript'
    /\ \A e \in transcript' \ transcript : \E a \in Attempts : row[<<e, a>>] # "none"

Spec == Init /\ [][Next]_<<row, transcript>>
===============================================================================
