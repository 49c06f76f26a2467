--------------------------- MODULE OrderLifecycle ---------------------------
(***************************************************************************)
(* What core.subscriptions promises, whatever handlers, webhooks and       *)
(* crashes do to it: a row moves along its life cycle only, it is turned   *)
(* into a plan at most once, and an order never is before its payment was  *)
(* captured (docstrings of activate_subscription and revoke_subscription). *)
(***************************************************************************)
CONSTANTS
    Rows,       \* subscription rows
    Purchased   \* the rows that are orders: they have to be paid

VARIABLES
    status,     \* status of each row, "none" while it does not exist
    paid,       \* orders whose payment the gateway has captured
    given       \* rows that were turned into a plan

vars == <<status, paid, given>>

Ends == {"expired", "refunded", "disputed", "revoked"}

(* Where a row may go from each status. *)
Successors ==
    [none      |-> {"pending", "active"},
     pending   |-> {"active", "refunded", "disputed"},
     failed    |-> {"active", "refunded", "disputed"},
     active    |-> {"cancelled"} \cup Ends,
     cancelled |-> Ends,
     expired   |-> {}, refunded |-> {}, disputed |-> {}, revoked |-> {}]

Init ==
    /\ status \in [Rows -> {"none", "pending", "failed"}]
    /\ paid = {}
    /\ given = {}

Activates(r) == status'[r] = "active" /\ status[r] # "active"

(* Rows move, several at once when one statement covers them. *)
Move ==
    /\ \A r \in Rows : status'[r] # status[r] => status'[r] \in Successors[status[r]]
    /\ \A r \in Rows : Activates(r) => /\ r \notin given
                                       /\ r \in Purchased => r \in paid /\ status[r] # "none"
    /\ given' = given \cup {r \in Rows : Activates(r)}
    /\ paid' = paid

Capture == \E r \in Purchased : paid' = paid \cup {r} /\ UNCHANGED <<status, given>>

Next == Move \/ Capture

Spec == Init /\ [][Next]_vars
=============================================================================
