----------------------------- MODULE CreditAccount -----------------------------
(***************************************************************************)
(* What the head office is promised about a platform's credit: an account  *)
(* with a limit.  A bet event takes from the account or gives back to it,  *)
(* never below zero, never above the limit, and each event at most once;   *)
(* the limit moves only together with the balance, by the same amount.     *)
(***************************************************************************)
EXTENDS Integers

CONSTANT EventKey

VARIABLES balance, limit, applied

vars == <<balance, limit, applied>>

Init == balance = 0 /\ limit = 0 /\ applied = {}

\* The events in keys take effect together, for the first and last time.
Apply(keys) ==
    /\ keys # {}
    /\ keys \cap applied = {}
    /\ balance' \in 0..limit
    /\ applied' = applied \cup keys
    /\ UNCHANGED limit

\* Credit granted or taken back: balance and limit move by the same amount.
MoveLimit ==
    /\ balance' >= 0
    /\ limit' - limit = balance' - balance
    /\ UNCHANGED applied

Next == MoveLimit \/ \E keys \in SUBSET EventKey : Apply(keys)

Spec == Init /\ [][Next]_vars

=============================================================================
