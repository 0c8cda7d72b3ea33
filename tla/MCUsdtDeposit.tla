---------------------------- MODULE MCUsdtDeposit ----------------------------
(* Instances of UsdtDeposit for TLC. *)
EXTENDS UsdtDeposit, TLC

\* Polls are interchangeable, and so are transfers; for safety alone.
Symmetry == Permutations(Poller) \cup Permutations(Transfer)

=============================================================================
