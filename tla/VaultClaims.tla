---------------------------- MODULE VaultClaims ----------------------------
(***************************************************************************)
(* What a doc, a comment or a test of the repository says of the vault and *)
(* the program does not keep.  Each claim is the property of a run that    *)
(* TLC refutes with a shortest history of transactions.                    *)
(***************************************************************************)
EXTENDS Vault

\* The auto-pull loop of withdraw takes min(balance, shortfall) per strategy
\* "until the gap is closed" and gives up when the list does not cover it
\* (comment in withdraw.rs).  So while every strategy holds at least what it is
\* booked at, some order of the list serves any redemption.  Yield that is not
\* reported yet breaks it: the pull is then larger than the book value it is
\* subtracted from.
AutoPullCovers ==
  (\A s \in Strategies : ata[s] >= allocated[s]) =>
    \A u \in Users : \A n \in 1..shares[u] :
      LET owed == UnderlyingFor(n, supply, totalDeposited)
      IN  \E pull \in [Strategies -> 0..Shortfall(owed)] : AutoPull(owed, pull)

\* "paused => withdraw still succeeds (users can always exit)"
\* (docs/TEST_PLAN.md), at least for what the reserve alone can pay.
ExitsStayOpen ==
  paused =>
    \A u \in Users : \A n \in 1..shares[u] :
      UnderlyingFor(n, supply, totalDeposited) \in 1..reserve
        => ENABLED Withdraw(u, n, Nothing)
=============================================================================
