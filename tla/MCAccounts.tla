----------------------------- MODULE MCAccounts -----------------------------
EXTENDS Accounts, TLC

\* Accounts, companies, orders and representatives are interchangeable.
Symmetry == Permutations(Customers) \cup Permutations(Companies)
              \cup Permutations(Orders) \cup Permutations(Reps)
=============================================================================
