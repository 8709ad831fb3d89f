----------------------------- MODULE MCAccounts -----------------------------
(* An instance of Accounts for TLC.                                         *)
EXTENDS Accounts, TLC

\* Calls, accounts and emails are interchangeable.
AccountSymmetry == Permutations(Calls) \cup Permutations(Users) \cup Permutations(Emails)
=============================================================================
