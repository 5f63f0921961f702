----------------------------- MODULE MCAccounts -----------------------------
EXTENDS Accounts, TLC

AccountSymmetry ==
    Permutations(Request) \cup Permutations(Mailbox) \cup Permutations(Password)
=============================================================================
