----------------------------- MODULE MCAccounts -----------------------------
(***************************************************************************)
(* Two accounts and two invites at a time, alike before they are used.     *)
(***************************************************************************)
EXTENDS Accounts, TLC

AccountSymmetry ==
    Permutations(Users) \cup Permutations(Invites) \cup Permutations(PlexAccounts)
          \cup Permutations(Calls)
=============================================================================
