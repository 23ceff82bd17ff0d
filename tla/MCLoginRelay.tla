---------------------------- MODULE MCLoginRelay ----------------------------
(* Model values and symmetry for the runs of LoginRelay. *)
EXTENDS LoginRelay, TLC

Symmetry ==
    Permutations(Clients) \cup Permutations(Relays) \cup Permutations(Keys)
        \cup Permutations(Passwords) \cup Permutations(Accounts \ Banned)
=============================================================================
