----------------------------- MODULE MCLifecycle -----------------------------
(* The instances of Lifecycle that TLC checks. *)
EXTENDS Lifecycle

CONSTANTS s1, s2, c1

\* Two servers; the peers call on the first.
MCPlaces    == {<<s1, c1>>}
MCPrograms  == AllPrograms
MCLogin     == {LoginProgram}

=============================================================================
