----------------------------- MODULE MCSettings -----------------------------
(***************************************************************************)
(* Settings for TLC: two requests at a time, two copies of the app.        *)
(***************************************************************************)
EXTENDS Settings, TLC

CONSTANTS h1, h2, s1, s2

Symmetric == Permutations({h1, h2}) \cup Permutations({s1, s2})
=============================================================================
