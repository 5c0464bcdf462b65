----------------------------- MODULE MCDesktop ------------------------------
(***************************************************************************)
(* Desktop for TLC: days with two copies of the launcher and their pages,  *)
(* on which nothing goes wrong, or a server is killed; and days with one,  *)
(* whose page sleeps or is left, and has two heartbeats under way.         *)
(***************************************************************************)
EXTENDS Desktop

CONSTANTS a, b

SomeDays ==
    {[launchers |-> {a, b}, beats |-> 1, mishaps |-> 1, what |-> {"kill"}],
     [launchers |-> {a}, beats |-> 2, mishaps |-> 2, what |-> Mishap]}
=============================================================================
