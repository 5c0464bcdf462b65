---------------------------- MODULE MCLiteFetch ----------------------------
(* Small instances of LiteFetch for TLC. *)
EXTENDS LiteFetch, TLC

CONSTANTS o1, o2, sf1, sf2, sf3, typed1, typed2, typed3, typed2b, blank

\* Two ways to type one number, and one of nothing but spaces.
MCNormal == typed1 :> sf1 @@ typed2 :> sf2 @@ typed2b :> sf2 @@ typed3 :> sf3 @@ blank :> None

At(o, s) == [order |-> o, tracking |-> s]

MCSheets ==
    {<<>>,
     <<At(o1, None), At(None, typed1), At(o1, blank)>>,
     <<At(o1, typed1), At(o2, typed1), At(o1, typed2b), At(o1, typed2), At(o2, blank)>>,
     <<At(o1, typed1), At(o1, typed2), At(o2, typed3), At(o2, typed3), At(o2, typed2b)>>}

Setting(b, c, a) == [batch_size |-> b, concurrency |-> c, attempts |-> a]

\* Nothing at a time, one number at a time on two threads, and two with more threads
\* than the cap.
MCSettings == {Setting(0, 0, 2), Setting(1, 2, 2), Setting(2, 7, 1)}
=============================================================================
