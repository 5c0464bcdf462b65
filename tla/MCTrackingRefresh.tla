-------------------------- MODULE MCTrackingRefresh --------------------------
(* Small instances of TrackingRefresh for TLC. *)
EXTENDS TrackingRefresh, TLC

CONSTANTS n1, n2, u0, u1, o1, o2, o3

MCMapStatus ==
    1 :> [status |-> "IN_TRANSIT", terminal |-> FALSE]
    @@ 2 :> [status |-> "DELIVERED", terminal |-> TRUE]

At(o, n) == [order |-> o, tracking |-> n]

\* Confirmed before: one number. To confirm: that number again and a new one, an order
\* without tracking, a row without an order.
MCRows ==
    u0 :> <<At(o1, n1)>>
    @@ u1 :> <<At(o1, n1), At(o2, n1), At(o2, n2), At(o3, None), At(None, n2)>>

\* The confirmed upload's number has not been queried; the other one is new.
MCEarlier ==
    {[row |-> n1 :> Registered @@ n2 :> NoRow, stored |-> n1 :> {} @@ n2 :> {},
      orders |-> {o1}, links |-> {At(o1, n1)}, confirmed |-> {u0}]}

MCSelections == {<<n2, n1>>}
=============================================================================
