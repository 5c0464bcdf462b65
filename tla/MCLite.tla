------------------------------- MODULE MCLite -------------------------------
(***************************************************************************)
(* A Lite job for TLC, from both ends: the worker that runs it (LiteFetch) *)
(* and the page that starts and follows it (LitePage). They meet in the    *)
(* job's record alone, of which the page sees the status: a behaviour is   *)
(* one of the worker's or one of the page's.                               *)
(***************************************************************************)
EXTENDS MCLiteFetch, LitePage

VARIABLE end

BothInit ==
    /\ end \in {"worker", "page"}
    /\ Init /\ (end = "page" => sheet = <<>> /\ settings = CHOOSE s \in AllSettings : TRUE)
    /\ PageInit

BothNext ==
    /\ \/ end = "worker" /\ Next /\ UNCHANGED page_vars
       \/ end = "page" /\ PageNext /\ UNCHANGED vars
    /\ end' = end

\* LiteFetch's fairness, in its half; LitePage's, which asks nothing of a page that is not used.
BothSpec ==
    /\ BothInit /\ [][BothNext]_<<end, vars, page_vars>>
    /\ WF_vars(end = "worker" /\ Worker)
    /\ WF_vars(end = "worker" /\ \E b \in Batches : Thread(b))
    /\ PageFairness

-----------------------------------------------------------------------------
\* Every job ends, and the pool with it: no batch is left waiting or running.
WorkerEnds == end = "worker" => EventuallyEnds

\* Every variable has its type, of the worker and of the page.
BothTypeOK == TypeOK /\ PageTypeOK
=============================================================================
