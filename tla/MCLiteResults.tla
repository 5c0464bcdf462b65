--------------------------- MODULE MCLiteResults ---------------------------
(* Small instances of LiteResults for TLC. *)
EXTENDS LiteResults, TLC

Symmetry == Permutations(Jobs) \cup Permutations(Handlers)

Posix(j, d) == [deletes_open_files |-> TRUE, jobs |-> j, downloads |-> d, at_once |-> 1]
Windows(j, d) == [deletes_open_files |-> FALSE, jobs |-> j, downloads |-> d, at_once |-> 2]

\* Two jobs and a download of either; two downloads at once of one job.
EitherMachine == {Posix(2, 1), Windows(2, 1), Windows(1, 2)}
TwoSaves == {Windows(2, 0)}
TwoDownloads == {Windows(1, 2)}
=============================================================================
