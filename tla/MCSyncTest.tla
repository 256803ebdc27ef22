----------------------------- MODULE MCSyncTest -----------------------------
(* SyncTest for a few command lines.                                       *)
EXTENDS SyncTest

\* With three workers: no iteration each and two extra ones, two iterations
\* each and one extra, or three each; bar_iters divides them or not.
SomeOptions ==
  [total_iters : {2, 7, 9}, bar_iters : 1..2, sync_type : 0..2]

=============================================================================
