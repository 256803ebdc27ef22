------------------------------- MODULE Futex -------------------------------
(***************************************************************************)
(* The part of the kernel's futex(2) that REEact's fastsync primitives     *)
(* rely on through the sys_futex macro of fastsync.h.  The kernel is not   *)
(* part of the repository: these operators say what the code can count on. *)
(*                                                                         *)
(*  - FUTEX_WAIT compares the word with the expected value and suspends    *)
(*    the caller in one atomic step; it returns at once on a mismatch, and *)
(*    may return without any wake-up (a signal, EINTR).                    *)
(*  - FUTEX_WAKE 1 resumes one suspended thread when there is one.         *)
(*  - FUTEX_REQUEUE 1, INT_MAX resumes one thread and moves the others, in *)
(*    the same step, to the queue of a second word.                        *)
(*                                                                         *)
(* A queue is the set of the threads suspended on a word.  The kernel      *)
(* orders it by priority and then by arrival; the code never relies on     *)
(* that order, so here any thread of the queue may be the one resumed.     *)
(***************************************************************************)

\* The sets of threads that FUTEX_WAKE with count 1, or the wake-up half of
\* FUTEX_REQUEUE with count 1, may resume: one thread, or none if none waits.
WakeOne(queue) == IF queue = {} THEN {{}} ELSE {{t} : t \in queue}

\* FUTEX_WAIT suspends its caller only while the word holds what the caller
\* last saw in it.
WaitBlocks(word, expected) == word = expected

=============================================================================
