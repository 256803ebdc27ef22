--------------------------- MODULE MCFastsyncCond ---------------------------
(* FastsyncCond on small trees.                                            *)
EXTENDS FastsyncCond

CONSTANTS t1, t2, t3, root, leaf

AllThreads == {t1, t2, t3}

\* t1 and t2 wait at a leaf, t3 at the root.
TreeConds  == {root, leaf}
TreeParent == [c \in TreeConds |-> IF c = root THEN NoCond ELSE root]
TreeLeaf   == [t \in AllThreads |-> IF t = t3 THEN root ELSE leaf]

=============================================================================
