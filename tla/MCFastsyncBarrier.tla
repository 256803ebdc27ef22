------------------------- MODULE MCFastsyncBarrier -------------------------
(* FastsyncBarrier on two small trees.                                     *)
EXTENDS FastsyncBarrier

CONSTANTS t1, t2, t3, t4, root, inner, leafA, leafB, leafC

\* A flat barrier: one node, as fastsync_barrier_init makes it.
FlatNodes   == {root}
FlatThreads == {t1, t2, t3, t4}
FlatParent  == [n \in FlatNodes |-> NoNode]
FlatLeaf    == [t \in FlatThreads |-> root]
FlatMembers == [n \in FlatNodes |-> FlatThreads]
FlatDepth   == [n \in FlatNodes |-> 0]

\* Three levels, leaves of different sizes and at different depths:
\*   root -> leafC {t4} | inner -> leafA {t1, t2} | leafB {t3}
TreeNodes   == {root, inner, leafA, leafB, leafC}
TreeThreads == {t1, t2, t3, t4}
TreeParent  == [n \in TreeNodes |->
                  CASE n = root -> NoNode
                    [] n \in {leafA, leafB} -> inner
                    [] n \in {inner, leafC} -> root]
TreeLeaf    == [t \in TreeThreads |->
                  CASE t \in {t1, t2} -> leafA [] t = t3 -> leafB [] t = t4 -> leafC]
TreeMembers == [n \in TreeNodes |->
                  CASE n = root -> TreeThreads
                    [] n = inner -> {t1, t2, t3}
                    [] n = leafA -> {t1, t2}
                    [] n = leafB -> {t3}
                    [] n = leafC -> {t4}]
TreeDepth   == [n \in TreeNodes |->
                  CASE n = root -> 0
                    [] n \in {inner, leafC} -> 1
                    [] n \in {leafA, leafB} -> 2]

=============================================================================
