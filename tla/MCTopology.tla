----------------------------- MODULE MCTopology -----------------------------
(* Topology on identical sockets, nodes and cores, numbered in every order. *)
EXTENDS Topology, TLC

\* A context is found by its socket, its node in the socket, its core in the
\* node and its thread in the core: a quadruple.  shape says how many there
\* are of each.
Quadruples(shape) ==
  {q \in (0..3) \X (0..3) \X (0..3) \X (0..3) : \A l \in 1..4 : q[l] < shape[l]}

\* The number of a quadruple when its components count in this order, the
\* first one fastest.
Number(q, shape, order) ==
  LET weight[k \in 1..4] == IF k = 1 THEN 1 ELSE weight[k - 1] * shape[order[k - 1]]
  IN weight[1] * q[order[1]] + weight[2] * q[order[2]]
       + weight[3] * q[order[3]] + weight[4] * q[order[4]]

\* packages are the ids of the sockets; the nodes of a socket are neighbours
\* or, if interleaved, as far apart as can be.
Machine(shape, order, interleaved, packages) ==
  LET all == Quadruples(shape)
      at  == [c \in 0 .. Cardinality(all) - 1 |->
                CHOOSE q \in all : Number(q, shape, order) = c]
      ctxs == DOMAIN at
      node(q) == IF interleaved THEN q[2] * shape[1] + q[1] ELSE q[1] * shape[2] + q[2]
  IN [siblings |-> [c \in ctxs |-> {d \in ctxs : \A l \in 1..3 : at[c][l] = at[d][l]}],
      cpus     |-> [n \in 0 .. shape[1] * shape[2] - 1 |-> {c \in ctxs : node(at[c]) = n}],
      package  |-> [c \in ctxs |-> packages[at[c][1] + 1]]]

Orders   == Permutations(1..4)
Machines == {Machine(shape, order, interleaved, <<0, 1>>) :
               shape \in (1..2) \X (1..2) \X (1..3) \X (1..2),
               order \in Orders, interleaved \in BOOLEAN}

ASSUME MachinesAreEqual == \A m \in Machines : EqualNodes(m) /\ EqualSockets(m)

\* Two sockets that the firmware numbers 0 and 3.
GapMachines == {Machine(<<2, 1, 2, 2>>, order, FALSE, <<0, 3>>) : order \in Orders}

\* Lines of a configuration file for two sockets of one node of two cores, one
\* of them with fewer nodes.
Says(tag, values) == [tag |-> tag, values |-> values]
Lines == {Says("s", <<2, 1, 2>>), Says("s", <<2, 1>>), Says("s", <<2, 0, 2>>),
          Says("n", <<0, 1>>), Says("n", <<0>>), Says("n", Unparsable), Says("c", <<0, 1, 2, 3>>),
          Says("c", <<0, 2, 1, 3>>), Says("comment", <<>>)}
Files == UNION {[1..n -> Lines] : n \in 0..4}

\* The machine under the files has two sockets of one node of two cores.
SomeMachine == Machine(<<2, 1, 2, 1>>, [l \in 1..4 |-> 5 - l], FALSE, <<0, 1>>)

AllInputs == (Machines \X {NoConf}) \cup ({SomeMachine} \X Files)

\* No file, and one that has nothing but the counts.
FailureInputs == {SomeMachine} \X {NoConf, <<Says("s", <<2, 1, 2>>)>>}

GapInputs == GapMachines \X {NoConf}

=============================================================================
