------------------------------ MODULE Topology ------------------------------
(***************************************************************************)
(* reeact_get_topology of src/utils/reeact_topology.c: the socket, node    *)
(* and core arrays of a machine, read from the user's configuration file   *)
(* or, when there is none or it is not usable, from sysfs.                 *)
(*                                                                         *)
(* One action is one line or one file read, with what is computed from it. *)
(* Any file may be unreadable and an allocation may fail.  A file's list   *)
(* of numbers is the sequence parse_value_list_expand makes of it.         *)
(***************************************************************************)
EXTENDS Integers, FiniteSets, Sequences

CONSTANTS
  Inputs,      \* pairs of a machine, as sysfs describes it, and a sequence of
               \* lines, the configuration file
  NoConf,      \* no configuration file is named in the environment
  Unparsable,  \* the numbers of a line that parse_value_list_expand rejects
  Unset        \* an entry of an array that malloc returned

VARIABLES
  machine, conf,  \* the inputs
  parser,         \* "conf" or "sysfs": which of the two parsers is running
  pc, i,          \* where it stands, and its loop counter
  ctx_ids,        \* what is known of each SMT context
  nodes, cores,   \* the output arrays, indexed from 0; <<>> is NULL
  socket_cnt, node_cnt, core_cnt,  \* the output counts
  ret             \* the return value, -1 before the return

counts == <<socket_cnt, node_cnt, core_cnt>>
vars   == <<machine, conf, parser, pc, i, ctx_ids, nodes, cores, socket_cnt,
            node_cnt, core_cnt, ret>>

\* A machine: the contexts that share the core of a context, the contexts of
\* each node, and the package (socket) of each context.
Contexts   == DOMAIN machine.siblings
Nodes      == DOMAIN machine.cpus
TotalNodes == Cardinality(Nodes)

\* What the inputs are.  Contexts and nodes are numbered without gaps; sharing
\* a core is an equivalence, and a context belongs to one node.  The numbers of
\* a line that can be parsed are naturals: a '-' in it makes a range.
ASSUME InputsAssumption ==
  \A input \in Inputs :
    LET m     == input[1]
        ctxs  == DOMAIN m.siblings
        ns    == DOMAIN m.cpus
    IN /\ IsFiniteSet(ctxs) /\ ctxs # {} /\ ctxs = 0 .. Cardinality(ctxs) - 1
       /\ IsFiniteSet(ns) /\ ns # {} /\ ns = 0 .. Cardinality(ns) - 1
       /\ \A c \in ctxs : /\ c \in m.siblings[c] /\ m.siblings[c] \subseteq ctxs
                          /\ \A d \in m.siblings[c] : m.siblings[d] = m.siblings[c]
                          /\ m.package[c] \in Nat
                          /\ \E n \in ns : c \in m.cpus[n]
       /\ \A n \in ns : m.cpus[n] \subseteq ctxs
       /\ \A n, o \in ns : n # o => m.cpus[n] \cap m.cpus[o] = {}
       /\ input[2] # NoConf =>
            input[2] \in Seq([tag : STRING, values : Seq(Nat) \cup {Unparsable}])

ASSUME UnsetAssumption == Unset \notin Nat

\* A core is a set of contexts that share it and is named by its least context.
LeastOf(m, S) == {c \in S : \A d \in m.siblings[c] : c <= d}

\* The nodes of a socket.
NodesIn(m, s) == {n \in DOMAIN m.cpus : \E c \in m.cpus[n] : m.package[c] = s}

\* What the arrays take for granted of a machine.  The nodes have equally many
\* cores, and have any ("Assuming nodes are homogeneous").
EqualNodes(m) ==
  \A n, o \in DOMAIN m.cpus :
    LeastOf(m, m.cpus[n]) # {}
    /\ Cardinality(LeastOf(m, m.cpus[n])) = Cardinality(LeastOf(m, m.cpus[o]))

\* The sockets have equally many nodes, share none, and their ids have no gaps.
EqualSockets(m) ==
  LET ids == {m.package[c] : c \in DOMAIN m.siblings}
  IN /\ ids = 0 .. Cardinality(ids) - 1
     /\ \A s, r \in ids : Cardinality(NodesIn(m, s)) = Cardinality(NodesIn(m, r))
     /\ \A n \in DOMAIN m.cpus : \A c, d \in m.cpus[n] : m.package[c] = m.package[d]

\* The elements of a finite set of numbers in their order: the k-th is the one
\* with k - 1 below it.
Below(S, x)  == {y \in S : y < x}
Ascending(S) == [k \in 1 .. Cardinality(S) |-> CHOOSE x \in S : Cardinality(Below(S, x)) = k - 1]

\* The array a after the values of s have been stored from index base on.
Stored(a, base, s) ==
  [x \in DOMAIN a |-> IF x - base \in 0 .. Len(s) - 1 THEN s[x - base + 1] ELSE a[x]]

Array(s) == [x \in 0 .. Len(s) - 1 |-> s[x + 1]]

Init ==
  /\ \E input \in Inputs : machine = input[1] /\ conf = input[2]
  /\ parser = IF conf = NoConf THEN "sysfs" ELSE "conf"
  /\ pc = IF conf = NoConf THEN "online" ELSE "lines"
  /\ i = 0
  /\ ctx_ids = <<>>
  /\ nodes = <<>> /\ cores = <<>>
  /\ socket_cnt = 0 /\ node_cnt = 0 /\ core_cnt = 0
  /\ ret = -1

Return(value) == pc' = "done" /\ ret' = value

-----------------------------------------------------------------------------
(* reeact_get_topo_conf                                                    *)

\* The error return; reeact_get_topology then calls the other parser, over
\* the outputs as they are.
ConfFails ==
  /\ parser' = "sysfs" /\ pc' = "online" /\ i' = 0
  /\ UNCHANGED <<machine, conf, ctx_ids, nodes, cores, socket_cnt, node_cnt, core_cnt, ret>>

ConfUnreadable == pc = "lines" /\ i = 0 /\ ConfFails

Line   == conf[i + 1]
InLine == pc = "lines" /\ i < Len(conf)

\* A line whose numbers cannot be parsed, or counts that are not three.
ConfBadLine ==
  /\ InLine
  /\ \/ Line.tag \in {"s", "n", "c"} /\ Line.values = Unparsable
     \/ Line.tag = "s" /\ Line.values # Unparsable /\ Len(Line.values) # 3
  /\ ConfFails

ConfLine ==
  /\ InLine
  /\ Line.tag \in {"s", "n", "c"} => Line.values # Unparsable
  /\ Line.tag = "s" => Len(Line.values) = 3
  /\ i' = i + 1
  /\ IF Line.tag = "s"
     THEN /\ socket_cnt' = Line.values[1]
          /\ node_cnt' = Line.values[2]
          /\ core_cnt' = Line.values[3]
     ELSE UNCHANGED counts
  /\ nodes' = IF Line.tag = "n" THEN Array(Line.values) ELSE nodes
  /\ cores' = IF Line.tag = "c" THEN Array(Line.values) ELSE cores
  /\ UNCHANGED <<machine, conf, parser, pc, ctx_ids, ret>>

\* getline returns -1, at the end of the file or when the file cannot be read
\* any further: the check of what has been read, and the return.
ConfEndChecking(complete) ==
  /\ pc = "lines"
  /\ IF complete
     THEN /\ Return(0)
          /\ UNCHANGED <<machine, conf, parser, i, ctx_ids, nodes, cores, counts>>
     ELSE ConfFails

Counted == socket_cnt # 0 /\ node_cnt # 0 /\ core_cnt # 0

\* Mutant of ConfEnd: the arrays are not looked at.
ConfEndCounts == ConfEndChecking(Counted)

ConfEnd == ConfEndChecking(Counted /\ nodes # <<>> /\ cores # <<>>)

-----------------------------------------------------------------------------
(* reeact_get_topo_sysfs                                                   *)

\* The parser reads a file at pc, and there is one to read.
ReadsFile ==
  \/ pc \in {"online", "node_cpus", "packages", "assign"}
  \/ pc = "contexts" /\ ctx_ids[i] # "smt"

\* A file that cannot be opened, read or parsed.  The outputs stay.
ReadFails ==
  /\ ReadsFile
  /\ Return(2)
  /\ UNCHANGED <<machine, conf, parser, i, ctx_ids, nodes, cores, counts>>

\* The lists of the online nodes and of the online contexts.
ReadOnline ==
  /\ pc = "online"
  /\ pc' = "contexts" /\ i' = 0
  /\ ctx_ids' = [c \in Contexts |-> "online"]
  /\ UNCHANGED <<machine, conf, parser, nodes, cores, counts, ret>>

\* Mutant of Iterate: one iteration too many.
IterateBeyond(here, last, next) ==
  IF i > last THEN pc' = next /\ i' = 0 ELSE pc' = here /\ i' = i + 1

\* The next iteration of the loop whose label is here, or what follows it.
Iterate(here, last, next) ==
  IF i = last THEN pc' = next /\ i' = 0 ELSE pc' = here /\ i' = i + 1

NextContext == Iterate("contexts", Cardinality(Contexts) - 1, "alloc_cores")

SkipContext ==
  /\ pc = "contexts" /\ ctx_ids[i] = "smt"
  /\ NextContext
  /\ UNCHANGED <<machine, conf, parser, ctx_ids, nodes, cores, counts, ret>>

\* Context i has not been met: it stands for its core, and the others that
\* share the core are set aside.
ReadSiblings ==
  /\ pc = "contexts" /\ ctx_ids[i] # "smt"
  /\ ctx_ids' = [c \in Contexts |->
                   IF c = i THEN "core"
                   ELSE IF c \in machine.siblings[i] THEN "smt" ELSE ctx_ids[c]]
  /\ NextContext
  /\ UNCHANGED <<machine, conf, parser, nodes, cores, counts, ret>>

IsCore(c) == ctx_ids[c] = "core"
TotalCores == Cardinality({c \in Contexts : IsCore(c)})

AllocRows(total) ==
  /\ pc = "alloc_cores"
  /\ core_cnt' = total \div TotalNodes
  /\ \/ /\ cores' = [x \in 0 .. TotalCores - 1 |-> Unset]
        /\ pc' = "node_cpus"
        /\ UNCHANGED ret
     \/ cores' = <<>> /\ Return(3)
  /\ UNCHANGED <<machine, conf, parser, i, ctx_ids, nodes, socket_cnt, node_cnt>>

\* Mutant of AllocCores: the rows are made for contexts.
AllocContexts == AllocRows(Cardinality(Contexts))

\* *cores = malloc(...), *core_cnt = total_core_cnt / total_node_cnt
AllocCores == AllocRows(TotalCores)

\* The cores of node n, in the order of its cpulist.
Row(n) == Ascending({c \in machine.cpus[n] : IsCore(c)})

ReadNodeCpus ==
  /\ pc = "node_cpus"
  /\ cores' = Stored(cores, i * core_cnt, Row(i))
  /\ IF i = TotalNodes - 1
     THEN pc' = "packages" /\ i' = 0 /\ socket_cnt' = -1
     ELSE pc' = pc /\ i' = i + 1 /\ UNCHANGED socket_cnt
  /\ UNCHANGED <<machine, conf, parser, ctx_ids, nodes, node_cnt, core_cnt, ret>>

\* The package of a node: that of its first core.
Package(n) == machine.package[cores[n * core_cnt]]

\* The largest package id, and after the last node its successor, is the
\* number of sockets.
ReadPackage ==
  /\ pc = "packages"
  /\ Iterate("packages", TotalNodes - 1, "alloc_nodes")
  /\ LET largest == IF Package(i) > socket_cnt THEN Package(i) ELSE socket_cnt
     IN socket_cnt' = IF i = TotalNodes - 1 THEN largest + 1 ELSE largest
  /\ UNCHANGED <<machine, conf, parser, ctx_ids, nodes, cores, node_cnt, core_cnt, ret>>

\* *nodes = malloc(...), *node_cnt = total_node_cnt / *socket_cnt.  The result
\* of malloc is not looked at.
AllocNodes ==
  /\ pc = "alloc_nodes"
  /\ nodes' \in {[x \in 0 .. TotalNodes - 1 |-> Unset], <<>>}
  /\ node_cnt' = TotalNodes \div socket_cnt
  /\ pc' = "assign"
  /\ UNCHANGED <<machine, conf, parser, i, ctx_ids, cores, socket_cnt, core_cnt, ret>>

\* The two nested loops: i counts the pairs of a socket and a node.
Socket == i \div TotalNodes
Node   == i % TotalNodes

AssignFrom(k) ==
  /\ pc = "assign" /\ (Package(Node) = Socket => nodes # <<>>)
  /\ nodes' = IF Package(Node) = Socket
              THEN Stored(nodes, Socket * node_cnt + k, <<Node>>) ELSE nodes
  /\ IF i = socket_cnt * TotalNodes - 1 THEN Return(0) /\ UNCHANGED i
                                        ELSE i' = i + 1 /\ UNCHANGED <<pc, ret>>
  /\ UNCHANGED <<machine, conf, parser, ctx_ids, cores, counts>>

\* Mutant of Assign: k is not reset for the next socket.
AssignNoReset ==
  AssignFrom(Cardinality({n \in Nodes : Package(n) < Socket \/ (Package(n) = Socket /\ n < Node)}))

\* Node is stored in the row of its socket, after the k nodes found before.
Assign == AssignFrom(Cardinality(Below({n \in Nodes : Package(n) = Socket}, Node)))

\* The store into the array that could not be allocated ends the process.
AssignCrashes ==
  /\ pc = "assign" /\ Package(Node) = Socket /\ nodes = <<>>
  /\ pc' = "crashed"
  /\ UNCHANGED <<machine, conf, parser, i, ctx_ids, nodes, cores, counts, ret>>

-----------------------------------------------------------------------------
(* reeact_log_topology of src/reeact.c, called by the constructor, which   *)
(* does not look at ret.  Only the debug build, the default one, reads     *)
(* through the arrays.                                                     *)

\* nodes[i * node_cnt + j], for every i < socket_cnt and j < node_cnt
LoggedNodes == 0 .. socket_cnt * node_cnt - 1

\* Every read that the loops make is of an entry that has been stored:
\* nodes[x], and then the core_cnt entries of cores from node_id * core_cnt on.
Readable ==
  \A x \in LoggedNodes :
    /\ x \in DOMAIN nodes /\ nodes[x] # Unset
    /\ \A k \in 0 .. core_cnt - 1 :
         /\ nodes[x] * core_cnt + k \in DOMAIN cores
         /\ cores[nodes[x] * core_cnt + k] # Unset

Log ==
  /\ pc = "done"
  /\ Readable
  /\ pc' = "logged"
  /\ UNCHANGED <<machine, conf, parser, i, ctx_ids, nodes, cores, counts, ret>>

\* A read through NULL ends the process.  A read outside of an array, or of
\* an entry that was never stored, may do so or be printed as it is.
LogUndefined ==
  /\ pc = "done"
  /\ ~Readable
  /\ \/ pc' = "crashed"
     \/ <<>> \notin {nodes, cores} /\ pc' = "logged"
  /\ UNCHANGED <<machine, conf, parser, i, ctx_ids, nodes, cores, counts, ret>>

-----------------------------------------------------------------------------
Stopped == pc \in {"done", "logged", "crashed"} /\ UNCHANGED vars

Next ==
  \/ ConfUnreadable \/ ConfBadLine \/ ConfLine \/ ConfEnd
  \/ ReadFails \/ ReadOnline \/ SkipContext \/ ReadSiblings \/ AllocCores
  \/ ReadNodeCpus \/ ReadPackage \/ AllocNodes \/ Assign \/ AssignCrashes
  \/ Log \/ LogUndefined
  \/ Stopped

Spec == Init /\ [][Next]_vars

-----------------------------------------------------------------------------
(* Properties.                                                             *)

\* Types.
TypeOK ==
  /\ parser \in {"conf", "sysfs"}
  /\ pc \in {"lines", "online", "contexts", "alloc_cores", "node_cpus", "packages",
             "alloc_nodes", "assign", "done", "logged", "crashed"}
  /\ i \in CASE pc = "lines"    -> 0 .. Len(conf)
             [] pc = "contexts" -> Contexts
             [] pc \in {"node_cpus", "packages"} -> Nodes
             [] OTHER -> Nat
  /\ ctx_ids = <<>> \/ ctx_ids \in [Contexts -> {"online", "core", "smt"}]
  /\ \A x \in DOMAIN nodes : nodes[x] \in Nat \cup {Unset}
  /\ \A x \in DOMAIN cores : cores[x] \in Nat \cup {Unset}
  /\ socket_cnt \in Nat \cup {-1} /\ node_cnt \in Nat /\ core_cnt \in Nat
  /\ ret \in {-1, 0, 2, 3}

\* The array of cores is large enough for what is stored into it (malloc of
\* total_core_cnt integers), and the first core of a node is known when the
\* package of the node is asked for.
WithinArrays ==
  /\ pc = "node_cpus" => \A k \in 0 .. Len(Row(i)) - 1 : i * core_cnt + k \in DOMAIN cores
  /\ pc \in {"packages", "assign"} =>
       \A n \in Nodes : n * core_cnt \in DOMAIN cores /\ cores[n * core_cnt] # Unset

\* "2: error reading topology", "3: error allocating space" (reeact_utils.h):
\* a topology that cannot be had is a return value, and the process that
\* REEact was loaded into goes on: neither the parsers nor the constructor
\* after them read or store through what a failure has left.
FailureReturns == pc # "crashed"

\* "Determine the processor topology of current machine, i.e., the sockets,
\* nodes and cores" (reeact_utils.h).  The reference: a row of cores lists the
\* cores of a node, a row of nodes the nodes of a socket.
CoresOf(S)  == LeastOf(machine, S)
Packages    == {machine.package[c] : c \in Contexts}
NodesOf(s)  == NodesIn(machine, s)
Grid(row(_), rows, width) ==
  [x \in 0 .. rows * width - 1 |-> Ascending(row(x \div width))[(x % width) + 1]]

SysfsTopology ==
  pc = "done" /\ ret = 0 /\ parser = "sysfs" =>
    LET row(n) == CoresOf(machine.cpus[n])
        sockets == Cardinality(Packages)
    IN /\ socket_cnt = sockets
       /\ node_cnt * sockets = TotalNodes
       /\ core_cnt * TotalNodes = Cardinality(CoresOf(Contexts))
       /\ cores = Grid(row, TotalNodes, core_cnt)
       /\ nodes = Grid(NodesOf, sockets, node_cnt)

\* A topology taken from the configuration file has the counts and the arrays,
\* and these are what the file says last of each kind, up to where it could be
\* read: nothing is left over from an earlier line, nor from another one.
ConfTopology ==
  pc = "done" /\ ret = 0 /\ parser = "conf" =>
    LET said(tag) == {n \in 1 .. i : conf[n].tag = tag}
        last(tag) == conf[CHOOSE n \in said(tag) : \A m \in said(tag) : m <= n].values
    IN /\ \A tag \in {"s", "n", "c"} : said(tag) # {}
       /\ counts = last("s") /\ 0 \notin {socket_cnt, node_cnt, core_cnt}
       /\ nodes = Array(last("n")) /\ cores = Array(last("c"))

=============================================================================
