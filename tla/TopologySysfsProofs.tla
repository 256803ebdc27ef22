------------------------ MODULE TopologySysfsProofs ------------------------
(***************************************************************************)
(* What is proved of the arrays that reeact_get_topology returns.          *)
(*                                                                         *)
(* The code lays the cores out as rows of total cores / total nodes, and   *)
(* the nodes as rows of total nodes / sockets: it takes equal nodes, equal *)
(* sockets and package ids without gaps for granted.  EqualNodes and       *)
(* EqualSockets say so, and are hypotheses of the theorems, each where it  *)
(* is needed.  The elements of a row are in ascending order; the place of  *)
(* an element is the number of those below it, which makes the layout a    *)
(* bijection between indices and elements, and counts them.                *)
(***************************************************************************)
EXTENDS TopologyProofs

-----------------------------------------------------------------------------
(* Sets of numbers in ascending order.                                     *)

\* Fewer elements are below a smaller one.
LEMMA BelowIs ==
  ASSUME NEW S \in SUBSET Nat, IsFiniteSet(S), NEW x \in S
  PROVE  /\ Cardinality(Below(S, x)) \in 0 .. Cardinality(S) - 1
         /\ \A y \in S : y < x => Cardinality(Below(S, y)) < Cardinality(Below(S, x))
<1>1. IsFiniteSet(Below(S, x)) /\ Cardinality(Below(S, x)) \in Nat /\ Cardinality(S) \in Nat
  BY FS_Subset, FS_CardinalityType DEF Below
<1>2. Cardinality(Below(S, x)) <= Cardinality(S) - 1
  <2>1. x \notin Below(S, x) /\ Below(S, x) \subseteq S \ {x}
    BY DEF Below
  <2>2. IsFiniteSet(S \ {x}) /\ Cardinality(S \ {x}) = Cardinality(S) - 1
    BY FS_RemoveElement
  <2> QED BY <2>1, <2>2, FS_Subset
<1>3. ASSUME NEW y \in S, y < x
      PROVE  Cardinality(Below(S, y)) < Cardinality(Below(S, x))
  <2>0. x \in Nat /\ y \in Nat /\ \A z \in S : z \in Nat
    OBVIOUS
  <2>1. y \in Below(S, x) /\ \A z \in Below(S, y) : z \in Below(S, x) /\ z # y
    BY <1>3, <2>0 DEF Below
  <2>2. IsFiniteSet(Below(S, x) \ {y})
        /\ Cardinality(Below(S, x) \ {y}) = Cardinality(Below(S, x)) - 1
    BY <1>1, <2>1, FS_RemoveElement
  <2>3. Below(S, y) \in SUBSET (Below(S, x) \ {y})
    BY <2>1
  <2>4. /\ Cardinality(Below(S, y)) <= Cardinality(Below(S, x)) - 1
        /\ IsFiniteSet(Below(S, y))
    BY <2>2, <2>3, FS_Subset
  <2>5. Cardinality(Below(S, y)) \in Nat
    BY <2>4, FS_CardinalityType
  <2> QED BY <1>1, <2>4, <2>5
<1> QED BY <1>1, <1>2, <1>3

\* Ascending lists every element once: the number of those below is a
\* bijection from the set to the indices.
LEMMA AscendingIs ==
  ASSUME NEW S \in SUBSET Nat, IsFiniteSet(S)
  PROVE  /\ Cardinality(S) \in Nat
         /\ Ascending(S) \in Seq(S) /\ Len(Ascending(S)) = Cardinality(S)
         /\ \A k \in 1 .. Cardinality(S) :
              Ascending(S)[k] \in S /\ Cardinality(Below(S, Ascending(S)[k])) = k - 1
         /\ \A x \in S : /\ Cardinality(Below(S, x)) \in 0 .. Cardinality(S) - 1
                         /\ Ascending(S)[Cardinality(Below(S, x)) + 1] = x
<1> DEFINE n == Cardinality(S)
           rank == [x \in S |-> Cardinality(Below(S, x))]
<1>1. n \in Nat
  BY FS_CardinalityType
<1>2. \A x \in S : rank[x] \in 0 .. n - 1
  BY BelowIs
<1>3. ASSUME NEW x \in S, NEW y \in S, rank[x] = rank[y] PROVE x = y
  <2>1. ~(x < y) /\ ~(y < x)
    BY <1>2, <1>3, BelowIs
  <2>2. x \in Nat /\ y \in Nat
    OBVIOUS
  <2> QED BY <2>1, <2>2
<1>4. rank \in Surjection(S, 0 .. n - 1)
  <2>1. rank \in Injection(S, 0 .. n - 1)
    BY <1>2, <1>3 DEF Injection, IsInjective
  <2>2. IsFiniteSet(0 .. n - 1) /\ Cardinality(0 .. n - 1) = n
    <3> HIDE DEF n
    <3>1. n - 1 \in Int /\ (0 > n - 1 => n = 0)
      BY <1>1
    <3> QED BY <1>1, <3>1, FS_Interval
  <2> QED BY <2>1, <2>2, FS_Injection
<1>5. \A k \in 1 .. n : \E x \in S : rank[x] = k - 1
  <2> HIDE DEF n, rank
  <2>1. \A r \in 0 .. n - 1 : \E x \in S : rank[x] = r
    BY <1>4 DEF Surjection
  <2>2. \A k \in 1 .. n : k - 1 \in 0 .. n - 1
    BY <1>1
  <2> QED BY <2>1, <2>2
<1>6. \A k \in 1 .. n : Ascending(S)[k] \in S /\ Cardinality(Below(S, Ascending(S)[k])) = k - 1
  BY <1>5 DEF Ascending
<1>7. ASSUME NEW x \in S PROVE Ascending(S)[rank[x] + 1] = x
  <2> DEFINE k == rank[x] + 1
  <2>1. k \in 1 .. n /\ k - 1 = rank[x]
    BY <1>1, <1>2
  <2>2. Ascending(S)[k] \in S /\ Cardinality(Below(S, Ascending(S)[k])) = rank[x]
    <3> HIDE DEF rank, n, k
    <3> QED BY <2>1, <1>6
  <2>3. rank[Ascending(S)[k]] = rank[x]
    BY <2>2
  <2> HIDE DEF rank
  <2> QED BY <2>2, <2>3, <1>3
<1>8. Ascending(S) \in [1 .. n -> S]
  <2>1. Ascending(S) = [k \in 1 .. n |-> Ascending(S)[k]]
    BY DEF Ascending
  <2> QED BY <2>1, <1>6
<1> QED BY <1>1, <1>2, <1>6, <1>7, <1>8

-----------------------------------------------------------------------------
(* Rows of equal width, one after the other.                               *)

\* Index x is in row x \div w, at place x % w.
LEMMA Split ==
  ASSUME NEW rows \in Nat, NEW w \in Nat \ {0}, NEW x \in 0 .. rows * w - 1
  PROVE  x \div w \in 0 .. rows - 1 /\ x % w \in 0 .. w - 1 /\ x = (x \div w) * w + (x % w)
<1>0. rows * w \in Nat
  OBVIOUS
<1>1. x % w \in 0 .. w - 1 /\ x = (x \div w) * w + (x % w) /\ x \div w \in Int
  BY <1>0
<1>2. x \div w >= 0
  BY <1>0
<1>3. ASSUME x \div w >= rows PROVE FALSE
  <2>1. (x \div w) * w >= rows * w
    BY <1>1, <1>3
  <2> QED BY <1>0, <1>1, <2>1
<1> QED BY <1>1, <1>2, <1>3

\* Place b of row a has index a * w + b.
LEMMA Join ==
  ASSUME NEW rows \in Nat, NEW w \in Nat \ {0}, NEW a \in 0 .. rows - 1, NEW b \in 0 .. w - 1
  PROVE  /\ a * w + b \in 0 .. rows * w - 1
         /\ (a * w + b) \div w = a /\ (a * w + b) % w = b
<1>1. a * w + w <= rows * w
  OBVIOUS
<1>2. a * w \in Nat /\ rows * w \in Nat
  OBVIOUS
<1>3. a * w + b \in 0 .. rows * w - 1
  BY <1>1, <1>2
<1>4. (a * w + b) \div w = a
  OBVIOUS
<1>5. (a * w + b) % w = b
  OBVIOUS
<1> QED BY <1>3, <1>4, <1>5

\* R has rows many rows, sets of w numbers each.
RowsOf(R, rows, w) ==
  /\ rows \in Nat /\ w \in Nat \ {0}
  /\ \A r \in 0 .. rows - 1 : R[r] \subseteq Nat /\ IsFiniteSet(R[r]) /\ Cardinality(R[r]) = w

\* What is at index x when the rows are laid out in ascending order, and the
\* index of y in row r.
At(R, w, x)    == Ascending(R[x \div w])[(x % w) + 1]
IndexOf(R, w, r, y) == r * w + Cardinality(Below(R[r], y))

\* Every place of the layout holds an element of its row, and every element of
\* a row is at one place of it.
LEMMA Layout ==
  ASSUME NEW R, NEW rows, NEW w, RowsOf(R, rows, w)
  PROVE  /\ \A x \in 0 .. rows * w - 1 :
              x \div w \in 0 .. rows - 1 /\ At(R, w, x) \in R[x \div w]
              /\ x = IndexOf(R, w, x \div w, At(R, w, x))
         /\ \A r \in 0 .. rows - 1 : \A y \in R[r] :
              /\ IndexOf(R, w, r, y) \in 0 .. rows * w - 1
              /\ IndexOf(R, w, r, y) \div w = r /\ At(R, w, IndexOf(R, w, r, y)) = y
<1>0. rows \in Nat /\ w \in Nat \ {0}
  BY DEF RowsOf
<1>1. ASSUME NEW x \in 0 .. rows * w - 1
      PROVE  x \div w \in 0 .. rows - 1 /\ At(R, w, x) \in R[x \div w]
             /\ x = IndexOf(R, w, x \div w, At(R, w, x))
  <2>1. x \div w \in 0 .. rows - 1 /\ x % w \in 0 .. w - 1 /\ x = (x \div w) * w + (x % w)
    BY <1>0, Split, Zenon
  <2> DEFINE r == x \div w
             k == x % w
  <2>2. R[r] \in SUBSET Nat /\ IsFiniteSet(R[r]) /\ Cardinality(R[r]) = w
    BY <2>1 DEF RowsOf
  <2>3. k + 1 \in 1 .. w /\ k + 1 - 1 = k
    BY <2>1, <1>0
  <2> HIDE DEF r, k
  <2>4. \A j \in 1 .. w : Ascending(R[r])[j] \in R[r]
                           /\ Cardinality(Below(R[r], Ascending(R[r])[j])) = j - 1
    BY <2>2, AscendingIs
  <2> QED BY <2>1, <2>3, <2>4 DEF r, k, At, IndexOf
<1>2. ASSUME NEW r \in 0 .. rows - 1, NEW y \in R[r]
      PROVE  /\ IndexOf(R, w, r, y) \in 0 .. rows * w - 1
             /\ IndexOf(R, w, r, y) \div w = r /\ At(R, w, IndexOf(R, w, r, y)) = y
  <2> DEFINE k == Cardinality(Below(R[r], y))
  <2>1. R[r] \in SUBSET Nat /\ IsFiniteSet(R[r]) /\ Cardinality(R[r]) = w
    BY DEF RowsOf
  <2>2. k \in 0 .. w - 1 /\ Ascending(R[r])[k + 1] = y
    BY <2>1, AscendingIs
  <2> HIDE DEF k
  <2>3. r * w + k \in 0 .. rows * w - 1 /\ (r * w + k) \div w = r /\ (r * w + k) % w = k
    <3>1. r * w + k \in 0 .. rows * w - 1
      BY <1>0, <2>2, Join, Zenon
    <3>2. (r * w + k) \div w = r
      BY <1>0, <2>2, Join
    <3>3. (r * w + k) % w = k
      BY <1>0, <2>2, Join
    <3> QED BY <3>1, <3>2, <3>3
  <2> QED BY <2>2, <2>3 DEF k, At, IndexOf
<1> QED BY <1>1, <1>2

\* Disjoint rows have rows * w elements.
LEMMA LayoutCount ==
  ASSUME NEW R, NEW rows, NEW w, RowsOf(R, rows, w),
         \A r, s \in 0 .. rows - 1 : r # s => R[r] \cap R[s] = {},
         NEW S, \A y : y \in S <=> \E r \in 0 .. rows - 1 : y \in R[r]
  PROVE  Cardinality(S) = rows * w
<1> DEFINE D == 0 .. rows * w - 1
           f == [x \in D |-> At(R, w, x)]
<1>0. rows * w \in Nat
  BY DEF RowsOf
<1>1. f \in [D -> S]
  BY Layout
<1>2. ASSUME NEW x \in D, NEW z \in D, f[x] = f[z] PROVE x = z
  <2>1. /\ x \div w \in 0 .. rows - 1 /\ At(R, w, x) \in R[x \div w]
        /\ z \div w \in 0 .. rows - 1 /\ At(R, w, z) \in R[z \div w]
        /\ At(R, w, x) = At(R, w, z)
    BY <1>2, Layout
  <2>2. x \div w = z \div w
    BY <2>1
  <2> QED BY <2>1, <2>2, Layout
<1>3. \A y \in S : \E x \in D : f[x] = y
  <2> TAKE y \in S
  <2>1. PICK r \in 0 .. rows - 1 : y \in R[r]
    OBVIOUS
  <2>2. IndexOf(R, w, r, y) \in D /\ f[IndexOf(R, w, r, y)] = y
    BY <2>1, Layout
  <2> QED BY <2>2
<1>4. f \in Bijection(D, S)
  BY <1>1, <1>2, <1>3 DEF Bijection, Injection, IsInjective, Surjection
<1>5. IsFiniteSet(D) /\ Cardinality(D) = rows * w
  BY <1>0, FS_Interval
<1>6. ExistsBijection(D, S)
  BY <1>4 DEF ExistsBijection
<1> QED BY <1>5, <1>6, FS_Bijection

-----------------------------------------------------------------------------
(* The invariants.                                                         *)

\* The rows of the array of cores, and how many cores each has.
CoreRows  == [n \in Nodes |-> CoresOf(machine.cpus[n])]
CoresEach == Cardinality(CoresOf(machine.cpus[0]))

\* The cores of the first k nodes have been stored.
CoresStored(k) ==
  cores = [x \in 0 .. TotalNodes * CoresEach - 1 |->
             IF x \div CoresEach < k THEN At(CoreRows, CoresEach, x) ELSE Unset]

\* The package of the first core of node n.
PackageOf(n) == machine.package[At(CoreRows, CoresEach, n * CoresEach)]

\* v is the largest package of the first k nodes, or -1 when k is 0.
Largest(v, k) ==
  /\ (k = 0 /\ v = -1) \/ \E n \in 0 .. k - 1 : v = PackageOf(n)
  /\ \A n \in 0 .. k - 1 : PackageOf(n) <= v

\* The cores are stored node by node, and then the packages looked at.
CoresBuilt ==
  /\ pc \in {"alloc_cores", "alloc_nodes"} => i = 0
  /\ pc = "node_cpus" => i \in Nodes /\ CoresStored(i)
  /\ pc = "packages" => i \in Nodes /\ CoresStored(TotalNodes) /\ Largest(socket_cnt, i)
  /\ pc \in {"alloc_nodes", "assign"} \/ SysfsSucceeded =>
       /\ CoresStored(TotalNodes)
       /\ socket_cnt \in Nat \ {0} /\ Largest(socket_cnt - 1, TotalNodes)
  /\ pc = "assign" => i \in 0 .. socket_cnt * TotalNodes - 1

\* The rows of the array of nodes, and how many nodes each has.
Sockets    == Cardinality(Packages)
SocketRows == [s \in Packages |-> NodesOf(s)]
NodesEach  == Cardinality(NodesOf(0))

\* The node whose place in the array is x.
NodeAt(x) == At(SocketRows, NodesEach, x)

\* The nested loops come to the socket of node n, and to n in it, at this pair.
Pair(n) == PackageOf(n) * TotalNodes + n

\* The nodes that the loops have come to before pair k have been stored.
NodesStored(k) ==
  nodes = [x \in 0 .. TotalNodes - 1 |->
             IF Pair(NodeAt(x)) < k THEN NodeAt(x) ELSE Unset]

\* The nodes are stored pair by pair.  When the array could not be allocated
\* the loops have not come to a node yet.
NodesBuilt ==
  /\ pc = "assign" \/ SysfsSucceeded => socket_cnt = Sockets /\ node_cnt = NodesEach
  /\ pc = "assign" => NodesStored(i) \/ (nodes = <<>> /\ \A n \in Nodes : Pair(n) >= i)
  /\ SysfsSucceeded => NodesStored(Sockets * TotalNodes)

-----------------------------------------------------------------------------
(* What equal nodes, and equal sockets, give.                              *)

\* The nodes are numbered from 0, and divide the contexts.
LEMMA NodesAre ==
  ASSUME InputsAre
  PROVE  /\ TotalNodes \in Nat \ {0} /\ Nodes = 0 .. TotalNodes - 1 /\ IsFiniteSet(Nodes)
         /\ Contexts \subseteq Nat /\ IsFiniteSet(Contexts) /\ Contexts # {}
         /\ \A n \in Nodes : machine.cpus[n] \subseteq Contexts
         /\ \A n, o \in Nodes : n # o => machine.cpus[n] \cap machine.cpus[o] = {}
         /\ \A c \in Contexts :
              machine.package[c] \in Nat /\ \E n \in Nodes : c \in machine.cpus[n]
<1>1. /\ IsFiniteSet(Nodes) /\ Nodes # {} /\ Nodes = 0 .. Cardinality(Nodes) - 1
      /\ IsFiniteSet(Contexts) /\ Contexts # {}
      /\ \A n \in Nodes : machine.cpus[n] \subseteq Contexts
      /\ \A n, o \in Nodes : n # o => machine.cpus[n] \cap machine.cpus[o] = {}
      /\ \A c \in Contexts :
           machine.package[c] \in Nat /\ \E n \in Nodes : c \in machine.cpus[n]
  BY InputsAssumption DEF InputsAre, Contexts, Nodes
<1>2. TotalNodes \in Nat \ {0}
  BY <1>1, FS_CardinalityType, FS_EmptySet DEF TotalNodes
<1>3. Contexts \subseteq Nat
  BY MachineIs
<1> QED BY <1>1, <1>2, <1>3 DEF TotalNodes

\* With equal nodes the cores are TotalNodes rows of CoresEach.
LEMMA CoreRowsAre ==
  ASSUME InputsAre, EqualNodes(machine)
  PROVE  /\ RowsOf(CoreRows, TotalNodes, CoresEach)
         /\ \A n \in Nodes : CoreRows[n] \subseteq machine.cpus[n]
         /\ Cardinality(CoresOf(Contexts)) = TotalNodes * CoresEach
<1>1. ASSUME NEW n \in Nodes
      PROVE  /\ CoreRows[n] = CoresOf(machine.cpus[n])
             /\ CoreRows[n] \subseteq machine.cpus[n] /\ CoreRows[n] \subseteq Contexts
             /\ IsFiniteSet(CoreRows[n]) /\ CoreRows[n] \subseteq Nat
             /\ Cardinality(CoreRows[n]) = CoresEach /\ CoreRows[n] # {}
  <2>1. CoreRows[n] = CoresOf(machine.cpus[n])
    BY DEF CoreRows
  <2>2. CoreRows[n] \subseteq machine.cpus[n]
    BY <2>1 DEF CoresOf, LeastOf
  <2>3. CoreRows[n] \subseteq Contexts /\ CoreRows[n] \subseteq Nat
    BY <2>2, NodesAre
  <2>4. IsFiniteSet(CoreRows[n])
    BY <2>3, NodesAre, FS_Subset
  <2>5. Cardinality(CoreRows[n]) = CoresEach /\ CoreRows[n] # {}
    <3>1. 0 \in Nodes
      BY NodesAre
    <3> QED BY <2>1, <3>1 DEF EqualNodes, CoresEach, CoresOf, Nodes
  <2> QED BY <2>1, <2>2, <2>3, <2>4, <2>5
<1>2. CoresEach \in Nat \ {0}
  <2>1. 0 \in Nodes
    BY NodesAre
  <2> QED BY <1>1, <2>1, FS_CardinalityType, FS_EmptySet
<1>3. RowsOf(CoreRows, TotalNodes, CoresEach)
  BY <1>1, <1>2, NodesAre DEF RowsOf
<1>4. \A n, o \in 0 .. TotalNodes - 1 : n # o => CoreRows[n] \cap CoreRows[o] = {}
  <2> TAKE n, o \in 0 .. TotalNodes - 1
  <2>1. n # o => machine.cpus[n] \cap machine.cpus[o] = {}
    BY NodesAre
  <2>2. CoreRows[n] \subseteq machine.cpus[n] /\ CoreRows[o] \subseteq machine.cpus[o]
    BY <1>1, NodesAre
  <2> QED BY <2>1, <2>2
<1>5. \A y : y \in CoresOf(Contexts) <=> \E n \in 0 .. TotalNodes - 1 : y \in CoreRows[n]
  <2>1. \A y : \A n \in Nodes :
          y \in CoreRows[n] <=> y \in machine.cpus[n] /\ y \in CoresOf(Contexts)
    <3> TAKE y
    <3> TAKE n \in Nodes
    <3>1. machine.cpus[n] \subseteq Contexts
      BY NodesAre
    <3> QED BY <1>1, <3>1 DEF CoresOf, LeastOf
  <2>2. \A y \in CoresOf(Contexts) : \E n \in Nodes : y \in machine.cpus[n]
    BY NodesAre DEF CoresOf, LeastOf
  <2> QED BY <2>1, <2>2, NodesAre
<1>6. Cardinality(CoresOf(Contexts)) = TotalNodes * CoresEach
  BY <1>3, <1>4, <1>5, LayoutCount
<1> QED BY <1>1, <1>3, <1>6

\* The first core of a node is one of its contexts.
LEMMA FirstCore ==
  ASSUME InputsAre, EqualNodes(machine), NEW n \in Nodes
  PROVE  /\ n * CoresEach \in 0 .. TotalNodes * CoresEach - 1
         /\ (n * CoresEach) \div CoresEach = n
         /\ At(CoreRows, CoresEach, n * CoresEach) \in machine.cpus[n]
         /\ PackageOf(n) \in Packages /\ PackageOf(n) \in Nat
<1>1. TotalNodes \in Nat /\ CoresEach \in Nat \ {0} /\ n \in 0 .. TotalNodes - 1
  BY CoreRowsAre, NodesAre DEF RowsOf
<1>2. n * CoresEach + 0 = n * CoresEach /\ 0 \in 0 .. CoresEach - 1
  BY <1>1
<1>3. n * CoresEach \in 0 .. TotalNodes * CoresEach - 1 /\ (n * CoresEach) \div CoresEach = n
  BY <1>1, <1>2, Join
<1>4. At(CoreRows, CoresEach, n * CoresEach) \in machine.cpus[n]
  BY <1>3, CoreRowsAre, Layout
<1>5. At(CoreRows, CoresEach, n * CoresEach) \in Contexts
  BY <1>4, NodesAre
<1> QED BY <1>3, <1>4, <1>5, NodesAre DEF PackageOf, Packages

\* With equal sockets the nodes are Sockets rows of NodesEach; a node is in the
\* row of its package.
LEMMA SocketRowsAre ==
  ASSUME InputsAre, EqualNodes(machine), EqualSockets(machine)
  PROVE  /\ Packages = 0 .. Sockets - 1 /\ RowsOf(SocketRows, Sockets, NodesEach)
         /\ \A s \in Packages : SocketRows[s] = {n \in Nodes : PackageOf(n) = s}
         /\ Sockets \in Nat \ {0} /\ NodesEach \in Nat \ {0}
         /\ TotalNodes = Sockets * NodesEach
<1>1. /\ Packages = 0 .. Sockets - 1
      /\ \A s, r \in Packages : Cardinality(NodesOf(s)) = Cardinality(NodesOf(r))
      /\ \A n \in Nodes : \A c, d \in machine.cpus[n] : machine.package[c] = machine.package[d]
  BY DEF EqualSockets, Packages, Sockets, NodesOf, Contexts, Nodes
<1>2. \A s \in Packages : SocketRows[s] = NodesOf(s)
  BY DEF SocketRows
<1>3. ASSUME NEW s \in Packages
      PROVE  NodesOf(s) = {n \in Nodes : PackageOf(n) = s}
  <2>1. ASSUME NEW n \in Nodes
        PROVE  (\E c \in machine.cpus[n] : machine.package[c] = s) <=> PackageOf(n) = s
    <3>1. At(CoreRows, CoresEach, n * CoresEach) \in machine.cpus[n]
      BY FirstCore
    <3> QED BY <3>1, <1>1 DEF PackageOf
  <2> QED BY <2>1 DEF NodesOf, NodesIn, Nodes
<1>4. IsFiniteSet(Packages) /\ Packages # {} /\ Packages \subseteq Nat
  <2> DEFINE f == [c \in Contexts |-> machine.package[c]]
  <2>1. f \in Surjection(Contexts, Packages)
    BY DEF Surjection, Packages
  <2>2. IsFiniteSet(Packages)
    BY <2>1, NodesAre, FS_Surjection
  <2> QED BY <2>2, NodesAre DEF Packages
<1>5. Sockets \in Nat \ {0} /\ 0 \in Packages
  <2>1. Sockets \in Nat \ {0}
    BY <1>4, FS_CardinalityType, FS_EmptySet DEF Sockets
  <2> QED BY <2>1, <1>1
<1>6. \A s \in Packages : Cardinality(SocketRows[s]) = NodesEach
  BY <1>1, <1>2, <1>5 DEF NodesEach
<1>7. ASSUME NEW s \in Packages
      PROVE  SocketRows[s] \subseteq Nat /\ IsFiniteSet(SocketRows[s]) /\ SocketRows[s] # {}
  <2>1. SocketRows[s] \subseteq Nodes
    BY <1>2, <1>3
  <2>2. SocketRows[s] # {}
    <3>1. PICK c \in Contexts : machine.package[c] = s
      BY DEF Packages
    <3>2. PICK n \in Nodes : c \in machine.cpus[n]
      BY NodesAre
    <3> QED BY <1>2, <3>1, <3>2 DEF NodesOf, NodesIn, Nodes
  <2> QED BY <2>1, <2>2, NodesAre, FS_Subset
<1>8. NodesEach \in Nat \ {0}
  BY <1>5, <1>6, <1>7, FS_CardinalityType, FS_EmptySet
<1>9. RowsOf(SocketRows, Sockets, NodesEach)
  BY <1>1, <1>5, <1>6, <1>7, <1>8 DEF RowsOf
<1>10. TotalNodes = Sockets * NodesEach
  <2>1. \A r, s \in 0 .. Sockets - 1 : r # s => SocketRows[r] \cap SocketRows[s] = {}
    BY <1>1, <1>2, <1>3
  <2>2. \A y : y \in Nodes <=> \E s \in 0 .. Sockets - 1 : y \in SocketRows[s]
    <3>1. \A n \in Nodes : PackageOf(n) \in Packages
      BY FirstCore
    <3> QED BY <3>1, <1>1, <1>2, <1>3
  <2> QED BY <1>9, <2>1, <2>2, LayoutCount DEF TotalNodes
<1> QED BY <1>1, <1>2, <1>3, <1>5, <1>8, <1>9, <1>10

-----------------------------------------------------------------------------
(* The cores.                                                              *)

\* What the machine is does not change.
LEMMA MachineStays ==
  ASSUME [Next]_vars
  PROVE  /\ UNCHANGED <<machine, Contexts, Nodes, TotalNodes>>
         /\ UNCHANGED <<CoreRows, CoresEach>>
         /\ UNCHANGED <<Packages, Sockets, SocketRows, NodesEach>>
         /\ \A n : PackageOf(n)' = PackageOf(n)
<1>1. machine' = machine
  BY InputsStay
<1>2. UNCHANGED <<Contexts, Nodes, TotalNodes>>
  BY <1>1 DEF Contexts, Nodes, TotalNodes
<1>3. UNCHANGED <<CoreRows, CoresEach>>
  BY <1>1 DEF CoreRows, CoresEach, CoresOf, LeastOf, Nodes
<1>4. UNCHANGED <<Packages, Sockets, SocketRows, NodesEach>>
  BY <1>1 DEF Packages, Sockets, SocketRows, NodesEach, NodesOf, NodesIn, Contexts
<1>5. \A n : PackageOf(n)' = PackageOf(n)
  BY <1>1, <1>3 DEF PackageOf, At
<1> QED BY <1>1, <1>2, <1>3, <1>4, <1>5

\* core_cnt is the width of the rows.
LEMMA CoreCntIs ==
  ASSUME InputsAre, EqualNodes(machine), CoresCounted
  PROVE  core_cnt = CoresEach
<1>1. TotalNodes \in Nat \ {0} /\ CoresEach \in Nat \ {0}
  BY CoreRowsAre, NodesAre DEF RowsOf
<1>2. core_cnt = (TotalNodes * CoresEach) \div TotalNodes
  BY CoreRowsAre DEF CoresCounted
<1>3. \A a, b \in Nat \ {0} : (a * b) \div a = b
  OBVIOUS
<1> QED BY <1>1, <1>2, <1>3

\* The array of cores has a place for every core of every row.
LEMMA AllocIs ==
  ASSUME InputsAre, EqualNodes(machine), CoresFound
  PROVE  TotalCores = TotalNodes * CoresEach
BY CoreRowsAre DEF CoresFound, TotalCores

\* What is read of node n is its row.
LEMMA RowIs ==
  ASSUME InputsAre, EqualNodes(machine), CoresFound, NEW n \in Nodes
  PROVE  /\ Row(n) = Ascending(CoreRows[n])
         /\ Row(n) \in Seq(Contexts) /\ Len(Row(n)) = CoresEach
<1>1. {c \in machine.cpus[n] : IsCore(c)} = CoresOf(machine.cpus[n])
  <2>1. machine.cpus[n] \subseteq Contexts
    BY NodesAre
  <2>2. \A c \in Contexts : IsCore(c) <=> c \in CoresOf(Contexts)
    BY DEF CoresFound
  <2> QED BY <2>1, <2>2 DEF CoresOf, LeastOf
<1>2. Row(n) = Ascending(CoreRows[n])
  BY <1>1 DEF Row, CoreRows
<1>3. /\ CoreRows[n] \subseteq Contexts /\ CoreRows[n] \in SUBSET Nat
      /\ IsFiniteSet(CoreRows[n]) /\ Cardinality(CoreRows[n]) = CoresEach
  BY CoreRowsAre, NodesAre DEF RowsOf
<1>4. Ascending(CoreRows[n]) \in Seq(CoreRows[n]) /\ Len(Ascending(CoreRows[n])) = CoresEach
  BY <1>3, AscendingIs
<1> QED BY <1>2, <1>3, <1>4

\* The array of cores after the row of node n.
LEMMA StoreRow ==
  ASSUME InputsAre, EqualNodes(machine), NEW n \in Nodes, CoresStored(n)
  PROVE  Stored(cores, n * CoresEach, Ascending(CoreRows[n])) =
           [x \in 0 .. TotalNodes * CoresEach - 1 |->
              IF x \div CoresEach < n + 1 THEN At(CoreRows, CoresEach, x) ELSE Unset]
<1> DEFINE D == 0 .. TotalNodes * CoresEach - 1
           s == Ascending(CoreRows[n])
<1>1. TotalNodes \in Nat /\ CoresEach \in Nat \ {0} /\ n \in Nat
  BY CoreRowsAre, NodesAre DEF RowsOf
<1>2. Len(s) = CoresEach
  <2>1. /\ CoreRows[n] \in SUBSET Nat /\ IsFiniteSet(CoreRows[n])
        /\ Cardinality(CoreRows[n]) = CoresEach
    BY CoreRowsAre, NodesAre DEF RowsOf
  <2> QED BY <2>1, AscendingIs
<1>3. DOMAIN cores = D
  BY DEF CoresStored
<1>4. ASSUME NEW x \in D
      PROVE  (IF x - n * CoresEach \in 0 .. Len(s) - 1 THEN s[x - n * CoresEach + 1] ELSE cores[x])
               = IF x \div CoresEach < n + 1 THEN At(CoreRows, CoresEach, x) ELSE Unset
  <2>1. /\ x \div CoresEach \in 0 .. TotalNodes - 1 /\ x % CoresEach \in 0 .. CoresEach - 1
        /\ x = (x \div CoresEach) * CoresEach + (x % CoresEach)
    BY <1>1, Split, Zenon
  <2>2. CASE x \div CoresEach = n
    <3>1. x - n * CoresEach = x % CoresEach
      BY <1>1, <2>1, <2>2
    <3>2. x - n * CoresEach \in 0 .. Len(s) - 1
      BY <1>2, <2>1, <3>1
    <3>3. s[x - n * CoresEach + 1] = At(CoreRows, CoresEach, x)
      BY <2>2, <3>1 DEF At
    <3> QED BY <1>1, <2>2, <3>2, <3>3
  <2>3. CASE x \div CoresEach # n
    <3>1. x - n * CoresEach \notin 0 .. CoresEach - 1
      <4> SUFFICES ASSUME x - n * CoresEach \in 0 .. CoresEach - 1 PROVE FALSE
        OBVIOUS
      <4> DEFINE b == x - n * CoresEach
      <4>1. x = n * CoresEach + b /\ n \in 0 .. TotalNodes - 1
        BY <1>1, NodesAre
      <4> HIDE DEF b
      <4> QED BY <1>1, <2>3, <4>1, Join DEF b
    <3>2. x \div CoresEach < n + 1 <=> x \div CoresEach < n
      BY <1>1, <2>1, <2>3
    <3>3. cores[x] = IF x \div CoresEach < n THEN At(CoreRows, CoresEach, x) ELSE Unset
      BY DEF CoresStored
    <3> QED BY <1>2, <3>1, <3>2, <3>3
  <2> QED BY <2>2, <2>3
<1> HIDE DEF s
<1> QED BY <1>3, <1>4 DEF Stored, s

\* Nothing is stored before the first node, and every entry after the last.
LEMMA StoredEnds ==
  ASSUME InputsAre, EqualNodes(machine)
  PROVE  /\ CoresStored(0) <=> cores = [x \in 0 .. TotalNodes * CoresEach - 1 |-> Unset]
         /\ CoresStored(TotalNodes) <=>
              cores = [x \in 0 .. TotalNodes * CoresEach - 1 |-> At(CoreRows, CoresEach, x)]
<1>1. \A x \in 0 .. TotalNodes * CoresEach - 1 : x \div CoresEach \in 0 .. TotalNodes - 1
  BY CoreRowsAre, Layout
<1>2. TotalNodes \in Nat
  BY NodesAre
<1>3. \A x \in 0 .. TotalNodes * CoresEach - 1 :
        ~(x \div CoresEach < 0) /\ x \div CoresEach < TotalNodes
  BY <1>1, <1>2
<1> QED BY <1>3 DEF CoresStored

\* The package of a node is that of its first core.
LEMMA PackageIs ==
  ASSUME InputsAre, EqualNodes(machine), CoresCounted, CoresStored(TotalNodes), NEW n \in Nodes
  PROVE  /\ Package(n) = PackageOf(n)
         /\ n * core_cnt \in DOMAIN cores /\ cores[n * core_cnt] # Unset
<1>1. n * CoresEach \in DOMAIN cores
      /\ cores[n * CoresEach] = At(CoreRows, CoresEach, n * CoresEach)
  BY FirstCore, StoredEnds
<1>2. At(CoreRows, CoresEach, n * CoresEach) \in Nat
  BY FirstCore, NodesAre
<1> QED BY <1>1, <1>2, CoreCntIs, UnsetAssumption DEF Package, PackageOf

\* The largest package of one node more.
LEMMA LargestIs ==
  ASSUME InputsAre, EqualNodes(machine), NEW k \in Nodes, NEW v, Largest(v, k)
  PROVE  /\ v \in Int /\ v >= -1
         /\ Largest(IF PackageOf(k) > v THEN PackageOf(k) ELSE v, k + 1)
<1>1. k \in Nat /\ \A n \in 0 .. k : n \in Nodes /\ PackageOf(n) \in Nat
  BY NodesAre, FirstCore
<1>2. v \in Int /\ v >= -1
  BY <1>1 DEF Largest
<1>3. \A n : n \in 0 .. k + 1 - 1 <=> n \in 0 .. k - 1 \/ n = k
  BY <1>1
<1> QED BY <1>1, <1>2, <1>3 DEF Largest

\* The node whose list is read has its row stored, and after the last node the
\* largest package is sought, from -1.
LEMMA ReadNodeCpusBuilds ==
  ASSUME InputsAre, EqualNodes(machine), SysfsRead, CoresBuilt, ReadNodeCpus, [Next]_vars
  PROVE  CoresBuilt'
<1>1. /\ pc = "node_cpus" /\ i \in Nodes /\ CoresStored(i) /\ CoresFound /\ CoresCounted
      /\ cores' = Stored(cores, i * core_cnt, Row(i))
      /\ IF i = TotalNodes - 1 THEN pc' = "packages" /\ i' = 0 /\ socket_cnt' = -1
                               ELSE pc' = pc /\ i' = i + 1
  BY DEF ReadNodeCpus, CoresBuilt, SysfsRead
<1>2. UNCHANGED <<machine, Nodes, TotalNodes, CoreRows, CoresEach>>
  BY MachineStays
<1>3. cores' = [x \in 0 .. TotalNodes * CoresEach - 1 |->
                  IF x \div CoresEach < i + 1 THEN At(CoreRows, CoresEach, x) ELSE Unset]
  <2>1. cores' = Stored(cores, i * CoresEach, Ascending(CoreRows[i]))
    BY <1>1, RowIs, CoreCntIs
  <2> QED BY <1>1, <2>1, StoreRow
<1>4. TotalNodes \in Nat \ {0} /\ i \in 0 .. TotalNodes - 1 /\ Nodes = 0 .. TotalNodes - 1
  BY <1>1, NodesAre
<1>5. CASE i = TotalNodes - 1
  <2>1. pc' = "packages" /\ i' = 0 /\ socket_cnt' = -1 /\ i + 1 = TotalNodes
    BY <1>1, <1>4, <1>5
  <2>2. CoresStored(TotalNodes)'
    BY <1>2, <1>3, <2>1 DEF CoresStored, At
  <2>3. Largest(socket_cnt, i)'
    BY <2>1 DEF Largest
  <2>4. (i \in Nodes)'
    BY <1>2, <1>4, <2>1
  <2> QED BY <2>1, <2>2, <2>3, <2>4 DEF CoresBuilt, SysfsSucceeded
<1>6. CASE i # TotalNodes - 1
  <2>1. pc' = "node_cpus" /\ i' = i + 1 /\ i + 1 \in Nodes
    BY <1>1, <1>4, <1>6
  <2>2. CoresStored(i)'
    BY <1>2, <1>3, <2>1 DEF CoresStored, At
  <2>3. (i \in Nodes)'
    BY <1>2, <2>1
  <2> QED BY <2>1, <2>2, <2>3 DEF CoresBuilt, SysfsSucceeded
<1> QED BY <1>5, <1>6

\* The package of one node more is looked at; the largest of all, plus 1, is
\* the number of sockets.
LEMMA ReadPackageBuilds ==
  ASSUME InputsAre, EqualNodes(machine), SysfsRead, CoresBuilt, ReadPackage, [Next]_vars
  PROVE  CoresBuilt'
<1> DEFINE largest == IF PackageOf(i) > socket_cnt THEN PackageOf(i) ELSE socket_cnt
<1>1. /\ pc = "packages" /\ i \in Nodes /\ CoresStored(TotalNodes) /\ CoresCounted
      /\ Largest(socket_cnt, i) /\ cores' = cores
  BY DEF ReadPackage, CoresBuilt, SysfsRead
<1>2. /\ UNCHANGED <<machine, Nodes, TotalNodes, CoreRows, CoresEach>>
      /\ \A n : PackageOf(n)' = PackageOf(n)
  BY MachineStays
<1>3. Package(i) = PackageOf(i)
  BY <1>1, PackageIs
<1>4. IF i = TotalNodes - 1
      THEN pc' = "alloc_nodes" /\ i' = 0 /\ socket_cnt' = largest + 1
      ELSE pc' = "packages" /\ i' = i + 1 /\ socket_cnt' = largest
  BY <1>3 DEF ReadPackage, Iterate
<1>5. Largest(largest, i + 1)
  BY <1>1, LargestIs
<1>6. TotalNodes \in Nat \ {0} /\ i \in 0 .. TotalNodes - 1 /\ Nodes = 0 .. TotalNodes - 1
  BY <1>1, NodesAre
<1>7. largest \in Nat
  BY <1>1, LargestIs, FirstCore
<1>8. CoresStored(TotalNodes)'
  BY <1>1, <1>2 DEF CoresStored, At
<1> HIDE DEF largest
<1>9. CASE i = TotalNodes - 1
  <2>1. pc' = "alloc_nodes" /\ i' = 0 /\ socket_cnt' - 1 = largest /\ socket_cnt' \in Nat \ {0}
        /\ i + 1 = TotalNodes
    BY <1>4, <1>6, <1>7, <1>9
  <2>2. Largest(socket_cnt - 1, TotalNodes)'
    BY <1>2, <1>5, <2>1 DEF Largest
  <2> QED BY <1>8, <2>1, <2>2 DEF CoresBuilt, SysfsSucceeded
<1>10. CASE i # TotalNodes - 1
  <2>1. pc' = "packages" /\ i' = i + 1 /\ socket_cnt' = largest /\ i + 1 \in Nodes
    BY <1>4, <1>6, <1>10
  <2>2. Largest(socket_cnt, i)'
    BY <1>2, <1>5, <2>1 DEF Largest
  <2>3. (i \in Nodes)'
    BY <1>2, <2>1
  <2> QED BY <1>8, <2>1, <2>2, <2>3 DEF CoresBuilt, SysfsSucceeded
<1> QED BY <1>9, <1>10

\* Every step keeps CoresBuilt.
LEMMA CoresBuiltStep ==
  ASSUME InputsAre, EqualNodes(machine), SysfsRead, CoresBuilt, [Next]_vars
  PROVE  CoresBuilt'
<1>0. /\ UNCHANGED <<machine, Nodes, TotalNodes, CoreRows, CoresEach>>
      /\ \A n : PackageOf(n)' = PackageOf(n)
      /\ TotalNodes \in Nat \ {0} /\ Nodes = 0 .. TotalNodes - 1
  BY MachineStays, NodesAre
<1>1. ASSUME UNCHANGED cores
      PROVE  CoresStored(TotalNodes)' <=> CoresStored(TotalNodes)
  BY <1>0, <1>1 DEF CoresStored, At
<1>2. ASSUME UNCHANGED socket_cnt
      PROVE  Largest(socket_cnt - 1, TotalNodes)' <=> Largest(socket_cnt - 1, TotalNodes)
  BY <1>0, <1>2 DEF Largest
<1>3. CASE UNCHANGED vars
  <2>1. UNCHANGED <<parser, pc, i, cores, socket_cnt, ret>>
    BY <1>3 DEF vars
  <2>2. CoresStored(i)' <=> CoresStored(i)
    BY <1>0, <2>1 DEF CoresStored, At
  <2>3. Largest(socket_cnt, i)' <=> Largest(socket_cnt, i)
    BY <1>0, <2>1 DEF Largest
  <2> QED BY <1>0, <1>1, <1>2, <2>1, <2>2, <2>3 DEF CoresBuilt, SysfsSucceeded
<1>4. CASE ConfUnreadable \/ ConfBadLine
  BY <1>4 DEF ConfUnreadable, ConfBadLine, ConfFails, CoresBuilt, SysfsSucceeded
<1>5. CASE ConfLine
  BY <1>5 DEF ConfLine, InLine, CoresBuilt, SysfsSucceeded
<1>6. CASE ConfEnd
  <2>1. pc = "lines" /\ parser = "conf"
    BY <1>6 DEF ConfEnd, ConfEndChecking, SysfsRead
  <2> QED BY <1>6, <2>1 DEF ConfEnd, ConfEndChecking, ConfFails, Return, CoresBuilt, SysfsSucceeded
<1>7. CASE ReadFails
  BY <1>7 DEF ReadFails, Return, CoresBuilt, SysfsSucceeded
<1>8. CASE ReadOnline
  BY <1>8 DEF ReadOnline, CoresBuilt, SysfsSucceeded
<1>9. CASE SkipContext \/ ReadSiblings
  <2>1. NextContext
    BY <1>9 DEF SkipContext, ReadSiblings
  <2> QED BY <2>1 DEF NextContext, Iterate, CoresBuilt, SysfsSucceeded
<1>10. CASE AllocCores
  <2>1. /\ pc = "alloc_cores" /\ i = 0 /\ i' = i /\ CoresFound
        /\ \/ pc' = "node_cpus" /\ cores' = [x \in 0 .. TotalCores - 1 |-> Unset]
           \/ pc' = "done" /\ ret' = 3
    BY <1>10 DEF AllocCores, AllocRows, Return, CoresBuilt, SysfsRead
  <2>2. CASE pc' = "done" /\ ret' = 3
    BY <2>2 DEF CoresBuilt, SysfsSucceeded
  <2>3. CASE pc' = "node_cpus" /\ cores' = [x \in 0 .. TotalCores - 1 |-> Unset]
    <3>1. CoresEach \in Nat \ {0}
      BY CoreRowsAre DEF RowsOf
    <3>2. \A x \in 0 .. TotalNodes * CoresEach - 1 : x \div CoresEach \in Nat
      BY CoreRowsAre, Layout
    <3>3. \A x \in 0 .. TotalNodes * CoresEach - 1 : ~(x \div CoresEach < 0)
      BY <3>2
    <3>4. cores' = [x \in 0 .. TotalNodes * CoresEach - 1 |-> Unset]
      BY <2>1, <2>3, AllocIs
    <3>5. CoresStored(i)'
      BY <1>0, <2>1, <3>3, <3>4 DEF CoresStored
    <3>6. (i \in Nodes)'
      BY <1>0, <2>1
    <3> QED BY <2>3, <3>5, <3>6 DEF CoresBuilt, SysfsSucceeded
  <2> QED BY <2>1, <2>2, <2>3
<1>11. CASE ReadNodeCpus
  BY <1>11, ReadNodeCpusBuilds
<1>12. CASE ReadPackage
  BY <1>12, ReadPackageBuilds
<1>13. CASE AllocNodes
  <2>1. pc = "alloc_nodes" /\ pc' = "assign" /\ i = 0 /\ UNCHANGED <<i, cores, socket_cnt>>
    BY <1>13 DEF AllocNodes, CoresBuilt
  <2>2. CoresStored(TotalNodes) /\ socket_cnt \in Nat \ {0} /\ Largest(socket_cnt - 1, TotalNodes)
    BY <2>1 DEF CoresBuilt
  <2>3. (i \in 0 .. socket_cnt * TotalNodes - 1)'
    BY <1>0, <2>1, <2>2
  <2> QED BY <1>1, <1>2, <2>1, <2>2, <2>3 DEF CoresBuilt, SysfsSucceeded
<1>14. CASE Assign
  <2>1. /\ pc = "assign" /\ UNCHANGED <<parser, cores, socket_cnt>>
        /\ \/ pc' = "done" /\ UNCHANGED i
           \/ pc' = pc /\ i # socket_cnt * TotalNodes - 1 /\ i' = i + 1
    BY <1>14 DEF Assign, AssignFrom, Return, counts
  <2>2. /\ CoresStored(TotalNodes) /\ socket_cnt \in Nat \ {0}
        /\ Largest(socket_cnt - 1, TotalNodes) /\ i \in 0 .. socket_cnt * TotalNodes - 1
    BY <2>1 DEF CoresBuilt
  <2>3. pc' = "assign" => (i \in 0 .. socket_cnt * TotalNodes - 1)'
    BY <1>0, <2>1, <2>2
  <2> QED BY <1>1, <1>2, <2>1, <2>2, <2>3 DEF CoresBuilt, SysfsSucceeded
<1>15. CASE AssignCrashes \/ Log \/ LogUndefined
  BY <1>15 DEF AssignCrashes, Log, LogUndefined, CoresBuilt, SysfsSucceeded
<1> QED BY <1>3, <1>4, <1>5, <1>6, <1>7, <1>8, <1>9, <1>10, <1>11, <1>12, <1>13, <1>14, <1>15
        DEF Next, Stopped

-----------------------------------------------------------------------------
(* Types.                                                                  *)

\* The entries of an array, before or after numbers are stored into it.
Entries(a) == \A x \in DOMAIN a : a[x] \in Nat \cup {Unset}

\* Numbers that are stored into an array of numbers leave it one.
LEMMA StoredEntries ==
  ASSUME NEW a, Entries(a), NEW s \in Seq(Nat), NEW base
  PROVE  Entries(Stored(a, base, s))
<1>1. Len(s) \in Nat /\ \A k \in 1 .. Len(s) : s[k] \in Nat
  OBVIOUS
<1>2. \A z : z \in 0 .. Len(s) - 1 => s[z + 1] \in Nat
  BY <1>1
<1> QED BY <1>2 DEF Entries, Stored

\* Array(s) has numbers if s has.
LEMMA ArrayEntries ==
  ASSUME NEW s \in Seq(Nat)
  PROVE  Entries(Array(s))
<1>1. Len(s) \in Nat /\ \A k \in 1 .. Len(s) : s[k] \in Nat
  OBVIOUS
<1>2. \A z : z \in 0 .. Len(s) - 1 => s[z + 1] \in Nat
  BY <1>1
<1> QED BY <1>2 DEF Entries, Array

\* What a line of the configuration file gives has the types of the outputs.
LEMMA ConfLineTypes ==
  ASSUME InputsAre, FileRead, SysfsRead, TypeOK, ConfLine
  PROVE  /\ Entries(nodes)' /\ Entries(cores)'
         /\ socket_cnt' \in Nat \cup {-1} /\ node_cnt' \in Nat /\ core_cnt' \in Nat
<1>1. pc = "lines" /\ parser = "conf" /\ conf # NoConf /\ i \in Nat /\ i + 1 \in 1 .. Len(conf)
  BY FileIs DEF ConfLine, InLine, SysfsRead, FileRead
<1>2. Line.tag \in {"s", "n", "c"} => Line.values \in Seq(Nat)
  BY <1>1, FileIs DEF ConfLine, Line
<1>3. Entries(nodes) /\ Entries(cores) /\ UNCHANGED conf
  BY DEF TypeOK, Entries, ConfLine
<1>4. Entries(nodes)'
  <2>1. CASE Line.tag = "n"
    <3>1. nodes' = Array(Line.values)
      BY <2>1 DEF ConfLine
    <3>2. Entries(Array(Line.values))
      BY <1>2, <2>1, ArrayEntries
    <3> QED BY <3>1, <3>2 DEF Entries
  <2>2. CASE Line.tag # "n"
    BY <1>3, <2>2 DEF ConfLine, Entries
  <2> QED BY <2>1, <2>2
<1>5. Entries(cores)'
  <2>1. CASE Line.tag = "c"
    <3>1. cores' = Array(Line.values)
      BY <2>1 DEF ConfLine
    <3>2. Entries(Array(Line.values))
      BY <1>2, <2>1, ArrayEntries
    <3> QED BY <3>1, <3>2 DEF Entries
  <2>2. CASE Line.tag # "c"
    BY <1>3, <2>2 DEF ConfLine, Entries
  <2> QED BY <2>1, <2>2
<1>6. socket_cnt' \in Nat \cup {-1} /\ node_cnt' \in Nat /\ core_cnt' \in Nat
  <2>1. CASE Line.tag = "s"
    <3>1. Line.values \in Seq(Nat) /\ Len(Line.values) = 3
      BY <1>2, <2>1 DEF ConfLine
    <3>2. Line.values[1] \in Nat /\ Line.values[2] \in Nat /\ Line.values[3] \in Nat
      BY <3>1
    <3> QED BY <2>1, <3>2 DEF ConfLine
  <2>2. CASE Line.tag # "s"
    BY <2>2 DEF ConfLine, TypeOK, counts
  <2> QED BY <2>1, <2>2
<1> QED BY <1>4, <1>5, <1>6

\* The loop counter is a natural number: every step leaves it, adds 1 to it or
\* sets it to 0.
LEMMA CounterStep ==
  ASSUME InputsAre, FileRead, SysfsRead, CoresBuilt, TypeOK, [Next]_vars
  PROVE  i \in Nat /\ i' \in Nat
<1>1. i \in Nat
  <2>1. pc = "lines" => i \in Nat
    BY FileIs DEF FileRead, SysfsRead
  <2>2. pc \in {"contexts", "node_cpus", "packages"} => i \in Nat
    BY MachineIs, NodesAre DEF SysfsRead, CoresBuilt
  <2> QED BY <2>1, <2>2 DEF TypeOK
<1>2. i' \in {i, i + 1, 0}
  BY DEF Next, vars, ConfUnreadable, ConfBadLine, ConfLine, ConfEnd, ConfEndChecking,
         ConfFails, Return, ReadFails, ReadOnline, SkipContext, ReadSiblings, NextContext,
         Iterate, AllocCores, AllocRows, ReadNodeCpus, ReadPackage, AllocNodes, Assign,
         AssignFrom, AssignCrashes, Log, LogUndefined, Stopped
<1> QED BY <1>1, <1>2

\* The outputs keep their types.
LEMMA OutputsStep ==
  ASSUME InputsAre, EqualNodes(machine), FileRead, SysfsRead, CoresBuilt, TypeOK, Next
  PROVE  /\ Entries(nodes)' /\ Entries(cores)'
         /\ socket_cnt' \in Nat \cup {-1} /\ node_cnt' \in Nat /\ core_cnt' \in Nat
<1>0. /\ Entries(nodes) /\ Entries(cores)
      /\ socket_cnt \in Nat \cup {-1} /\ node_cnt \in Nat /\ core_cnt \in Nat
      /\ TotalNodes \in Nat \ {0}
  BY NodesAre DEF TypeOK, Entries
<1>1. CASE UNCHANGED <<nodes, cores, socket_cnt, node_cnt, core_cnt>>
  BY <1>0, <1>1 DEF Entries
<1>2. CASE ConfLine
  BY <1>2, ConfLineTypes
<1>3. CASE AllocCores
  <2>1. /\ UNCHANGED <<nodes, socket_cnt, node_cnt>> /\ CoresFound
        /\ core_cnt' = TotalCores \div TotalNodes
        /\ cores' = [x \in 0 .. TotalCores - 1 |-> Unset] \/ cores' = <<>>
    BY <1>3 DEF AllocCores, AllocRows, SysfsRead
  <2>2. TotalCores \in Nat
    BY <2>1, AllocIs, CoreRowsAre DEF RowsOf
  <2>3. core_cnt' \in Nat
    BY <1>0, <2>1, <2>2
  <2>4. Entries(cores)'
    BY <2>1, <2>2 DEF Entries
  <2> QED BY <1>0, <2>1, <2>3, <2>4 DEF Entries
<1>4. CASE ReadNodeCpus
  <2>1. /\ UNCHANGED <<nodes, node_cnt, core_cnt>> /\ i \in Nodes /\ CoresFound
        /\ cores' = Stored(cores, i * core_cnt, Row(i)) /\ socket_cnt' \in {socket_cnt, -1}
    BY <1>4 DEF ReadNodeCpus, CoresBuilt, SysfsRead
  <2>2. Row(i) \in Seq(Nat)
    BY <2>1, RowIs, NodesAre
  <2>3. Entries(Stored(cores, i * core_cnt, Row(i)))
    BY <1>0, <2>2, StoredEntries
  <2>4. Entries(cores)'
    BY <2>1, <2>3 DEF Entries
  <2> QED BY <1>0, <2>1, <2>4 DEF Entries
<1>5. CASE ReadPackage
  <2>1. UNCHANGED <<nodes, cores, node_cnt, core_cnt>> /\ i \in Nodes
        /\ CoresStored(TotalNodes) /\ CoresCounted
    BY <1>5 DEF ReadPackage, CoresBuilt, SysfsRead
  <2>2. Package(i) \in Nat
    BY <2>1, PackageIs, FirstCore
  <2>3. socket_cnt' \in Nat \cup {-1}
    BY <1>0, <1>5, <2>2 DEF ReadPackage
  <2> QED BY <1>0, <2>1, <2>3 DEF Entries
<1>6. CASE AllocNodes
  <2>1. /\ UNCHANGED <<cores, socket_cnt, core_cnt>> /\ socket_cnt \in Nat \ {0}
        /\ node_cnt' = TotalNodes \div socket_cnt
        /\ nodes' \in {[x \in 0 .. TotalNodes - 1 |-> Unset], <<>>}
    BY <1>6 DEF AllocNodes, CoresBuilt
  <2>2. node_cnt' \in Nat
    BY <1>0, <2>1
  <2> QED BY <1>0, <2>1, <2>2 DEF Entries
<1>7. CASE Assign
  <2>1. UNCHANGED <<cores, socket_cnt, node_cnt, core_cnt>>
        /\ \E base : nodes' \in {Stored(nodes, base, <<Node>>), nodes}
    BY <1>7 DEF Assign, AssignFrom, counts
  <2>2. i \in Nat
    BY <1>7, <1>0 DEF Assign, AssignFrom, CoresBuilt
  <2>3. <<Node>> \in Seq(Nat)
    <3>1. Node \in Nat
      BY <1>0, <2>2 DEF Node
    <3> QED BY <3>1
  <2>4. \A base : Entries(Stored(nodes, base, <<Node>>))
    BY <1>0, <2>3, StoredEntries
  <2>5. Entries(nodes)'
    BY <1>0, <2>1, <2>4 DEF Entries
  <2> QED BY <1>0, <2>1, <2>5 DEF Entries
<1>8. CASE \/ ConfUnreadable \/ ConfBadLine \/ ConfEnd \/ ReadFails \/ ReadOnline
           \/ SkipContext \/ ReadSiblings \/ AssignCrashes \/ Log \/ LogUndefined \/ Stopped
  <2>1. UNCHANGED <<nodes, cores, socket_cnt, node_cnt, core_cnt>>
    BY <1>8 DEF ConfUnreadable, ConfBadLine, ConfEnd, ConfEndChecking, ConfFails, ReadFails,
         ReadOnline, SkipContext, ReadSiblings, AssignCrashes, Log, LogUndefined, Stopped,
         counts, vars
  <2> QED BY <2>1, <1>1
<1> QED BY <1>2, <1>3, <1>4, <1>5, <1>6, <1>7, <1>8 DEF Next

\* Something is known of every context when they are met.
AllKnown == pc = "contexts" => ctx_ids \in [Contexts -> {"online", "core", "smt"}]

\* Every step keeps the types.
LEMMA TypeStep ==
  ASSUME InputsAre, EqualNodes(machine), FileRead, SysfsRead, CoresBuilt, AllKnown, TypeOK,
         [Next]_vars
  PROVE  TypeOK' /\ AllKnown'
<1>1. CASE UNCHANGED vars
  BY <1>1 DEF vars, TypeOK, AllKnown, Contexts, Nodes
<1>2. CASE Next
  <2>1. InputsAre' /\ FileRead' /\ SysfsRead' /\ CoresBuilt'
    BY InputsStay, FileReadStep, SysfsReadStep, CoresBuiltStep
  <2>2. i' \in Nat
    BY CounterStep
  <2>3. (/\ pc = "lines" => i \in 0 .. Len(conf)
         /\ pc = "contexts" => i \in Contexts
         /\ pc \in {"node_cpus", "packages"} => i \in Nodes)'
    BY <2>1 DEF FileRead, SysfsRead, CoresBuilt
  <2>4. /\ Entries(nodes)' /\ Entries(cores)'
        /\ socket_cnt' \in Nat \cup {-1} /\ node_cnt' \in Nat /\ core_cnt' \in Nat
    BY <1>2, OutputsStep
  <2>5. parser' \in {"conf", "sysfs"} /\ ret' \in {-1, 0, 2, 3}
        /\ pc' \in {"lines", "online", "contexts", "alloc_cores", "node_cpus", "packages",
                    "alloc_nodes", "assign", "done", "logged", "crashed"}
    BY <1>2 DEF TypeOK, Next, ConfUnreadable, ConfBadLine, ConfLine, ConfEnd,
         ConfEndChecking, ConfFails, Return, ReadFails, ReadOnline, SkipContext, ReadSiblings,
         NextContext, Iterate, AllocCores, AllocRows, ReadNodeCpus, ReadPackage, AllocNodes,
         Assign, AssignFrom, AssignCrashes, Log, LogUndefined, Stopped, vars
  <2>6. (ctx_ids = <<>> \/ ctx_ids \in [Contexts -> {"online", "core", "smt"}])' /\ AllKnown'
    <3>1. UNCHANGED Contexts
      BY MachineStays
    <3>2. CASE ReadOnline
      <4>1. ctx_ids' \in [Contexts -> {"online", "core", "smt"}]
        BY <3>2 DEF ReadOnline
      <4> QED BY <3>1, <4>1 DEF AllKnown
    <3>3. CASE ReadSiblings
      <4>1. ctx_ids \in [Contexts -> {"online", "core", "smt"}]
        BY <3>3 DEF ReadSiblings, AllKnown
      <4>2. ctx_ids' \in [Contexts -> {"online", "core", "smt"}]
        BY <3>3, <4>1 DEF ReadSiblings
      <4> QED BY <3>1, <4>2 DEF AllKnown
    <3>4. CASE SkipContext
      BY <3>1, <3>4 DEF SkipContext, TypeOK, AllKnown
    <3>5. CASE UNCHANGED ctx_ids /\ pc' # "contexts"
      BY <3>1, <3>5 DEF TypeOK, AllKnown
    <3>6. CASE UNCHANGED ctx_ids /\ pc' = pc
      BY <3>1, <3>6 DEF TypeOK, AllKnown
    <3>7. CASE \/ ConfUnreadable \/ ConfBadLine \/ ConfLine \/ ConfEnd \/ ReadFails
               \/ AllocCores \/ ReadNodeCpus \/ ReadPackage \/ AllocNodes \/ Assign
               \/ AssignCrashes \/ Log \/ LogUndefined \/ Stopped
      <4>1. UNCHANGED ctx_ids /\ (pc' # "contexts" \/ pc' = pc)
        BY <3>7 DEF ConfUnreadable, ConfBadLine, ConfLine, ConfEnd, ConfEndChecking, ConfFails,
           Return, ReadFails, AllocCores, AllocRows, ReadNodeCpus, ReadPackage, Iterate,
           AllocNodes, Assign, AssignFrom, AssignCrashes, Log, LogUndefined, Stopped, vars
      <4> QED BY <3>5, <3>6, <4>1
    <3> QED BY <1>2, <3>2, <3>3, <3>4, <3>7 DEF Next
  <2> HIDE DEF Nodes, Contexts
  <2> QED BY <2>2, <2>3, <2>4, <2>5, <2>6 DEF TypeOK, Entries
<1> QED BY <1>1, <1>2

\* What every state of a run on machines with equal nodes satisfies.
CoresInv ==
  /\ InputsAre /\ EqualNodes(machine)
  /\ FileRead /\ SysfsRead /\ CoresBuilt /\ AllKnown /\ TypeOK

\* CoresInv is inductive: reeact_get_topo_sysfs builds the rows of cores.
LEMMA CoresInvHolds ==
  ASSUME \A input \in Inputs : EqualNodes(input[1])
  PROVE  Spec => []CoresInv
<1>1. Init => CoresInv
  <2> SUFFICES ASSUME Init PROVE CoresInv
    OBVIOUS
  <2>1. InputsAre
    BY DEF Init, InputsAre
  <2>2. EqualNodes(machine)
    BY <2>1 DEF InputsAre
  <2>3. /\ parser \in {"conf", "sysfs"} /\ pc \in {"online", "lines"} /\ i = 0
        /\ pc = "lines" => parser = "conf" /\ conf # NoConf
        /\ parser = "conf" => pc = "lines" /\ conf # NoConf
        /\ ctx_ids = <<>> /\ nodes = <<>> /\ cores = <<>>
        /\ socket_cnt = 0 /\ node_cnt = 0 /\ core_cnt = 0 /\ ret = -1
    BY DEF Init
  <2>4. pc = "lines" => 0 \in 0 .. Len(conf)
    BY <2>1, <2>3, FileIs
  <2>5. FileRead
    BY <2>3, <2>4 DEF FileRead, ReadSoFar, counts
  <2>6. SysfsRead /\ CoresBuilt /\ AllKnown
    BY <2>3 DEF SysfsRead, CoresBuilt, AllKnown, SysfsSucceeded
  <2>7. TypeOK
    BY <2>3, <2>4 DEF TypeOK
  <2> QED BY <2>1, <2>2, <2>5, <2>6, <2>7 DEF CoresInv
<1>2. CoresInv /\ [Next]_vars => CoresInv'
  <2> SUFFICES ASSUME CoresInv, [Next]_vars PROVE CoresInv'
    OBVIOUS
  <2>1. InputsAre' /\ EqualNodes(machine)'
    <3>1. machine' = machine /\ InputsAre'
      BY InputsStay DEF CoresInv
    <3>2. EqualNodes(machine)
      BY DEF CoresInv
    <3> QED BY <3>1, <3>2
  <2> QED BY <2>1, FileReadStep, SysfsReadStep, CoresBuiltStep, TypeStep DEF CoresInv
<1> QED BY <1>1, <1>2, PTL DEF Spec

\* reeact_get_topology: on machines whose nodes have equally many cores, every
\* count, loop counter and array has its type at every step, for every
\* configuration file and in the face of every failed read.
THEOREM TopologyTypes ==
  ASSUME \A input \in Inputs : EqualNodes(input[1])
  PROVE  Spec => []TypeOK
<1>1. CoresInv => TypeOK
  BY DEF CoresInv
<1> QED BY <1>1, CoresInvHolds, PTL

\* reeact_get_topo_sysfs: on such machines the array of cores is large enough
\* for every row that is stored into it, and the first core of every node has
\* been stored when the package of the node is asked for.
THEOREM StoresAreWithin ==
  ASSUME \A input \in Inputs : EqualNodes(input[1])
  PROVE  Spec => []WithinArrays
<1>1. CoresInv => WithinArrays
  <2> SUFFICES ASSUME CoresInv PROVE WithinArrays
    OBVIOUS
  <2>1. pc = "node_cpus" => \A k \in 0 .. Len(Row(i)) - 1 : i * core_cnt + k \in DOMAIN cores
    <3> SUFFICES ASSUME pc = "node_cpus", NEW k \in 0 .. Len(Row(i)) - 1
                 PROVE  i * core_cnt + k \in DOMAIN cores
      OBVIOUS
    <3>1. /\ i \in Nodes /\ CoresFound /\ CoresStored(i)
          /\ core_cnt = CoresEach /\ Len(Row(i)) = CoresEach
      BY RowIs, CoreCntIs DEF CoresInv, SysfsRead, CoresBuilt
    <3>2. /\ TotalNodes \in Nat /\ CoresEach \in Nat \ {0}
          /\ i \in 0 .. TotalNodes - 1 /\ k \in 0 .. CoresEach - 1
      BY <3>1, CoreRowsAre, NodesAre DEF CoresInv, RowsOf
    <3>3. i * CoresEach + k \in 0 .. TotalNodes * CoresEach - 1
      BY <3>2, Join
    <3> QED BY <3>1, <3>3 DEF CoresStored
  <2>2. pc \in {"packages", "assign"} =>
          \A n \in Nodes : n * core_cnt \in DOMAIN cores /\ cores[n * core_cnt] # Unset
    BY PackageIs DEF CoresInv, SysfsRead, CoresBuilt
  <2> QED BY <2>1, <2>2 DEF WithinArrays
<1> QED BY <1>1, CoresInvHolds, PTL

\* The rows of cores list the cores of the nodes, and the number of sockets is
\* the successor of the largest package.
CoresListed ==
  LET row(n) == CoresOf(machine.cpus[n])
  IN /\ core_cnt * TotalNodes = Cardinality(CoresOf(Contexts))
     /\ cores = Grid(row, TotalNodes, core_cnt)
     /\ Largest(socket_cnt - 1, TotalNodes)

\* After a success of the parser of sysfs the cores are listed.
LEMMA SuccessListsCores ==
  ASSUME CoresInv, SysfsSucceeded
  PROVE  CoresListed
<1> DEFINE row(n) == CoresOf(machine.cpus[n])
<1>1. /\ InputsAre /\ EqualNodes(machine) /\ CoresCounted
      /\ CoresStored(TotalNodes) /\ Largest(socket_cnt - 1, TotalNodes)
  BY DEF CoresInv, SysfsRead, CoresBuilt
<1>2. /\ RowsOf(CoreRows, TotalNodes, CoresEach) /\ core_cnt = CoresEach
      /\ Cardinality(CoresOf(Contexts)) = TotalNodes * CoresEach
      /\ TotalNodes \in Nat /\ CoresEach \in Nat /\ Nodes = 0 .. TotalNodes - 1
  BY <1>1, CoreRowsAre, CoreCntIs, NodesAre DEF RowsOf
<1>3. cores = [x \in 0 .. TotalNodes * CoresEach - 1 |-> At(CoreRows, CoresEach, x)]
  BY <1>1, StoredEnds
<1>4. \A x \in 0 .. TotalNodes * CoresEach - 1 :
        At(CoreRows, CoresEach, x) = Ascending(row(x \div CoresEach))[(x % CoresEach) + 1]
  <2> TAKE x \in 0 .. TotalNodes * CoresEach - 1
  <2>1. x \div CoresEach \in Nodes
    BY <1>2, Layout
  <2>2. CoreRows[x \div CoresEach] = row(x \div CoresEach)
    BY <2>1 DEF CoreRows
  <2> QED BY <2>2 DEF At
<1> HIDE DEF row
<1>5. cores = Grid(row, TotalNodes, core_cnt)
  BY <1>2, <1>3, <1>4 DEF Grid
<1>6. core_cnt * TotalNodes = Cardinality(CoresOf(Contexts))
  BY <1>2
<1> QED BY <1>1, <1>5, <1>6 DEF CoresListed, row

\* reeact_get_topo_sysfs: on machines with equal nodes, whatever the package ids
\* are, after a success the cores are listed node by node, each node's once, and
\* the number of sockets is one more than the largest package id.
THEOREM CoresAreListed ==
  ASSUME \A input \in Inputs : EqualNodes(input[1])
  PROVE  Spec => [](SysfsSucceeded => CoresListed)
<1>1. CoresInv => (SysfsSucceeded => CoresListed)
  BY SuccessListsCores
<1> QED BY <1>1, CoresInvHolds, PTL

-----------------------------------------------------------------------------
(* The nodes.                                                              *)

\* What the machine has when the arrays take the right things for granted.
EqualMachine == EqualNodes(machine) /\ EqualSockets(machine)

\* The number of sockets is the successor of the largest package.
LEMMA SocketCntIs ==
  ASSUME InputsAre, EqualMachine, socket_cnt \in Nat \ {0}, Largest(socket_cnt - 1, TotalNodes)
  PROVE  socket_cnt = Sockets
<1>1. /\ Packages = 0 .. Sockets - 1 /\ Sockets \in Nat \ {0} /\ NodesEach \in Nat \ {0}
      /\ \A s \in Packages : SocketRows[s] = {n \in Nodes : PackageOf(n) = s}
      /\ \A s \in Packages : Cardinality(SocketRows[s]) = NodesEach
  BY SocketRowsAre DEF EqualMachine, RowsOf
<1>2. Nodes = 0 .. TotalNodes - 1 /\ TotalNodes \in Nat \ {0}
  BY NodesAre
<1>3. socket_cnt <= Sockets
  <2>1. PICK n \in Nodes : socket_cnt - 1 = PackageOf(n)
    BY <1>2 DEF Largest
  <2>2. PackageOf(n) \in Packages
    BY FirstCore DEF EqualMachine
  <2> QED BY <1>1, <2>1, <2>2
<1>4. Sockets <= socket_cnt
  <2>1. Sockets - 1 \in Packages
    BY <1>1
  <2>2. SocketRows[Sockets - 1] # {}
    BY <1>1, <2>1, FS_EmptySet
  <2>3. PICK n \in Nodes : PackageOf(n) = Sockets - 1
    BY <1>1, <2>1, <2>2
  <2>4. PackageOf(n) <= socket_cnt - 1
    BY <1>2, <2>3 DEF Largest
  <2> QED BY <1>1, <2>3, <2>4
<1> QED BY <1>1, <1>3, <1>4

\* The place of node n in the array of nodes.
Place(n) == IndexOf(SocketRows, NodesEach, PackageOf(n), n)

\* Every node has a place, and every place a node, in the row of its package.
LEMMA Places ==
  ASSUME InputsAre, EqualMachine
  PROVE  /\ \A x \in 0 .. TotalNodes - 1 : NodeAt(x) \in Nodes /\ x = Place(NodeAt(x))
         /\ \A n \in Nodes : Place(n) \in 0 .. TotalNodes - 1 /\ NodeAt(Place(n)) = n
<1>1. /\ Packages = 0 .. Sockets - 1 /\ RowsOf(SocketRows, Sockets, NodesEach)
      /\ \A s \in Packages : SocketRows[s] = {n \in Nodes : PackageOf(n) = s}
      /\ TotalNodes = Sockets * NodesEach
  BY SocketRowsAre DEF EqualMachine
<1>2. ASSUME NEW x \in 0 .. TotalNodes - 1
      PROVE  NodeAt(x) \in Nodes /\ x = Place(NodeAt(x))
  <2>1. /\ x \div NodesEach \in Packages /\ NodeAt(x) \in SocketRows[x \div NodesEach]
        /\ x = IndexOf(SocketRows, NodesEach, x \div NodesEach, NodeAt(x))
    BY <1>1, Layout DEF NodeAt
  <2>2. NodeAt(x) \in Nodes /\ PackageOf(NodeAt(x)) = x \div NodesEach
    BY <1>1, <2>1
  <2> QED BY <2>1, <2>2 DEF Place
<1>3. ASSUME NEW n \in Nodes
      PROVE  Place(n) \in 0 .. TotalNodes - 1 /\ NodeAt(Place(n)) = n
  <2>1. PackageOf(n) \in Packages
    BY FirstCore DEF EqualMachine
  <2>2. n \in SocketRows[PackageOf(n)] /\ PackageOf(n) \in 0 .. Sockets - 1
    BY <1>1, <2>1
  <2> QED BY <1>1, <2>2, Layout DEF Place, NodeAt
<1> QED BY <1>2, <1>3

\* A pair is a socket and a node.
LEMMA PairIs ==
  ASSUME InputsAre, EqualMachine, NEW n \in Nodes
  PROVE  /\ Pair(n) \in 0 .. Sockets * TotalNodes - 1 /\ Pair(n) \in Nat
         /\ Pair(n) \div TotalNodes = PackageOf(n) /\ Pair(n) % TotalNodes = n
<1> DEFINE p == PackageOf(n)
<1>1. /\ Sockets \in Nat /\ TotalNodes \in Nat \ {0}
      /\ n \in 0 .. TotalNodes - 1 /\ p \in 0 .. Sockets - 1
  BY SocketRowsAre, NodesAre, FirstCore DEF EqualMachine
<1> HIDE DEF p
<1>2. p * TotalNodes + n \in 0 .. Sockets * TotalNodes - 1
  BY <1>1, Join, Zenon
<1>3. (p * TotalNodes + n) \div TotalNodes = p
  BY <1>1, Join
<1>4. (p * TotalNodes + n) % TotalNodes = n
  BY <1>1, Join
<1> QED BY <1>2, <1>3, <1>4 DEF Pair, p

\* The loops come to every node, once.
LEMMA Pairs ==
  ASSUME InputsAre, EqualMachine, NEW k \in 0 .. Sockets * TotalNodes - 1
  PROVE  /\ k \div TotalNodes \in 0 .. Sockets - 1 /\ k % TotalNodes \in Nodes
         /\ \A n \in Nodes : /\ Pair(n) \in 0 .. Sockets * TotalNodes - 1
                             /\ Pair(n) = k <=>
                                  n = k % TotalNodes /\ PackageOf(n) = k \div TotalNodes
<1>1. Sockets \in Nat /\ TotalNodes \in Nat \ {0} /\ Nodes = 0 .. TotalNodes - 1
  BY SocketRowsAre, NodesAre DEF EqualMachine
<1>2. /\ k \div TotalNodes \in 0 .. Sockets - 1 /\ k % TotalNodes \in 0 .. TotalNodes - 1
      /\ k = (k \div TotalNodes) * TotalNodes + (k % TotalNodes)
  BY <1>1, Split
<1>3. ASSUME NEW n \in Nodes
      PROVE  /\ Pair(n) \in 0 .. Sockets * TotalNodes - 1
             /\ Pair(n) = k <=> n = k % TotalNodes /\ PackageOf(n) = k \div TotalNodes
  <2>1. /\ Pair(n) \in 0 .. Sockets * TotalNodes - 1
        /\ Pair(n) \div TotalNodes = PackageOf(n) /\ Pair(n) % TotalNodes = n
    BY PairIs
  <2> QED BY <1>2, <2>1 DEF Pair
<1> QED BY <1>1, <1>2, <1>3

\* The index at which a node is stored is its place.
LEMMA StoredAtPlace ==
  ASSUME InputsAre, EqualMachine, CoresCounted, CoresStored(TotalNodes),
         NEW n \in Nodes
  PROVE  PackageOf(n) * NodesEach
           + Cardinality(Below({o \in Nodes : Package(o) = PackageOf(n)}, n)) = Place(n)
<1>1. PackageOf(n) \in Packages
  BY FirstCore DEF EqualMachine
<1>2. \A o \in Nodes : Package(o) = PackageOf(o)
  BY PackageIs DEF EqualMachine
<1>3. {o \in Nodes : Package(o) = PackageOf(n)} = SocketRows[PackageOf(n)]
  BY <1>1, <1>2, SocketRowsAre DEF EqualMachine
<1> QED BY <1>3 DEF Place, IndexOf

\* The array of nodes after node n, to which the loops come at pair k.
LEMMA StoreNode ==
  ASSUME InputsAre, EqualMachine, NEW k \in Nat, NEW n \in Nodes, Pair(n) = k, NodesStored(k)
  PROVE  Stored(nodes, Place(n), <<n>>) =
           [x \in 0 .. TotalNodes - 1 |-> IF Pair(NodeAt(x)) < k + 1 THEN NodeAt(x) ELSE Unset]
<1> DEFINE D == 0 .. TotalNodes - 1
<1>1. /\ \A x \in D : NodeAt(x) \in Nodes /\ x = Place(NodeAt(x))
      /\ Place(n) \in D /\ NodeAt(Place(n)) = n
  BY Places
<1>2. nodes = [x \in D |-> IF Pair(NodeAt(x)) < k THEN NodeAt(x) ELSE Unset]
  BY DEF NodesStored
<1>3. \A o \in Nodes : Pair(o) \in Nat /\ (Pair(o) = k => o = n)
  <2>1. \A o \in Nodes : Pair(o) \in Nat /\ Pair(o) % TotalNodes = o
    BY PairIs
  <2> QED BY <2>1
<1>4. ASSUME NEW x \in D
      PROVE  (IF x - Place(n) \in 0 .. Len(<<n>>) - 1 THEN <<n>>[x - Place(n) + 1] ELSE nodes[x])
               = IF Pair(NodeAt(x)) < k + 1 THEN NodeAt(x) ELSE Unset
  <2> HIDE DEF D
  <2>1. x \in Int /\ Place(n) \in Int
    BY <1>1 DEF D
  <2>2. CASE x = Place(n)
    <3>1. x - Place(n) = 0 /\ Len(<<n>>) = 1 /\ <<n>>[0 + 1] = n
      BY <2>1, <2>2
    <3>2. NodeAt(x) = n /\ Pair(n) < k + 1
      BY <1>1, <2>2
    <3> QED BY <3>1, <3>2
  <2>3. CASE x # Place(n)
    <3>1. x - Place(n) \notin 0 .. Len(<<n>>) - 1
      BY <2>1, <2>3
    <3>2. NodeAt(x) # n /\ NodeAt(x) \in Nodes
      BY <1>1, <2>3
    <3>3. Pair(NodeAt(x)) < k + 1 <=> Pair(NodeAt(x)) < k
      BY <1>3, <3>2
    <3>4. nodes[x] = IF Pair(NodeAt(x)) < k THEN NodeAt(x) ELSE Unset
      BY <1>2
    <3> QED BY <3>1, <3>3, <3>4
  <2> QED BY <2>2, <2>3
<1>5. DOMAIN nodes = D
  BY <1>2
<1> QED BY <1>4, <1>5 DEF Stored

\* The places and the pairs of the nodes do not change.
LEMMA PlacesStay ==
  ASSUME [Next]_vars
  PROVE  \A x : /\ NodeAt(x)' = NodeAt(x) /\ Pair(x)' = Pair(x)
                /\ Pair(NodeAt(x))' = Pair(NodeAt(x))
<1>1. UNCHANGED <<machine, TotalNodes, CoreRows, CoresEach, SocketRows, NodesEach>>
  BY MachineStays
<1>2. \A x : NodeAt(x)' = NodeAt(x)
  BY <1>1 DEF NodeAt, At
<1>3. \A n : PackageOf(n)' = PackageOf(n)
  BY MachineStays
<1>4. \A n : Pair(n)' = Pair(n)
  BY <1>1, <1>3 DEF Pair
<1>5. \A x : Pair(NodeAt(x))' = Pair(NodeAt(x))
  BY <1>1 DEF Pair, PackageOf, NodeAt, At
<1> QED BY <1>2, <1>4, <1>5

\* One pair of the loops: the array of nodes before the next pair.
LEMMA PairStored ==
  ASSUME InputsAre, EqualMachine, SysfsRead, CoresBuilt, NodesBuilt, Assign
  PROVE  \/ nodes' = [x \in 0 .. TotalNodes - 1 |->
                       IF Pair(NodeAt(x)) < i + 1 THEN NodeAt(x) ELSE Unset]
         \/ nodes' = <<>> /\ \A n \in Nodes : Pair(n) >= i + 1
<1>1. /\ pc = "assign" /\ socket_cnt = Sockets /\ node_cnt = NodesEach
      /\ NodesStored(i) \/ (nodes = <<>> /\ \A n \in Nodes : Pair(n) >= i)
      /\ CoresCounted /\ CoresStored(TotalNodes)
      /\ i \in 0 .. Sockets * TotalNodes - 1
  BY DEF Assign, AssignFrom, NodesBuilt, CoresBuilt, SysfsRead
<1>2. i \in Nat /\ Node \in Nodes /\ Socket \in 0 .. Sockets - 1
      /\ \A n \in Nodes : Pair(n) \in Nat /\ (Pair(n) = i <=> n = Node /\ PackageOf(n) = Socket)
  BY <1>1, Pairs DEF Node, Socket
<1>3. Package(Node) = PackageOf(Node)
  BY <1>1, <1>2, PackageIs DEF EqualMachine
<1>4. CASE Package(Node) = Socket
  <2>1. Pair(Node) = i /\ PackageOf(Node) = Socket
    BY <1>2, <1>3, <1>4
  <2>2. nodes # <<>>
    BY <1>4 DEF Assign, AssignFrom
  <2>3. NodesStored(i)
    BY <1>1, <2>2
  <2>4. nodes' = Stored(nodes, Socket * NodesEach
                          + Cardinality(Below({n \in Nodes : Package(n) = Socket}, Node)), <<Node>>)
    BY <1>1, <1>4 DEF Assign, AssignFrom
  <2>5. nodes' = Stored(nodes, Place(Node), <<Node>>)
    BY <1>1, <1>2, <2>1, <2>4, StoredAtPlace
  <2> QED BY <1>2, <2>1, <2>3, <2>5, StoreNode
<1>5. CASE Package(Node) # Socket
  <2>1. nodes' = nodes
    BY <1>5 DEF Assign, AssignFrom
  <2>2. \A n \in Nodes : Pair(n) # i
    BY <1>2, <1>3, <1>5
  <2>3. \A n \in Nodes : /\ Pair(n) < i + 1 <=> Pair(n) < i
                         /\ Pair(n) >= i => Pair(n) >= i + 1
    BY <1>2, <2>2
  <2>4. CASE NodesStored(i)
    <3>1. \A x \in 0 .. TotalNodes - 1 : Pair(NodeAt(x)) < i + 1 <=> Pair(NodeAt(x)) < i
      BY <2>3, Places
    <3> QED BY <2>1, <2>4, <3>1 DEF NodesStored
  <2> QED BY <1>1, <2>1, <2>3, <2>4
<1> QED BY <1>4, <1>5

\* The pairs are stored one by one; after the last every node has been.
LEMMA AssignBuilds ==
  ASSUME InputsAre, EqualMachine, SysfsRead, CoresBuilt, NodesBuilt, Assign, [Next]_vars
  PROVE  NodesBuilt'
<1>1. /\ pc = "assign" /\ socket_cnt = Sockets /\ node_cnt = NodesEach
      /\ UNCHANGED <<socket_cnt, node_cnt>>
      /\ i \in 0 .. Sockets * TotalNodes - 1
      /\ IF i = Sockets * TotalNodes - 1 THEN pc' = "done" ELSE pc' = "assign" /\ i' = i + 1
  BY DEF Assign, AssignFrom, Return, NodesBuilt, CoresBuilt, counts
<1>2. UNCHANGED <<Nodes, TotalNodes, Sockets, NodesEach>>
  BY MachineStays
<1>3. \A x : /\ NodeAt(x)' = NodeAt(x) /\ Pair(x)' = Pair(x)
             /\ Pair(NodeAt(x))' = Pair(NodeAt(x))
  BY PlacesStay
<1>4. i \in Nat /\ Sockets * TotalNodes \in Nat
  BY <1>1, SocketRowsAre, NodesAre DEF EqualMachine
<1>5. (socket_cnt = Sockets /\ node_cnt = NodesEach)'
  BY <1>1, <1>2
<1>6. \/ nodes' = [x \in 0 .. TotalNodes - 1 |->
                    IF Pair(NodeAt(x)) < i + 1 THEN NodeAt(x) ELSE Unset]
      \/ nodes' = <<>> /\ \A n \in Nodes : Pair(n) >= i + 1
  BY PairStored
<1>7. CASE i = Sockets * TotalNodes - 1
  <2>1. pc' = "done" /\ i + 1 = Sockets * TotalNodes
    BY <1>1, <1>4, <1>7
  <2>2. ~ \A n \in Nodes : Pair(n) >= i + 1
    <3>1. 0 \in Nodes
      BY NodesAre
    <3>2. Pair(0) \in 0 .. Sockets * TotalNodes - 1
      BY <3>1, PairIs
    <3> QED BY <1>4, <2>1, <3>1, <3>2
  <2>3. nodes' = [x \in 0 .. TotalNodes - 1 |->
                   IF Pair(NodeAt(x)) < Sockets * TotalNodes THEN NodeAt(x) ELSE Unset]
    BY <1>6, <2>1, <2>2
  <2>4. NodesStored(Sockets * TotalNodes)'
    BY <1>2, <1>3, <2>3 DEF NodesStored
  <2> QED BY <1>5, <2>1, <2>4 DEF NodesBuilt
<1>8. CASE i # Sockets * TotalNodes - 1
  <2>1. pc' = "assign" /\ i' = i + 1
    BY <1>1, <1>8
  <2>2. CASE nodes' = <<>> /\ \A n \in Nodes : Pair(n) >= i + 1
    <3>1. (\A n \in Nodes : Pair(n) >= i)'
      BY <1>2, <1>3, <2>1, <2>2
    <3> QED BY <1>5, <2>1, <2>2, <3>1 DEF NodesBuilt, SysfsSucceeded
  <2>3. CASE nodes' = [x \in 0 .. TotalNodes - 1 |->
                        IF Pair(NodeAt(x)) < i + 1 THEN NodeAt(x) ELSE Unset]
    <3>1. NodesStored(i)'
      BY <1>2, <1>3, <2>1, <2>3 DEF NodesStored
    <3> QED BY <1>5, <2>1, <3>1 DEF NodesBuilt, SysfsSucceeded
  <2> QED BY <1>6, <2>2, <2>3
<1> QED BY <1>7, <1>8

\* Every step keeps NodesBuilt.
LEMMA NodesBuiltStep ==
  ASSUME InputsAre, EqualMachine, SysfsRead, CoresBuilt, NodesBuilt, [Next]_vars
  PROVE  NodesBuilt'
<1>1. CASE UNCHANGED vars
  <2>1. UNCHANGED <<machine, parser, pc, i, cores, nodes, socket_cnt, node_cnt, ret>>
    BY <1>1 DEF vars
  <2>2. UNCHANGED <<Nodes, TotalNodes, Sockets, NodesEach>>
    BY MachineStays
  <2>3. \A x : /\ NodeAt(x)' = NodeAt(x) /\ Pair(x)' = Pair(x)
               /\ Pair(NodeAt(x))' = Pair(NodeAt(x))
    BY PlacesStay
  <2>4. NodesStored(i)' <=> NodesStored(i)
    BY <2>1, <2>2, <2>3 DEF NodesStored
  <2>5. NodesStored(Sockets * TotalNodes)' <=> NodesStored(Sockets * TotalNodes)
    BY <2>1, <2>2, <2>3 DEF NodesStored
  <2>6. (\A n \in Nodes : Pair(n) >= i)' <=> \A n \in Nodes : Pair(n) >= i
    BY <2>1, <2>2, <2>3
  <2> QED BY <2>1, <2>2, <2>4, <2>5, <2>6 DEF NodesBuilt, SysfsSucceeded
<1>2. CASE ConfUnreadable \/ ConfBadLine \/ ConfLine
  BY <1>2 DEF ConfUnreadable, ConfBadLine, ConfLine, InLine, ConfFails, NodesBuilt, SysfsSucceeded
<1>3. CASE ConfEnd
  <2>1. pc = "lines" /\ parser = "conf"
    BY <1>3 DEF ConfEnd, ConfEndChecking, SysfsRead
  <2> QED BY <1>3, <2>1 DEF ConfEnd, ConfEndChecking, ConfFails, Return, NodesBuilt, SysfsSucceeded
<1>4. CASE ReadFails \/ ReadOnline
  BY <1>4 DEF ReadFails, Return, ReadOnline, NodesBuilt, SysfsSucceeded
<1>5. CASE SkipContext \/ ReadSiblings \/ ReadPackage
  BY <1>5 DEF SkipContext, ReadSiblings, ReadPackage, NextContext, Iterate, NodesBuilt,
              SysfsSucceeded
<1>6. CASE AllocCores
  BY <1>6 DEF AllocCores, AllocRows, Return, NodesBuilt, SysfsSucceeded
<1>7. CASE ReadNodeCpus
  BY <1>7 DEF ReadNodeCpus, NodesBuilt, SysfsSucceeded
<1>8. CASE AllocNodes
  <2>1. /\ pc = "alloc_nodes" /\ pc' = "assign" /\ i = 0 /\ i' = 0 /\ socket_cnt' = socket_cnt
        /\ node_cnt' = TotalNodes \div socket_cnt
        /\ nodes' \in {[x \in 0 .. TotalNodes - 1 |-> Unset], <<>>}
        /\ socket_cnt \in Nat \ {0} /\ Largest(socket_cnt - 1, TotalNodes)
    BY <1>8 DEF AllocNodes, CoresBuilt
  <2>2. UNCHANGED <<Nodes, TotalNodes, Sockets, NodesEach>>
    BY MachineStays
  <2>3. socket_cnt = Sockets
    BY <2>1, SocketCntIs
  <2>4. node_cnt' = NodesEach
    <3>1. /\ Sockets \in Nat \ {0} /\ NodesEach \in Nat \ {0}
          /\ TotalNodes = Sockets * NodesEach
      BY SocketRowsAre DEF EqualMachine
    <3>2. \A a, b \in Nat \ {0} : (a * b) \div a = b
      OBVIOUS
    <3> QED BY <2>1, <2>3, <3>1, <3>2
  <2>5. \A n \in Nodes : Pair(n) \in Nat
    BY PairIs
  <2>6. \A n \in Nodes : Pair(n) >= 0 /\ ~(Pair(n) < 0)
    BY <2>5
  <2>7. \A x : /\ NodeAt(x)' = NodeAt(x) /\ Pair(x)' = Pair(x)
               /\ Pair(NodeAt(x))' = Pair(NodeAt(x))
    BY PlacesStay
  <2>8. CASE nodes' = <<>>
    <3>1. (\A n \in Nodes : Pair(n) >= i)'
      BY <2>1, <2>2, <2>6, <2>7
    <3> QED BY <2>1, <2>2, <2>3, <2>4, <2>8, <3>1 DEF NodesBuilt, SysfsSucceeded
  <2>9. CASE nodes' = [x \in 0 .. TotalNodes - 1 |-> Unset]
    <3>1. \A x \in 0 .. TotalNodes - 1 : ~(Pair(NodeAt(x)) < 0)
      BY <2>6, Places
    <3>2. nodes' = [x \in 0 .. TotalNodes - 1 |->
                     IF Pair(NodeAt(x)) < 0 THEN NodeAt(x) ELSE Unset]
      BY <2>9, <3>1
    <3>3. NodesStored(i)'
      BY <2>1, <2>2, <2>7, <3>2 DEF NodesStored
    <3> QED BY <2>1, <2>2, <2>3, <2>4, <3>3 DEF NodesBuilt, SysfsSucceeded
  <2> QED BY <2>1, <2>8, <2>9
<1>9. CASE Assign
  BY <1>9, AssignBuilds
<1>10. CASE AssignCrashes \/ Log \/ LogUndefined
  BY <1>10 DEF AssignCrashes, Log, LogUndefined, NodesBuilt, SysfsSucceeded
<1> QED BY <1>1, <1>2, <1>3, <1>4, <1>5, <1>6, <1>7, <1>8, <1>9, <1>10 DEF Next, Stopped

\* What every state of a run on machines with equal nodes and sockets satisfies.
NodesInv == CoresInv /\ EqualMachine /\ NodesBuilt

\* NodesBuilt is inductive beside it: then the rows of nodes.
LEMMA NodesInvHolds ==
  ASSUME \A input \in Inputs : EqualNodes(input[1]) /\ EqualSockets(input[1])
  PROVE  Spec => []NodesInv
<1>1. Spec => []CoresInv
  BY CoresInvHolds
<1>2. CoresInv => EqualMachine
  BY DEF CoresInv, InputsAre, EqualMachine
<1>3. Init => NodesBuilt
  BY DEF Init, NodesBuilt, SysfsSucceeded
<1>4. CoresInv /\ NodesBuilt /\ [Next]_vars => NodesBuilt'
  BY <1>2, NodesBuiltStep DEF CoresInv
<1>5. CoresInv /\ NodesBuilt => NodesInv
  BY <1>2 DEF NodesInv
<1> QED BY <1>1, <1>3, <1>4, <1>5, PTL DEF Spec

\* After a success of the parser of sysfs the arrays hold the cores and the
\* nodes at their places.
LEMMA ArraysAre ==
  ASSUME NodesInv, SysfsSucceeded
  PROVE  /\ socket_cnt = Sockets /\ node_cnt = NodesEach /\ core_cnt = CoresEach
         /\ cores = [x \in 0 .. TotalNodes * CoresEach - 1 |-> At(CoreRows, CoresEach, x)]
         /\ nodes = [x \in 0 .. TotalNodes - 1 |-> NodeAt(x)]
<1>1. InputsAre /\ EqualNodes(machine) /\ EqualMachine /\ SysfsRead /\ CoresBuilt /\ NodesBuilt
  BY DEF NodesInv, CoresInv
<1>2. /\ socket_cnt = Sockets /\ node_cnt = NodesEach /\ NodesStored(Sockets * TotalNodes)
      /\ CoresStored(TotalNodes) /\ CoresCounted
  BY <1>1 DEF NodesBuilt, CoresBuilt, SysfsRead
<1>3. core_cnt = CoresEach
  BY <1>1, <1>2, CoreCntIs
<1>4. cores = [x \in 0 .. TotalNodes * CoresEach - 1 |-> At(CoreRows, CoresEach, x)]
  BY <1>1, <1>2, StoredEnds
<1>5. \A x \in 0 .. TotalNodes - 1 : Pair(NodeAt(x)) < Sockets * TotalNodes
  <2>1. \A x \in 0 .. TotalNodes - 1 : NodeAt(x) \in Nodes
    BY <1>1, Places
  <2>2. \A n \in Nodes : Pair(n) \in 0 .. Sockets * TotalNodes - 1
    BY <1>1, PairIs
  <2>3. Sockets * TotalNodes \in Nat
    BY <1>1, SocketRowsAre, NodesAre DEF EqualMachine
  <2> QED BY <2>1, <2>2, <2>3
<1> QED BY <1>2, <1>3, <1>4, <1>5 DEF NodesStored

\* "Determine the processor topology of current machine, i.e., the sockets,
\* nodes and cores" (reeact_utils.h): on a machine of equal nodes, equal sockets
\* and package ids without gaps, a success of reeact_get_topo_sysfs gives the
\* number of its sockets, nodes and cores, and the arrays list the nodes of
\* each socket and the cores of each node.
THEOREM SysfsIsRight ==
  ASSUME \A input \in Inputs : EqualNodes(input[1]) /\ EqualSockets(input[1])
  PROVE  Spec => []SysfsTopology
<1>1. NodesInv => SysfsTopology
  <2> SUFFICES ASSUME NodesInv, SysfsSucceeded PROVE SysfsTopology
    BY DEF SysfsTopology, SysfsSucceeded
  <2> DEFINE row(n) == CoresOf(machine.cpus[n])
  <2>1. InputsAre /\ EqualNodes(machine) /\ EqualMachine
    BY DEF NodesInv, CoresInv
  <2>2. /\ RowsOf(CoreRows, TotalNodes, CoresEach)
        /\ Cardinality(CoresOf(Contexts)) = TotalNodes * CoresEach
    BY <2>1, CoreRowsAre
  <2>3. /\ Packages = 0 .. Sockets - 1 /\ RowsOf(SocketRows, Sockets, NodesEach)
        /\ TotalNodes = Sockets * NodesEach
    BY <2>1, SocketRowsAre DEF EqualMachine
  <2>4. /\ TotalNodes \in Nat /\ CoresEach \in Nat /\ Sockets \in Nat /\ NodesEach \in Nat
        /\ Nodes = 0 .. TotalNodes - 1
    BY <2>1, <2>2, <2>3, NodesAre DEF RowsOf
  <2>5. cores = Grid(row, TotalNodes, core_cnt)
    BY SuccessListsCores DEF NodesInv, CoresListed
  <2>6. nodes = Grid(NodesOf, Sockets, node_cnt)
    <3>1. \A x \in 0 .. Sockets * NodesEach - 1 :
            NodeAt(x) = Ascending(NodesOf(x \div NodesEach))[(x % NodesEach) + 1]
      <4> TAKE x \in 0 .. Sockets * NodesEach - 1
      <4>1. x \div NodesEach \in Packages
        BY <2>3, Layout
      <4>2. SocketRows[x \div NodesEach] = NodesOf(x \div NodesEach)
        BY <4>1 DEF SocketRows
      <4> QED BY <4>2 DEF NodeAt, At
    <3> QED BY <3>1, <2>3, ArraysAre DEF Grid
  <2>7. /\ socket_cnt = Sockets /\ node_cnt * Sockets = TotalNodes
        /\ core_cnt * TotalNodes = Cardinality(CoresOf(Contexts))
    BY <2>2, <2>3, <2>4, ArraysAre
  <2> HIDE DEF row
  <2> QED BY <2>5, <2>6, <2>7 DEF SysfsTopology, Sockets, row
<1> QED BY <1>1, NodesInvHolds, PTL

=============================================================================
