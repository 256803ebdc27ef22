--------------------------- MODULE TopologyProofs ---------------------------
(***************************************************************************)
(* What is proved of the topology code, for every configuration file and   *)
(* every machine: what a configuration file that is accepted sets, and     *)
(* what the first loop over sysfs finds out of the contexts.  What is      *)
(* stored in the arrays is the subject of TopologySysfsProofs.             *)
(***************************************************************************)
EXTENDS Topology, TLAPS, FiniteSetTheorems, SequenceTheorems

-----------------------------------------------------------------------------
(* The configuration file.                                                 *)

\* Line n is the last with this tag among the first k lines.
IsLast(n, tag, k) ==
  /\ n \in 1 .. k /\ conf[n].tag = tag
  /\ \A m \in 1 .. k : conf[m].tag = tag => m <= n

\* The outputs are those of the last line of each kind read so far, or what
\* they were before the file.
ReadSoFar ==
  /\ counts = <<0, 0, 0>> \/ \E n \in 1 .. i : IsLast(n, "s", i) /\ counts = conf[n].values
  /\ nodes = <<>> \/ \E n \in 1 .. i : IsLast(n, "n", i) /\ nodes = Array(conf[n].values)
  /\ cores = <<>> \/ \E n \in 1 .. i : IsLast(n, "c", i) /\ cores = Array(conf[n].values)

\* While the parser of the file runs, and after it has returned 0.
FileRead ==
  parser = "conf" =>
    /\ conf # NoConf
    /\ pc \in {"lines", "done", "logged", "crashed"}
    /\ i \in 0 .. Len(conf)
    /\ ReadSoFar
    /\ pc # "lines" => Counted /\ nodes # <<>> /\ cores # <<>>

\* The inputs stay what they were.
InputsAre == \E input \in Inputs : machine = input[1] /\ conf = input[2]

\* A configuration file is a sequence of lines.
LEMMA FileIs ==
  ASSUME InputsAre, conf # NoConf
  PROVE  /\ Len(conf) \in Nat /\ DOMAIN conf = 1 .. Len(conf)
         /\ \A n \in 1 .. Len(conf) :
              conf[n].values # Unparsable => conf[n].values \in Seq(Nat)
<1>1. conf \in Seq([tag : STRING, values : Seq(Nat) \cup {Unparsable}])
  <2>1. PICK input \in Inputs : conf = input[2]
    BY DEF InputsAre
  <2> QED BY <2>1, InputsAssumption
<1>2. Len(conf) \in Nat /\ DOMAIN conf = 1 .. Len(conf)
  BY <1>1
<1>3. ASSUME NEW n \in 1 .. Len(conf)
      PROVE  conf[n].values \in Seq(Nat) \cup {Unparsable}
  <2>1. conf[n] \in [tag : STRING, values : Seq(Nat) \cup {Unparsable}]
    BY <1>1, <1>2, ElementOfSeq
  <2> QED BY <2>1
<1> QED BY <1>2, <1>3

\* No action changes the inputs.
LEMMA InputsStay ==
  ASSUME [Next]_vars
  PROVE  /\ UNCHANGED <<machine, conf>>
         /\ InputsAre => InputsAre'
<1>1. UNCHANGED <<machine, conf>>
  BY DEF Next, vars, ConfUnreadable, ConfBadLine, ConfLine, ConfEnd, ConfEndChecking,
         ConfFails, ReadFails, ReadOnline, SkipContext, ReadSiblings, AllocCores,
         AllocRows, ReadNodeCpus, ReadPackage, AllocNodes, Assign, AssignFrom,
         AssignCrashes, Log, LogUndefined, Stopped
<1> QED BY <1>1 DEF InputsAre

\* The inputs are those that the program was started with.
LEMMA InputsHold == Spec => []InputsAre
<1>1. Init => InputsAre
  BY DEF Init, InputsAre
<1> QED BY <1>1, InputsStay, PTL DEF Spec

\* A line with this tag is the last one, and a line with another tag leaves
\* the last one what it is.
LEMMA LastIs ==
  ASSUME NEW k \in Nat, NEW tag
  PROVE  /\ conf[k + 1].tag = tag => IsLast(k + 1, tag, k + 1)
         /\ conf[k + 1].tag # tag => \A n \in 1 .. k : IsLast(n, tag, k) => IsLast(n, tag, k + 1)
<1>1. \A m : m \in 1 .. k + 1 <=> m \in 1 .. k \/ m = k + 1
  OBVIOUS
<1> QED BY <1>1 DEF IsLast

\* A line that is read gives its own kind of output what it says.
LEMMA ReadLine ==
  ASSUME InputsAre, FileRead, ConfLine, parser = "conf"
  PROVE  ReadSoFar'
<1>0. /\ i \in Nat /\ i' = i + 1 /\ i + 1 \in 1 .. Len(conf) /\ UNCHANGED conf
      /\ ReadSoFar
  BY FileIs DEF FileRead, ConfLine, InLine
<1> DEFINE Said   == [n \in 1 .. i + 1 |-> conf[n].values]
           Stores == [n \in 1 .. i + 1 |-> Array(conf[n].values)]
<1>1. \A n \in 1 .. i : Said[n] = conf[n].values /\ Stores[n] = Array(conf[n].values)
  BY <1>0
<1>2. counts' = <<0, 0, 0>> \/ \E n \in 1 .. i + 1 : IsLast(n, "s", i + 1) /\ counts' = Said[n]
  <2>1. counts' = IF conf[i + 1].tag = "s" THEN Said[i + 1] ELSE counts
    <3>1. CASE Line.tag = "s"
      <4>1. Line.values \in Seq(Nat) /\ Len(Line.values) = 3
        BY <3>1, <1>0, FileIs DEF ConfLine, FileRead, Line
      <4>2. counts' = <<Line.values[1], Line.values[2], Line.values[3]>>
        BY <3>1 DEF ConfLine, counts
      <4>3. Line.values = <<Line.values[1], Line.values[2], Line.values[3]>>
        BY <4>1
      <4> QED BY <4>2, <4>3, <3>1, <1>0 DEF Line
    <3>2. CASE Line.tag # "s"
      BY <3>2 DEF ConfLine, Line
    <3> QED BY <3>1, <3>2
  <2>2. counts = <<0, 0, 0>> \/ \E n \in 1 .. i : IsLast(n, "s", i) /\ counts = Said[n]
    <3> HIDE DEF Said
    <3> QED BY <1>0, <1>1 DEF ReadSoFar
  <2>3. CASE conf[i + 1].tag = "s"
    <3>1. counts' = Said[i + 1] /\ IsLast(i + 1, "s", i + 1)
      BY <2>1, <2>3, <1>0, LastIs
    <3> QED BY <3>1, <1>0
  <2>4. CASE conf[i + 1].tag # "s"
    <3>1. counts' = counts
      BY <2>1, <2>4
    <3>2. \A n \in 1 .. i : IsLast(n, "s", i) => n \in 1 .. i + 1 /\ IsLast(n, "s", i + 1)
      BY <2>4, <1>0, LastIs
    <3> HIDE DEF Said
    <3> QED BY <2>2, <3>1, <3>2
  <2> QED BY <2>3, <2>4
<1>3. nodes' = <<>> \/ \E n \in 1 .. i + 1 : IsLast(n, "n", i + 1) /\ nodes' = Stores[n]
  <2>1. nodes' = IF conf[i + 1].tag = "n" THEN Stores[i + 1] ELSE nodes
    BY <1>0 DEF ConfLine, Line
  <2>2. nodes = <<>> \/ \E n \in 1 .. i : IsLast(n, "n", i) /\ nodes = Stores[n]
    <3> HIDE DEF Stores
    <3> QED BY <1>0, <1>1 DEF ReadSoFar
  <2>3. CASE conf[i + 1].tag = "n"
    <3>1. nodes' = Stores[i + 1] /\ IsLast(i + 1, "n", i + 1)
      BY <2>1, <2>3, <1>0, LastIs
    <3> QED BY <3>1, <1>0
  <2>4. CASE conf[i + 1].tag # "n"
    <3>1. nodes' = nodes
      BY <2>1, <2>4
    <3>2. \A n \in 1 .. i : IsLast(n, "n", i) => n \in 1 .. i + 1 /\ IsLast(n, "n", i + 1)
      BY <2>4, <1>0, LastIs
    <3> HIDE DEF Stores
    <3> QED BY <2>2, <3>1, <3>2
  <2> QED BY <2>3, <2>4
<1>4. cores' = <<>> \/ \E n \in 1 .. i + 1 : IsLast(n, "c", i + 1) /\ cores' = Stores[n]
  <2>1. cores' = IF conf[i + 1].tag = "c" THEN Stores[i + 1] ELSE cores
    BY <1>0 DEF ConfLine, Line
  <2>2. cores = <<>> \/ \E n \in 1 .. i : IsLast(n, "c", i) /\ cores = Stores[n]
    <3> HIDE DEF Stores
    <3> QED BY <1>0, <1>1 DEF ReadSoFar
  <2>3. CASE conf[i + 1].tag = "c"
    <3>1. cores' = Stores[i + 1] /\ IsLast(i + 1, "c", i + 1)
      BY <2>1, <2>3, <1>0, LastIs
    <3> QED BY <3>1, <1>0
  <2>4. CASE conf[i + 1].tag # "c"
    <3>1. cores' = cores
      BY <2>1, <2>4
    <3>2. \A n \in 1 .. i : IsLast(n, "c", i) => n \in 1 .. i + 1 /\ IsLast(n, "c", i + 1)
      BY <2>4, <1>0, LastIs
    <3> HIDE DEF Stores
    <3> QED BY <2>2, <3>1, <3>2
  <2> QED BY <2>3, <2>4
<1>5. \A n, tag : IsLast(n, tag, i + 1) <=> IsLast(n, tag, i)'
  BY <1>0 DEF IsLast
<1>6. \A n \in 1 .. i + 1 : Said[n] = conf[n].values' /\ Stores[n] = Array(conf[n].values)'
  BY <1>0 DEF Array
<1> HIDE DEF Said, Stores
<1> QED BY <1>0, <1>2, <1>3, <1>4, <1>5, <1>6 DEF ReadSoFar

\* What has been read does not depend on pc.
LEMMA NothingRead ==
  ASSUME UNCHANGED <<conf, i, nodes, cores, counts>>
  PROVE  /\ ReadSoFar' <=> ReadSoFar
         /\ Counted' <=> Counted
<1>1. UNCHANGED <<socket_cnt, node_cnt, core_cnt>>
  BY DEF counts
<1>2. \A n, tag : IsLast(n, tag, i)' <=> IsLast(n, tag, i)
  BY DEF IsLast
<1>3. Counted' <=> Counted
  BY <1>1 DEF Counted
<1>4. \A n : Array(conf[n].values)' = Array(conf[n].values)
  BY DEF Array
<1> QED BY <1>2, <1>3, <1>4 DEF ReadSoFar

\* The parser of the file and the log keep FileRead; the actions of the other
\* parser cannot be taken.
LEMMA FileReadStep ==
  ASSUME InputsAre, FileRead, [Next]_vars
  PROVE  FileRead'
<1> SUFFICES ASSUME parser' = "conf"
             PROVE  FileRead'
  BY DEF FileRead
<1>0. CASE UNCHANGED vars
  <2>1. UNCHANGED <<conf, parser, pc, i, nodes, cores, socket_cnt, node_cnt, core_cnt>>
    BY <1>0 DEF vars
  <2> QED BY <2>1, NothingRead DEF FileRead, counts
<1>1. CASE ConfUnreadable \/ ConfBadLine
  BY <1>1 DEF ConfUnreadable, ConfBadLine, ConfFails
<1>2. CASE ConfLine
  <2>1. parser = "conf" /\ pc = "lines" /\ UNCHANGED <<pc, conf>> /\ i' = i + 1 /\ i < Len(conf)
    BY <1>2 DEF ConfLine, InLine
  <2>2. ReadSoFar'
    BY <1>2, <2>1, ReadLine
  <2>3. (i \in 0 .. Len(conf))'
    BY <2>1, FileIs DEF FileRead
  <2> QED BY <2>1, <2>2, <2>3 DEF FileRead
<1>3. CASE ConfEnd
  <2>1. Counted /\ nodes # <<>> /\ cores # <<>>
    BY <1>3 DEF ConfEnd, ConfEndChecking, ConfFails
  <2>2. pc' = "done" /\ UNCHANGED <<machine, conf, parser, i, ctx_ids, nodes, cores, counts>>
    BY <1>3, <2>1 DEF ConfEnd, ConfEndChecking, Return
  <2> QED BY <2>1, <2>2, NothingRead DEF FileRead
<1>4. CASE Log \/ LogUndefined
  <2>1. pc = "done" /\ pc' \in {"logged", "crashed"}
        /\ UNCHANGED <<machine, conf, parser, i, ctx_ids, nodes, cores, counts>>
    BY <1>4 DEF Log, LogUndefined
  <2> QED BY <2>1, NothingRead DEF FileRead
<1>5. CASE \/ ReadFails \/ ReadOnline \/ SkipContext \/ ReadSiblings \/ AllocCores
           \/ ReadNodeCpus \/ ReadPackage \/ AllocNodes \/ Assign \/ AssignCrashes
  <2>1. pc \in {"online", "contexts", "alloc_cores", "node_cpus", "packages",
                "alloc_nodes", "assign"}
        /\ UNCHANGED parser
    BY <1>5 DEF ReadFails, ReadsFile, ReadOnline, SkipContext, ReadSiblings, AllocCores,
         AllocRows, ReadNodeCpus, ReadPackage, AllocNodes, Assign, AssignFrom, AssignCrashes
  <2> QED BY <2>1 DEF FileRead
<1> QED BY <1>0, <1>1, <1>2, <1>3, <1>4, <1>5 DEF Next, Stopped

\* reeact_get_topo_conf: a topology that is taken from the configuration file
\* is what the file says last of each kind, up to where it could be read, and
\* has the counts and both arrays.
THEOREM FileIsObeyed == Spec => []ConfTopology
<1>1. Init => FileRead
  BY DEF Init, FileRead, ReadSoFar, counts
<1>2. Spec => []FileRead
  BY <1>1, FileReadStep, InputsHold, PTL DEF Spec
<1>3. InputsAre /\ FileRead => ConfTopology
  <2> SUFFICES ASSUME InputsAre, FileRead, pc = "done", parser = "conf"
               PROVE  ConfTopology
    BY DEF ConfTopology
  <2> DEFINE said(tag) == {n \in 1 .. i : conf[n].tag = tag}
             lst(tag)  == CHOOSE n \in said(tag) : \A m \in said(tag) : m <= n
  <2>0. /\ i \in Nat /\ Counted /\ nodes # <<>> /\ cores # <<>> /\ ReadSoFar
    BY FileIs DEF FileRead
  <2>1. ASSUME NEW tag, NEW n \in 1 .. i, IsLast(n, tag, i)
        PROVE  said(tag) # {} /\ lst(tag) = n
    <3>1. n \in said(tag) /\ \A m \in said(tag) : m \in Int /\ m <= n
      BY <2>0, <2>1 DEF IsLast
    <3>2. lst(tag) \in said(tag) /\ \A m \in said(tag) : m <= lst(tag)
      BY <3>1
    <3> QED BY <3>1, <3>2
  <2>2. counts # <<0, 0, 0>> /\ 0 \notin {socket_cnt, node_cnt, core_cnt}
    BY <2>0 DEF counts, Counted
  <2>3. said("s") # {} /\ counts = conf[lst("s")].values
    BY <2>0, <2>1, <2>2 DEF ReadSoFar
  <2>4. said("n") # {} /\ nodes = Array(conf[lst("n")].values)
    BY <2>0, <2>1 DEF ReadSoFar
  <2>5. said("c") # {} /\ cores = Array(conf[lst("c")].values)
    BY <2>0, <2>1 DEF ReadSoFar
  <2> QED BY <2>2, <2>3, <2>4, <2>5 DEF ConfTopology
<1> QED BY <1>2, <1>3, InputsHold, PTL

-----------------------------------------------------------------------------
(* The contexts and their cores.                                           *)

\* What is known of the contexts when the first k of them have been met: a
\* context is set aside when a smaller one of its core is among these.
Scanned(k) ==
  \A c \in Contexts :
    /\ ctx_ids[c] = "smt"  <=> \E d \in machine.siblings[c] : d < c /\ d < k
    /\ ctx_ids[c] = "core" <=> c < k /\ \A d \in machine.siblings[c] : c <= d

\* The contexts taken for a core are the least of each.
CoresFound == {c \in Contexts : IsCore(c)} = CoresOf(Contexts)

CoresCounted == core_cnt = Cardinality(CoresOf(Contexts)) \div TotalNodes

\* sysfs has been read, and the topology returned as a success.
SysfsSucceeded == pc = "done" /\ ret = 0 /\ parser = "sysfs"

\* What each stage of the parser of sysfs has from those before it.
SysfsRead ==
  /\ pc = "lines" => parser = "conf"
  /\ pc = "contexts" => i \in Contexts /\ Scanned(i)
  /\ \/ pc \in {"alloc_cores", "node_cpus", "packages", "alloc_nodes", "assign"}
     \/ SysfsSucceeded
     => CoresFound
  /\ pc \in {"node_cpus", "packages", "alloc_nodes", "assign"} \/ SysfsSucceeded
     => CoresCounted

\* The contexts are numbered from 0, and sharing a core is an equivalence.
LEMMA MachineIs ==
  ASSUME InputsAre
  PROVE  /\ Cardinality(Contexts) \in Nat \ {0} /\ Contexts = 0 .. Cardinality(Contexts) - 1
         /\ \A c \in Contexts : /\ c \in machine.siblings[c]
                                /\ machine.siblings[c] \subseteq Contexts
                                /\ \A d \in machine.siblings[c] :
                                     machine.siblings[d] = machine.siblings[c]
<1>1. /\ IsFiniteSet(Contexts) /\ Contexts # {} /\ Contexts = 0 .. Cardinality(Contexts) - 1
      /\ \A c \in Contexts : /\ c \in machine.siblings[c]
                             /\ machine.siblings[c] \subseteq Contexts
                             /\ \A d \in machine.siblings[c] :
                                  machine.siblings[d] = machine.siblings[c]
  BY InputsAssumption DEF InputsAre, Contexts
<1>2. Cardinality(Contexts) \in Nat \ {0}
  BY <1>1, FS_CardinalityType, FS_EmptySet
<1> QED BY <1>1, <1>2

\* When all contexts have been met, the cores are found.
LEMMA ScannedAll ==
  ASSUME InputsAre, Scanned(Cardinality(Contexts))
  PROVE  CoresFound
BY MachineIs DEF Scanned, CoresFound, CoresOf, LeastOf, IsCore

\* A context that has been set aside adds nothing to what is known.
LEMMA ScanSmt ==
  ASSUME InputsAre, i \in Contexts, Scanned(i), ctx_ids[i] = "smt"
  PROVE  Scanned(i + 1)
<1>1. PICK d \in machine.siblings[i] : d < i
  BY DEF Scanned
<1>2. i \in Nat /\ \A c \in Contexts : c \in Nat /\ machine.siblings[c] \subseteq Nat
  BY MachineIs
<1>3. ASSUME NEW c \in Contexts
      PROVE  /\ (\E e \in machine.siblings[c] : e < c /\ e < i + 1) <=>
                \E e \in machine.siblings[c] : e < c /\ e < i
             /\ c < i + 1 /\ (\A e \in machine.siblings[c] : c <= e) <=>
                c < i /\ \A e \in machine.siblings[c] : c <= e
  <2>1. i \in machine.siblings[c] => d \in machine.siblings[c]
    BY <1>1, MachineIs
  <2> QED BY <2>1, <1>1, <1>2, MachineIs
<1> QED BY <1>3 DEF Scanned

\* A context that has not been set aside is the least of its core.
LEMMA ScanCore ==
  ASSUME InputsAre, i \in Contexts, Scanned(i), ctx_ids[i] # "smt", UNCHANGED machine,
         ctx_ids' = [c \in Contexts |->
                       IF c = i THEN "core"
                       ELSE IF c \in machine.siblings[i] THEN "smt" ELSE ctx_ids[c]]
  PROVE  \A c \in Contexts :
           /\ ctx_ids'[c] = "smt"  <=> \E d \in machine.siblings[c] : d < c /\ d < i + 1
           /\ ctx_ids'[c] = "core" <=> c < i + 1 /\ \A d \in machine.siblings[c] : c <= d
<1>1. i \in Nat /\ \A c \in Contexts : c \in Nat /\ machine.siblings[c] \subseteq Nat
  BY MachineIs
<1>2. \A d \in machine.siblings[i] : i <= d
  BY <1>1 DEF Scanned
<1> TAKE c \in Contexts
<1>3. CASE c = i
  BY <1>1, <1>2, <1>3
<1>4. CASE c # i /\ c \in machine.siblings[i]
  <2>1. ctx_ids'[c] = "smt"
    BY <1>4
  <2>2. i \in machine.siblings[c] /\ i < c
    BY <1>1, <1>2, <1>4, MachineIs
  <2> QED BY <2>1, <2>2, <1>1
<1>5. CASE c # i /\ c \notin machine.siblings[i]
  <2>1. i \notin machine.siblings[c]
    BY <1>5, MachineIs
  <2>2. ctx_ids'[c] = ctx_ids[c]
    BY <1>5
  <2>3. \A d \in machine.siblings[c] : d < i + 1 <=> d < i
    BY <2>1, <1>1
  <2>4. c < i + 1 <=> c < i
    BY <1>5, <1>1
  <2> QED BY <2>2, <2>3, <2>4 DEF Scanned
<1> QED BY <1>3, <1>4, <1>5

\* Each context is met once, and then the next loop finds the cores.
LEMMA ContextsStep ==
  ASSUME InputsAre, SysfsRead, SkipContext \/ ReadSiblings
  PROVE  SysfsRead'
<1>0. pc = "contexts" /\ i \in Contexts /\ Scanned(i) /\ UNCHANGED <<machine, parser, ret>>
  BY DEF SysfsRead, SkipContext, ReadSiblings
<1>1. \A c \in Contexts :
        /\ ctx_ids'[c] = "smt"  <=> \E d \in machine.siblings[c] : d < c /\ d < i + 1
        /\ ctx_ids'[c] = "core" <=> c < i + 1 /\ \A d \in machine.siblings[c] : c <= d
  <2>1. CASE SkipContext
    BY <2>1, <1>0, ScanSmt DEF SkipContext, Scanned
  <2>2. CASE ReadSiblings
    BY <2>2, <1>0, ScanCore DEF ReadSiblings
  <2> QED BY <2>1, <2>2
<1>2. Contexts' = Contexts /\ \A c : (c \in CoresOf(Contexts))' <=> c \in CoresOf(Contexts)
  BY <1>0 DEF Contexts, CoresOf, LeastOf
<1>3. CASE i = Cardinality(Contexts) - 1
  <2>1. pc' = "alloc_cores"
    BY <1>3 DEF SkipContext, ReadSiblings, NextContext, Iterate
  <2>2. i + 1 = Cardinality(Contexts)
    BY <1>3, MachineIs
  <2>3. \A c \in Contexts : ctx_ids'[c] = "core" <=> c \in CoresOf(Contexts)
    BY <1>1, <2>2, MachineIs DEF CoresOf, LeastOf
  <2>4. CoresFound'
    BY <2>3, <1>2 DEF CoresFound, IsCore, CoresOf, LeastOf
  <2> QED BY <2>1, <2>4 DEF SysfsRead, SysfsSucceeded
<1>4. CASE i # Cardinality(Contexts) - 1
  <2>1. pc' = "contexts" /\ i' = i + 1
    BY <1>0, <1>4 DEF SkipContext, ReadSiblings, NextContext, Iterate
  <2>2. i + 1 \in Contexts
    BY <1>0, <1>4, MachineIs
  <2>3. Scanned(i)'
    BY <1>0, <1>1, <1>2, <2>1 DEF Scanned
  <2> QED BY <1>2, <2>1, <2>2, <2>3 DEF SysfsRead, SysfsSucceeded
<1> QED BY <1>3, <1>4

\* Every other step keeps what has been found.
LEMMA SysfsReadStep ==
  ASSUME InputsAre, SysfsRead, [Next]_vars
  PROVE  SysfsRead'
<1> USE DEF SysfsSucceeded
<1>0. /\ Contexts' = Contexts /\ TotalNodes' = TotalNodes
      /\ CoresOf(Contexts)' = CoresOf(Contexts)
  BY InputsStay DEF Contexts, Nodes, TotalNodes, CoresOf, LeastOf
<1>1. ASSUME UNCHANGED ctx_ids PROVE CoresFound' <=> CoresFound
  BY <1>0, <1>1 DEF CoresFound, IsCore
<1>2. ASSUME UNCHANGED core_cnt PROVE CoresCounted' <=> CoresCounted
  BY <1>0, <1>2 DEF CoresCounted
<1>3. CASE UNCHANGED vars
  <2>1. UNCHANGED <<machine, parser, pc, i, ctx_ids, core_cnt, ret>>
    BY <1>3 DEF vars
  <2>2. Scanned(i)' <=> Scanned(i)
    BY <2>1, <1>0 DEF Scanned
  <2> QED BY <2>1, <2>2, <1>0, <1>1, <1>2 DEF SysfsRead
<1>4. CASE ConfUnreadable \/ ConfBadLine
  BY <1>4 DEF ConfUnreadable, ConfBadLine, ConfFails, SysfsRead
<1>5. CASE ConfLine
  BY <1>5 DEF ConfLine, InLine, SysfsRead
<1>6. CASE ConfEnd
  BY <1>6 DEF ConfEnd, ConfEndChecking, ConfFails, Return, SysfsRead
<1>7. CASE ReadFails
  BY <1>7 DEF ReadFails, Return, SysfsRead
<1>8. CASE ReadOnline
  <2>1. /\ pc' = "contexts" /\ i' = 0
        /\ \A c \in Contexts : ctx_ids'[c] = "online"
    BY <1>8 DEF ReadOnline
  <2>2. 0 \in Contexts /\ \A c \in Contexts : c \in Nat /\ machine.siblings[c] \subseteq Nat
    BY MachineIs
  <2>3. Scanned(i)'
    BY <2>1, <2>2, <1>0, InputsStay DEF Scanned
  <2> QED BY <2>1, <2>2, <2>3, <1>0 DEF SysfsRead
<1>9. CASE SkipContext \/ ReadSiblings
  BY <1>9, ContextsStep
<1>10. CASE AllocCores
  <2>1. pc = "alloc_cores" /\ core_cnt' = TotalCores \div TotalNodes /\ UNCHANGED ctx_ids
        /\ (pc' = "node_cpus" \/ (pc' = "done" /\ ret' = 3))
    BY <1>10 DEF AllocCores, AllocRows, Return
  <2>2. CoresFound /\ CoresFound'
    BY <2>1, <1>1 DEF SysfsRead
  <2>3. CoresCounted'
    BY <2>1, <2>2, <1>0 DEF CoresCounted, CoresFound, TotalCores
  <2> QED BY <2>1, <2>2, <2>3 DEF SysfsRead
<1>11. CASE ReadNodeCpus \/ ReadPackage \/ AllocNodes \/ Assign \/ AssignCrashes
  <2>1. /\ pc \in {"node_cpus", "packages", "alloc_nodes", "assign"}
        /\ UNCHANGED <<ctx_ids, core_cnt>>
        /\ pc' \in {"node_cpus", "packages", "alloc_nodes", "assign", "done", "crashed"}
    <3>1. CASE ReadNodeCpus
      BY <3>1 DEF ReadNodeCpus
    <3>2. CASE ReadPackage
      BY <3>2 DEF ReadPackage, Iterate
    <3>3. CASE AllocNodes
      BY <3>3 DEF AllocNodes
    <3>4. CASE Assign
      <4>1. /\ pc = "assign" /\ UNCHANGED <<ctx_ids, counts>>
            /\ (IF i = socket_cnt * TotalNodes - 1 THEN Return(0) /\ UNCHANGED i
                                                   ELSE i' = i + 1 /\ UNCHANGED <<pc, ret>>)
        BY <3>4 DEF Assign, AssignFrom
      <4> QED BY <4>1 DEF Return, counts
    <3>5. CASE AssignCrashes
      BY <3>5 DEF AssignCrashes, counts
    <3> QED BY <1>11, <3>1, <3>2, <3>3, <3>4, <3>5
  <2> QED BY <2>1, <1>1, <1>2 DEF SysfsRead
<1>12. CASE Log \/ LogUndefined
  BY <1>12 DEF Log, LogUndefined, SysfsRead
<1> QED BY <1>3, <1>4, <1>5, <1>6, <1>7, <1>8, <1>9, <1>10, <1>11, <1>12 DEF Next, Stopped

\* "Determine the processor topology of current machine, i.e., the sockets,
\* nodes and cores" (reeact_utils.h): after a success of the parser of sysfs the
\* contexts that it took for cores are one of each core, the least, and
\* core_cnt is their number divided by that of the nodes.
THEOREM CoresAreFound == Spec => [](SysfsSucceeded => CoresFound /\ CoresCounted)
<1>1. Init => SysfsRead
  BY DEF Init, SysfsRead, SysfsSucceeded
<1>2. SysfsRead => (SysfsSucceeded => CoresFound /\ CoresCounted)
  BY DEF SysfsRead
<1> QED BY <1>1, <1>2, SysfsReadStep, InputsHold, PTL DEF Spec

=============================================================================
