----------------------------- MODULE NumaConfig -----------------------------
(***************************************************************************)
(* How the engine divides the processors into NUMA nodes and the threads   *)
(* among them (numa.h). A configuration is a sequence of sets of           *)
(* processors, and whether it departs from the affinity the system gave.   *)
(*                                                                         *)
(* The inputs come from the system or from the user; each behaviour takes  *)
(* one input and the properties are about what is made of it.              *)
(***************************************************************************)
EXTENDS Integers, FiniteSetsExt, SequencesExt

CONSTANTS Cpus,       \* processors
          MaxThreads, \* bound on the threads asked for
          GroupSize,  \* WIN_PROCESSOR_GROUP_SIZE
          MaxDomains  \* bound on the level 3 caches

ASSUME CpusAssumption == Cpus \subseteq Nat
ASSUME NumaBoundsAssumption == MaxThreads \in Nat /\ MaxDomains \in Nat /\ GroupSize \in Nat \ {0}

EmptyConfig == [nodes |-> <<>>, custom |-> FALSE]

NumNodes(cfg) == Len(cfg.nodes)
NodeSize(cfg, n) == Cardinality(cfg.nodes[n])
IsAssigned(cfg, c) == \E n \in DOMAIN cfg.nodes : c \in cfg.nodes[n]

\* add_cpu_to_node; a processor that has a node is refused.
AddCpuToNode(cfg, n, c) ==
  IF IsAssigned(cfg, c) THEN cfg
  ELSE [cfg EXCEPT !.nodes =
         [k \in 1 .. Max({n, Len(@)}) |->
            (IF k \in DOMAIN @ THEN @[k] ELSE {}) \cup (IF k = n THEN {c} ELSE {})]]

\* The members of a finite set in an order, a set of pairs; and of a set of numbers.
InOrder(S, order) ==
  [k \in 1 .. Cardinality(S) |-> CHOOSE x \in S : Cardinality({y \in S : <<y, x>> \in order}) = k]
Ascending(S) == InOrder(S, {x \in S \X S : x[1] <= x[2]})

RemoveEmptyNodes(cfg) ==
  LET kept == Ascending({n \in DOMAIN cfg.nodes : cfg.nodes[n] # {}})
  IN  [cfg EXCEPT !.nodes = [k \in DOMAIN kept |-> @[kept[k]]]]

RequiresMemoryReplication(cfg) == cfg.custom \/ NumNodes(cfg) > 1

\* from_string: the lists between the colons; empty ones are skipped, and a
\* processor named twice ends the program.
Refused == [nodes |-> <<>>, custom |-> TRUE]
Places(lists) == UNION {{<<n, i>> : i \in DOMAIN lists[n]} : n \in DOMAIN lists}
NamedTwice(lists) ==
  \E x, y \in Places(lists) : x # y /\ lists[x[1]][x[2]] = lists[y[1]][y[2]]
FromString(lists) ==
  LET named == Ascending({n \in DOMAIN lists : lists[n] # <<>>})
  IN  IF NamedTwice(lists) THEN Refused
      ELSE [nodes |-> [k \in DOMAIN named |-> Range(lists[named[k]])], custom |-> TRUE]

\* The ranges that to_string writes for one node, and what
\* indices_from_shortened_string makes of them.
Ranges(cpus) == {r \in cpus \X cpus :
                   /\ r[1] <= r[2] /\ r[1] .. r[2] \subseteq cpus
                   /\ r[1] - 1 \notin cpus /\ r[2] + 1 \notin cpus}
Indices(ranges) == UNION {r[1] .. r[2] : r \in ranges}

\* from_system on Windows: a node is cut where the processor group changes.
ProcGroup(c) == c \div GroupSize
Pieces(ns) == UNION {{<<n, ProcGroup(c)>> : c \in ns[n]} : n \in DOMAIN ns}
Precedes(x, y) == x[1] < y[1] \/ (x[1] = y[1] /\ x[2] <= y[2])
SplitByGroup(cfg) ==
  LET pieces == InOrder(Pieces(cfg.nodes), {x \in Pieces(cfg.nodes) \X Pieces(cfg.nodes) : Precedes(x[1], x[2])})
  IN  [cfg EXCEPT !.nodes = [k \in DOMAIN pieces |-> {c \in @[pieces[k][1]] : ProcGroup(c) = pieces[k][2]}]]

\* from_l3_info, for the caches of one system node: one pass merges neighbours
\* that fit into a bundle, and passes go on until nothing changes.
Fits(ds, j, bundleSize) == j < Len(ds) /\ Cardinality(ds[j]) + Cardinality(ds[j + 1]) <= bundleSize
Merged(ds, j) == SubSeq(ds, 1, j - 1) \o <<ds[j] \cup ds[j + 1]>> \o SubSeq(ds, j + 2, Len(ds))
MergePass(ds, bundleSize) ==
  LET pass[j \in 0 .. Len(ds)] ==
        IF j = 0 THEN ds
        ELSE IF Fits(pass[j - 1], j, bundleSize) THEN Merged(pass[j - 1], j) ELSE pass[j - 1]
  IN  pass[Len(ds)]
\* A pass that changes something leaves one cache less.
MergeDomains(ds, bundleSize) ==
  LET passes[n \in 0 .. Len(ds)] == IF n = 0 THEN ds ELSE MergePass(passes[n - 1], bundleSize)
  IN  passes[Len(ds)]

\* suggests_binding_threads; a node is small at 0.6 of the largest.
SuggestsBinding(cfg, numThreads) ==
  LET largest  == Max({NodeSize(cfg, n) : n \in DOMAIN cfg.nodes})
      notSmall == Cardinality({n \in DOMAIN cfg.nodes : 10 * NodeSize(cfg, n) > 6 * largest})
  IN  \/ cfg.custom
      \/ /\ numThreads > 1 /\ NumNodes(cfg) > 1
         /\ numThreads > largest \div 2 \/ numThreads >= 4 * notSmall

Occupation(ns, n) == Cardinality({t \in DOMAIN ns : ns[t] = n})

\* Mutant: threads are counted, processors are not.
BestNodeByCount(cfg, ns) ==
  CHOOSE n \in DOMAIN cfg.nodes :
    /\ \A m \in DOMAIN cfg.nodes : Occupation(ns, n) <= Occupation(ns, m)
    /\ \A m \in 1 .. n - 1 : Occupation(ns, n) < Occupation(ns, m)

\* One turn of distribute_threads_among_numa_nodes: the first node that would
\* be the least full.
BestNode(cfg, ns) ==
  LET Less(n, m) == (Occupation(ns, n) + 1) * NodeSize(cfg, m) < (Occupation(ns, m) + 1) * NodeSize(cfg, n)
  IN  CHOOSE n \in DOMAIN cfg.nodes :
        /\ \A m \in DOMAIN cfg.nodes : ~Less(m, n)
        /\ \A m \in 1 .. n - 1 : Less(n, m)

\* distribute_threads_among_numa_nodes: the node of each thread, by those of the threads before it.
NextNode(cfg, ns) == IF NumNodes(cfg) = 1 THEN 1 ELSE BestNode(cfg, ns)
FirstOf(ns, k) == [t \in 1 .. k |-> ns[t]]
Distribution(cfg, numThreads) ==
  CHOOSE ns \in [1 .. numThreads -> DOMAIN cfg.nodes] :
    \A t \in 1 .. numThreads : ns[t] = NextNode(cfg, FirstOf(ns, t - 1))

-----------------------------------------------------------------------------
(* One input at a time.                                                    *)

VARIABLES numaIn, numaOut
numaVars == <<numaIn, numaOut>>

NoInput == [kind |-> "none"]
NumaInit == numaIn = NoInput /\ numaOut = EmptyConfig

\* A partition of some processors, built as from_system_numa does: one
\* processor after the other goes to the node the system names.
AddSystemCpu ==
  /\ numaIn.kind \in {"none", "system"}
  /\ \E c \in Cpus, n \in 1 .. 3 :
       /\ ~IsAssigned(numaOut, c) /\ (\A d \in Cpus : IsAssigned(numaOut, d) => d < c)
       /\ numaOut' = AddCpuToNode(numaOut, n, c)
  /\ numaIn' = [kind |-> "system"]

\* from_system ends.
FinishSystem(windows) ==
  /\ numaIn.kind = "system"
  /\ numaIn' = [kind |-> "config", from |-> numaOut, windows |-> windows]
  /\ numaOut' = IF windows THEN RemoveEmptyNodes(SplitByGroup(RemoveEmptyNodes(numaOut)))
                ELSE RemoveEmptyNodes(numaOut)

\* The user names the processors of each node.
ParseString(lists) ==
  /\ numaIn.kind = "none"
  /\ numaIn' = [kind |-> "string", lists |-> lists]
  /\ numaOut' = FromString(lists)

\* Threads are distributed over a configuration.
DistributeThreads(numThreads) ==
  /\ numaIn.kind = "config" /\ ~numaIn.windows
  /\ numaIn' = [kind |-> "threads", cfg |-> numaOut, count |-> numThreads]
  /\ numaOut' = [numaOut EXCEPT !.nodes = Distribution(numaOut, numThreads)]

\* from_l3_info takes the caches of one node, given by their sizes; a processor is
\* named by its cache and its number there.
BundleDomains(sizes, bundleSize) ==
  /\ numaIn.kind = "none"
  /\ LET ds == [k \in DOMAIN sizes |-> {k} \X (1 .. sizes[k])] IN
     /\ numaIn' = [kind |-> "domains", ds |-> ds, bundle |-> bundleSize]
     /\ numaOut' = [nodes |-> MergeDomains(ds, bundleSize), custom |-> FALSE]

NumaNext ==
  \/ AddSystemCpu
  \/ \E windows \in BOOLEAN : FinishSystem(windows)
  \/ \E numThreads \in 1 .. MaxThreads : DistributeThreads(numThreads)
  \/ \E k \in 1 .. MaxDomains : \E sizes \in [1 .. k -> 1 .. 3], bundleSize \in 0 .. 6 :
       BundleDomains(sizes, bundleSize)
  \/ \E lists \in SeqOf(SeqOf(1 .. 3, 2), 3) : ParseString(lists)
NumaSpec == NumaInit /\ [][NumaNext]_numaVars

-----------------------------------------------------------------------------
(* Properties.                                                             *)

\* What from_system makes of the processors keeps each of them, in one node,
\* and leaves no node empty; on Windows no node spans two processor groups.
ConfigPartitions ==
  numaIn.kind = "config" =>
    LET ns == numaOut.nodes IN
    /\ \A n \in DOMAIN ns : ns[n] # {}
    /\ \A n, m \in DOMAIN ns : n # m => ns[n] \cap ns[m] = {}
    /\ UNION Range(ns) = UNION Range(numaIn.from.nodes)
    /\ numaIn.windows => \A n \in DOMAIN ns : \A c, d \in ns[n] : ProcGroup(c) = ProcGroup(d)

\* The text of a configuration is the configuration: the ranges of every node
\* name its processors, each once.
TextNamesConfig ==
  numaIn.kind = "config" =>
    \A n \in DOMAIN numaOut.nodes :
      LET ranges == Ranges(numaOut.nodes[n]) IN
      /\ Indices(ranges) = numaOut.nodes[n]
      /\ \A r, s \in ranges : r # s => (r[1] .. r[2]) \cap (s[1] .. s[2]) = {}

\* A configuration that is accepted has as many nodes as lists that name a
\* processor, none empty, no processor in two of them, and none lost.
StringNamesNodes ==
  numaIn.kind = "string" /\ numaOut # Refused =>
    LET ns == numaOut.nodes IN
    /\ Len(ns) = Cardinality({k \in DOMAIN numaIn.lists : numaIn.lists[k] # <<>>})
    /\ \A n, m \in DOMAIN ns : ns[n] # {} /\ (n # m => ns[n] \cap ns[m] = {})
    /\ Cardinality(UNION Range(ns)) = Cardinality(Places(numaIn.lists))

\* Threads are spread evenly: no node is so full that moving one of its threads
\* to another would leave that one less full than it was.
DistributionIsFair ==
  numaIn.kind = "threads" =>
    LET cfg == numaIn.cfg  ns == numaOut.nodes IN
    /\ Len(ns) = numaIn.count
    /\ \A n, m \in DOMAIN cfg.nodes :
         Occupation(ns, n) * NodeSize(cfg, m) <= (Occupation(ns, m) + 1) * NodeSize(cfg, n)

\* Bundling keeps every processor, in one bundle, exceeds the size only by a cache that was
\* that large alone, and leaves no two neighbours that would fit together.
BundlesFit ==
  numaIn.kind = "domains" =>
    LET out == numaOut.nodes IN
    /\ UNION Range(out) = UNION Range(numaIn.ds)
    /\ \A k, m \in DOMAIN out : k # m => out[k] \cap out[m] = {}
    /\ \A k \in DOMAIN out : Cardinality(out[k]) <= numaIn.bundle \/ out[k] \in Range(numaIn.ds)
    /\ \A k \in 1 .. Len(out) - 1 : Cardinality(out[k]) + Cardinality(out[k + 1]) > numaIn.bundle

\* A configuration built from the system, a string or a refinement keeps each processor in one
\* node, says so in its string, and distributes threads fairly over its nodes.
ConfigRight == ConfigPartitions /\ TextNamesConfig /\ StringNamesNodes /\ DistributionIsFair /\ BundlesFit
=============================================================================
