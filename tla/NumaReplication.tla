-------------------------- MODULE NumaReplication ---------------------------
(***************************************************************************)
(* The copies of the network that the threads of the engine read, one for  *)
(* each NUMA node (numa.h, thread.cpp, engine.cpp). The UCI thread changes *)
(* the configuration, the threads and the network; copies that are missing *)
(* are made by whichever worker asks first, under a lock that is taken     *)
(* only when an unlocked look finds nothing.                               *)
(*                                                                         *)
(* An instance is the version of the network it holds, 0 when it is        *)
(* absent. The unlocked look races with the store; the store is one step,  *)
(* as the index of the variant is written last.                            *)
(***************************************************************************)
EXTENDS NumaConfig

CONSTANTS Configs,  \* configurations the options can select
          Policies, \* of "none", "auto" and "system"
          MaxNumaOps \* bound on the commands of the GUI

\* from_system and from_string leave no node empty, prepare_replicate_from asserts that there is
\* one, and the configuration at the start is a single node.
ASSUME ConfigsAssumption ==
  /\ \A cfg \in Configs :
       /\ cfg.custom \in BOOLEAN /\ NumNodes(cfg) \in Nat \ {0} /\ DOMAIN cfg.nodes = 1 .. NumNodes(cfg)
       /\ \A n \in DOMAIN cfg.nodes : cfg.nodes[n] # {} /\ IsFiniteSet(cfg.nodes[n])
  /\ \E cfg \in Configs : ~RequiresMemoryReplication(cfg)
ASSUME CommandsAssumption == MaxThreads > 0 /\ MaxNumaOps \in Nat /\ "none" \in Policies

VARIABLES
  config, policy, requested, \* the options NumaPolicy and Threads
  instances, \* LazyNumaReplicatedSystemWide::instances
  version,   \* the network last loaded
  tokens,    \* the node of each thread: numaAccessToken, counted from 1
  slices,    \* idxInNuma and totalNuma of each thread
  histories, \* the nodes that have a shared history, with its share count
  upc,       \* what the UCI thread is in
  wpc,       \* where each worker is in operator[]
  holder,    \* of LazyNumaReplicatedSystemWide::mutex
  builds,    \* how often each copy was made since they were prepared
  exported,  \* whether the networks were saved since threads last touched them
  numaOps

repVars == <<config, policy, requested, instances, version, tokens, slices, histories, upc, wpc,
             holder, builds, exported, numaOps>>

NoHolder == 0
Absent == 0
Workers == DOMAIN tokens

\* prepare_replicate_from: one copy now, the others when they are asked for.
Prepare(cfg, v) ==
  [n \in 1 .. (IF RequiresMemoryReplication(cfg) THEN NumNodes(cfg) ELSE 1) |->
     IF n = 1 THEN v ELSE Absent]
Built(insts) == [n \in DOMAIN insts |-> IF insts[n] = Absent THEN 0 ELSE 1]

Replicate(cfg, v) ==
  /\ instances' = Prepare(cfg, v)
  /\ builds' = Built(instances')

FirstConfig == CHOOSE cfg \in Configs : ~RequiresMemoryReplication(cfg)

RepInit ==
  /\ config = FirstConfig /\ policy = "none" /\ requested = 1
  /\ version = 1 /\ instances = Prepare(FirstConfig, 1) /\ builds = Built(instances)
  /\ tokens = <<>> /\ slices = <<>> /\ histories = <<>>
  /\ upc = "create" /\ wpc = <<>> /\ holder = NoHolder
  /\ exported = FALSE /\ numaOps = 0

Command == upc = "idle" /\ numaOps < MaxNumaOps /\ numaOps' = numaOps + 1

\* doBindThreads
Binds == CASE policy = "none" -> FALSE
           [] policy = "auto" -> SuggestsBinding(config, requested)
           [] OTHER -> TRUE

\* boundThreadToNumaNode, or node 1 for all when threads are not bound.
NodesOfThreads == IF Binds THEN Distribution(config, requested) ELSE [t \in 1 .. requested |-> 1]

\* ThreadPool::set destroys the threads it has.
DestroyThreads == tokens' = <<>> /\ slices' = <<>> /\ wpc' = <<>> /\ upc' = "create"

\* Engine::set_numa_config_from_option: the copies follow the new
\* configuration, then resize_threads. "none" stands for the default one.
SetNumaPolicy(cfg, p) ==
  /\ Command
  /\ (p = "none" => cfg = FirstConfig) /\ (p = "auto" => ~cfg.custom)
  /\ config' = cfg /\ policy' = p
  /\ Replicate(cfg, instances[1])
  /\ DestroyThreads
  /\ UNCHANGED <<requested, version, histories, holder, exported>>

\* Option Threads, Engine::resize_threads.
SetThreads(k) ==
  /\ Command
  /\ requested' = k
  /\ DestroyThreads
  /\ UNCHANGED <<config, policy, instances, version, histories, holder, builds, exported>>

\* ThreadPool::set: before the first thread, the shared histories.
MakeHistories ==
  /\ upc = "create" /\ tokens = <<>>
  /\ histories' = [n \in Range(NodesOfThreads) |-> Occupation(NodesOfThreads, n)]
  /\ upc' = "threads"
  /\ UNCHANGED <<config, policy, requested, instances, version, tokens, slices, wpc, holder, builds,
                 exported, numaOps>>

\* Its loop: one thread, whose constructor waits for the worker that its job
\* makes; the worker reads the network of its node, nobody else is at work.
CreateThread ==
  /\ upc = "threads" /\ Len(tokens) < requested
  /\ LET t == Len(tokens) + 1  n == NodesOfThreads[t] IN
     /\ tokens' = Append(tokens, n)
     /\ slices' = Append(slices, [idx |-> Occupation(tokens, n), total |-> Occupation(NodesOfThreads, n)])
     /\ wpc' = Append(wpc, "done")
     /\ instances' = [instances EXCEPT ![n] = IF @ = Absent THEN instances[1] ELSE @]
     /\ builds' = [builds EXCEPT ![n] = IF instances[n] = Absent THEN @ + 1 ELSE @]
  /\ UNCHANGED <<config, policy, requested, version, histories, upc, holder, exported, numaOps>>

AllLook == wpc' = [t \in Workers |-> "look"]

\* ThreadPool::clear at the end of set: all workers at once.
ClearPool ==
  /\ upc = "threads" /\ Len(tokens) = requested
  /\ upc' = "clear" /\ AllLook
  /\ UNCHANGED <<config, policy, requested, instances, version, tokens, slices, histories, holder,
                 builds, exported, numaOps>>

\* Engine::load_big_network: modify_and_replicate, then the pool is cleared.
LoadNetwork ==
  /\ Command
  /\ version' = version + 1
  /\ Replicate(config, version + 1)
  /\ upc' = "clear" /\ AllLook
  /\ UNCHANGED <<config, policy, requested, tokens, slices, histories, holder, exported>>

\* Engine::save_network modifies nothing and replicates all the same.
SaveNetwork ==
  /\ Command
  /\ Replicate(config, instances[1])
  /\ exported' = TRUE
  /\ UNCHANGED <<config, policy, requested, version, tokens, slices, histories, upc, wpc, holder>>

\* ThreadPool::start_thinking: the workers search with the network of their node.
Go ==
  /\ Command
  /\ upc' = "search" /\ AllLook
  /\ UNCHANGED <<config, policy, requested, instances, version, tokens, slices, histories, holder,
                 builds, exported>>

\* operator[] and ensure_present: the unlocked look.
Look(t) ==
  /\ wpc[t] = "look"
  /\ wpc' = [wpc EXCEPT ![t] = IF instances[tokens[t]] # Absent THEN "done" ELSE "lock"]
  /\ UNCHANGED <<config, policy, requested, instances, version, tokens, slices, histories, upc,
                 holder, builds, exported, numaOps>>

Lock(t) ==
  /\ wpc[t] = "lock" /\ holder = NoHolder
  /\ holder' = t
  /\ wpc' = [wpc EXCEPT ![t] = "recheck"]
  /\ UNCHANGED <<config, policy, requested, instances, version, tokens, slices, histories, upc,
                 builds, exported, numaOps>>

\* Mutant: nobody checks again under the lock.
RecheckNot(t) ==
  /\ wpc[t] = "recheck"
  /\ wpc' = [wpc EXCEPT ![t] = "build"]
  /\ UNCHANGED <<config, policy, requested, instances, version, tokens, slices, histories, upc,
                 holder, builds, exported, numaOps>>

\* "Check again for races."
Recheck(t) ==
  /\ wpc[t] = "recheck"
  /\ IF instances[tokens[t]] # Absent
     THEN wpc' = [wpc EXCEPT ![t] = "done"] /\ holder' = NoHolder
     ELSE wpc' = [wpc EXCEPT ![t] = "build"] /\ UNCHANGED holder
  /\ UNCHANGED <<config, policy, requested, instances, version, tokens, slices, histories, upc,
                 builds, exported, numaOps>>

Build(t) ==
  /\ wpc[t] = "build"
  /\ instances' = [instances EXCEPT ![tokens[t]] = instances[1]]
  /\ builds' = [builds EXCEPT ![tokens[t]] = @ + 1]
  /\ holder' = NoHolder
  /\ wpc' = [wpc EXCEPT ![t] = "done"]
  /\ UNCHANGED <<config, policy, requested, version, tokens, slices, histories, upc, exported, numaOps>>

\* The workers are done; ensure_network_replicated touches every copy in turn.
EndClear ==
  /\ upc = "clear" /\ \A t \in Workers : wpc[t] = "done"
  /\ upc' = "idle" /\ exported' = FALSE
  /\ LET missing == {n \in Range(tokens) : instances[n] = Absent} IN
     /\ instances' = [n \in DOMAIN instances |-> IF n \in missing THEN instances[1] ELSE instances[n]]
     /\ builds' = [n \in DOMAIN builds |-> IF n \in missing THEN builds[n] + 1 ELSE builds[n]]
  /\ UNCHANGED <<config, policy, requested, version, tokens, slices, histories, wpc, holder, numaOps>>

EndSearch ==
  /\ upc = "search" /\ \A t \in Workers : wpc[t] = "done"
  /\ upc' = "idle"
  /\ UNCHANGED <<config, policy, requested, instances, version, tokens, slices, histories, wpc,
                 holder, builds, exported, numaOps>>

RepNext ==
  \/ \E cfg \in Configs, p \in Policies : SetNumaPolicy(cfg, p)
  \/ \E k \in 1 .. MaxThreads : SetThreads(k)
  \/ MakeHistories \/ CreateThread \/ ClearPool \/ LoadNetwork \/ SaveNetwork \/ Go
  \/ \E t \in Workers : Look(t) \/ Lock(t) \/ Recheck(t) \/ Build(t)
  \/ EndClear \/ EndSearch

RepSpec == RepInit /\ [][RepNext]_repVars

-----------------------------------------------------------------------------
(* Properties.                                                             *)

RepTypeOK ==
  /\ config \in Configs /\ policy \in Policies /\ requested \in 1 .. MaxThreads
  /\ version \in Nat /\ instances \in Seq(0 .. version) /\ builds \in Seq(Nat)
  /\ tokens \in Seq(Nat) /\ DOMAIN slices = Workers /\ DOMAIN wpc = Workers
  /\ upc \in {"create", "threads", "clear", "search", "idle"}
  /\ \A t \in Workers : wpc[t] \in {"look", "lock", "recheck", "build", "done"}
  /\ holder \in Workers \cup {NoHolder}
  /\ exported \in BOOLEAN /\ numaOps \in 0 .. MaxNumaOps

\* A worker that reads its network has a node that the copies and the shared
\* histories know, although the configuration, the copies and the threads are
\* replaced one after the other (the assertion of operator[], the at() of the
\* worker's constructor).
TokensInRange ==
  \A t \in Workers : tokens[t] \in DOMAIN instances /\ tokens[t] \in DOMAIN histories

\* All copies hold the network that was loaded last, so that all threads
\* search with the same one.
CopiesAgree == \A n \in DOMAIN instances : instances[n] \in {Absent, version}

\* No copy is made twice: one that a worker may be reading is not replaced.
CopiesMadeOnce == \A n \in DOMAIN builds : builds[n] <= 1

\* The threads of a node clear all of its shared history and no part twice:
\* their indices are those below their number.
SlicesCoverHistory ==
  upc \in {"clear", "search", "idle"} =>
    \A n \in DOMAIN histories :
      LET ts == {t \in Workers : tokens[t] = n} IN
      /\ {slices[t].idx : t \in ts} = 0 .. histories[n] - 1
      /\ \A t \in ts : slices[t].total = histories[n]

\* No copy is made while the engine searches ("we want to avoid initialization
\* during search"), unless the networks were saved to a file just before.
ReadyForSearch == upc = "search" /\ ~exported => \A t \in Workers : instances[tokens[t]] # Absent

\* After every legal sequence of commands each thread has a token of the configuration in
\* force, each node one copy of the network in force, and the slices of the histories cover
\* them: a search finds what it needs.
CopiesRight ==
  RepTypeOK /\ TokensInRange /\ CopiesAgree /\ CopiesMadeOnce /\ SlicesCoverHistory /\ ReadyForSearch
=============================================================================
