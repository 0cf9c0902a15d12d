---------------------------- MODULE MCEngineMemory ----------------------------
(***************************************************************************)
(* The memory that threads and processes share: the networks of all         *)
(* processes, their copies on NUMA nodes, the histories                   *)
(* and the files of the endgame tables. One part runs, the others rest.     *)
(***************************************************************************)
EXTENDS SharedMemory, NumaReplication, TBTables, History, TLC

CONSTANTS i1, i2, p1, p2, t1, t2

VARIABLE part

MCProcessOf == (i1 :> p1) @@ (i2 :> p2)

MCConfigs == {
  [nodes |-> <<{0, 1}>>, custom |-> FALSE], [nodes |-> <<{0, 1}>>, custom |-> TRUE],
  [nodes |-> <<{0}, {1, 2}>>, custom |-> FALSE], [nodes |-> <<{0}, {1}, {2}>>, custom |-> TRUE]}

\* Keys that share a bucket, a table with one key for both sides, a bad file and a missing one.
MCHome == ("a" :> 0) @@ ("a2" :> 1) @@ ("b" :> 0) @@ ("b2" :> 2) @@ ("c" :> 1) @@ ("d" :> 0)
MCTables == {<<"a", "a2">>, <<"b", "b2">>, <<"c", "c">>}
MCFiles == (<<"a", "a2">> :> "good") @@ (<<"b", "b2">> :> "bad") @@ (<<"c", "c">> :> "missing")

MCHistTables == {"pawn", "corr"}
MCLimit == ("pawn" :> 7) @@ ("corr" :> 4)
MCFill == ("pawn" :> -2) @@ ("corr" :> 0)
MCBonuses == {-9, 3}

-----------------------------------------------------------------------------
Init ==
  /\ part \in {"regions", "nodes", "copies", "files", "histories"}
  /\ ShmInit /\ NumaInit /\ RepInit /\ TBInit /\ HistInit

Next ==
  /\ UNCHANGED part
  /\ \/ part = "regions" /\ ShmNext /\ UNCHANGED <<numaVars, repVars, tbVars, histVars>>
     \/ part = "nodes" /\ NumaNext /\ UNCHANGED <<shmVars, repVars, tbVars, histVars>>
     \/ part = "copies" /\ RepNext /\ UNCHANGED <<shmVars, numaVars, tbVars, histVars>>
     \/ part = "files" /\ TBNext /\ UNCHANGED <<shmVars, numaVars, repVars, histVars>>
     \/ part = "histories" /\ HistNext /\ UNCHANGED <<shmVars, numaVars, repVars, tbVars>>

\* A thread that can go on in a call does, and gets a lock that others release again and
\* again. A signal may stop any call of its process but the handler's own, and then the
\* process ends.
Fairness ==
  /\ \A i \in Instances :
       LET Runs == process[ProcessOf[i]] = "alive" \/ Handled(i)
       IN  WF_shmVars(Runs /\ Proceed(i)) /\ SF_shmVars(Runs /\ LockFile(i))
  /\ \A p \in Processes : WF_shmVars(DieOfSignal(p))
  /\ \A t \in TBThreads : /\ WF_tbVars(LookReady(t) \/ RecheckReady(t) \/ MapFile(t) \/ Publish(t))
                         /\ SF_tbVars(LockMapped(t))

Spec == Init /\ [][Next]_<<part, shmVars, numaVars, repVars, tbVars, histVars>> /\ Fairness

\* Opening and closing a shared region ends wherever other processes die, and so does a probe
\* that waits for the one mutex of all files (SharedMemory::open, mapped).
EveryCallEnds == CallsEnd /\ ProbesEnd
=============================================================================
