-------------------------------- MODULE History --------------------------------
(***************************************************************************)
(* Histories and correction histories (history.h, and their updates in     *)
(* search.cpp). Threads of one NUMA node share tables whose entries they   *)
(* read and write without locks; an update that is lost is accepted, a     *)
(* value out of range is not. Before a game every thread clears its part   *)
(* of the tables.                                                          *)
(***************************************************************************)
EXTENDS Integers, FiniteSets, Sequences

CONSTANTS HistThreads,    \* how many threads share the tables
          HistTables,     \* the tables
          Limit,          \* D of each table
          Fill,           \* what each table is cleared with
          Bonuses,        \* of an update, before it is clamped
          SizeMultiplier, \* entries per thread
          MaxUpdates      \* how many updates a thread makes

ASSUME HistoryAssumption ==
  /\ HistTables # {} /\ HistThreads \in Nat \ {0} /\ SizeMultiplier \in Nat \ {0}
  /\ Limit \in [HistTables -> Nat \ {0}]
  /\ Fill \in [HistTables -> Int]
  /\ \A t \in HistTables : Fill[t] \in -Limit[t] .. Limit[t]
  /\ Bonuses \subseteq Int
  /\ MaxUpdates \in Nat

ThreadIds == 0 .. HistThreads - 1
\* DynStats: the size of a table, and the part of it that a thread clears.
TableSize == HistThreads * SizeMultiplier
Entries == 0 .. TableSize - 1
PartOf(i) == (i * TableSize) \div HistThreads .. (IF i + 1 = HistThreads THEN TableSize ELSE ((i + 1) * TableSize) \div HistThreads) - 1
\* SharedHistories: the entry of a key, of which the low bits are taken; sizes are powers of two.
EntryOf(key) == key % TableSize

\* StatsEntry::operator<<. Division truncates.
Clamp(b, D) == IF b > D THEN D ELSE IF b < -D THEN -D ELSE b
Magnitude(b) == IF b < 0 THEN -b ELSE b
Quotient(x, D) == IF x >= 0 THEN x \div D ELSE -((-x) \div D)
\* Mutant: the bonus is not clamped.
UpdatedUnclamped(val, bonus, D) == val + bonus - Quotient(val * Magnitude(bonus), D)

Updated(val, bonus, D) == val + Clamp(bonus, D) - Quotient(val * Magnitude(Clamp(bonus, D)), D)

VARIABLES stats,    \* of each table
          task,     \* what each thread does: "clear", "search", "update"
          todo,     \* the entries that a thread has to clear
          update,  \* the update that a thread is in: [table, index, bonus, val]
          updates   \* how many each thread has made
histVars == <<stats, task, todo, update, updates>>

NoUpdate == [table |-> CHOOSE t \in HistTables : TRUE, index |-> 0, bonus |-> 0, val |-> 0]

HistInit ==
  /\ stats = [t \in HistTables |-> [i \in Entries |-> 0]]
  /\ task = [i \in ThreadIds |-> "clear"]
  /\ todo = [i \in ThreadIds |-> HistTables \X PartOf(i)]
  /\ update = [i \in ThreadIds |-> NoUpdate]
  /\ updates = [i \in ThreadIds |-> 0]

\* Worker::clear, one entry after another.
ClearEntry(i) ==
  /\ task[i] = "clear"
  /\ \E x \in todo[i] :
       /\ stats' = [stats EXCEPT ![x[1]] = [@ EXCEPT ![x[2]] = Fill[x[1]]]]
       /\ todo' = [todo EXCEPT ![i] = @ \ {x}]
  /\ UNCHANGED <<task, update, updates>>
\* The pool waits for all of them before a search.
StartSearches ==
  /\ \A i \in ThreadIds : task[i] = "clear" /\ todo[i] = {}
  /\ task' = [i \in ThreadIds |-> "search"]
  /\ UNCHANGED <<stats, todo, update, updates>>
\* An update reads the stats of a key and later writes it.
ReadEntry(i) ==
  /\ task[i] = "search" /\ updates[i] < MaxUpdates
  /\ \E t \in HistTables, key \in Entries, b \in Bonuses :
       update' = [update EXCEPT ![i] = [table |-> t, index |-> EntryOf(key), bonus |-> b, val |-> stats[t][EntryOf(key)]]]
  /\ task' = [task EXCEPT ![i] = "update"]
  /\ updates' = [updates EXCEPT ![i] = @ + 1]
  /\ UNCHANGED <<stats, todo>>
WriteEntry(i) ==
  LET u == update[i]
  IN  /\ task[i] = "update"
      /\ stats' = [stats EXCEPT ![u.table] = [@ EXCEPT ![u.index] = Updated(u.val, u.bonus, Limit[u.table])]]
      /\ task' = [task EXCEPT ![i] = "search"]
      /\ UNCHANGED <<todo, update, updates>>
\* A new game: no thread searches while they clear.
NewGame ==
  /\ \A i \in ThreadIds : task[i] = "search"
  /\ task' = [i \in ThreadIds |-> "clear"]
  /\ todo' = [i \in ThreadIds |-> HistTables \X PartOf(i)]
  /\ UNCHANGED <<stats, update, updates>>

HistNext ==
  \/ StartSearches \/ NewGame
  \/ \E i \in ThreadIds : ClearEntry(i) \/ ReadEntry(i) \/ WriteEntry(i)
HistSpec == HistInit /\ [][HistNext]_histVars

-----------------------------------------------------------------------------
\* No interleaving of updates takes an entry out of its range (the assert of operator<<).
HistoryInRange == \A t \in HistTables, i \in Entries : stats[t][i] \in -Limit[t] .. Limit[t]
=============================================================================
