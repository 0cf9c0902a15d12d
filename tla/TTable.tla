------------------------------- MODULE TTable -------------------------------
(***************************************************************************)
(* The transposition table of the engine (tt.cpp): one cluster of entries  *)
(* that the searching threads probe and save without any lock, each field  *)
(* read and written by itself, and the arithmetic of its addresses, ages   *)
(* and slices.                                                             *)
(*                                                                         *)
(* A field that carries data (the move, the value with the evaluation)     *)
(* holds the position it was stored for, which is all the properties tell  *)
(* apart.                                                                  *)
(***************************************************************************)
EXTENDS Integers, FiniteSets

CONSTANTS TTThreads,   \* the searching threads
          Keys,        \* positions whose first entry is this cluster
          NoKey,       \* Move::none() and no value
          Key16,       \* the low 16 bits of each key
          ClusterSize, \* entries of a cluster
          Generations, \* generations before the counter wraps (2^5 in the code)
          Works,       \* what is saved: pv flag, bound and depth8 (the depth
                       \* less DEPTH_ENTRY_OFFSET)
          MaxSearches, MaxSaves \* bounds on the length of a behaviour

ASSUME KeysAssumption == NoKey \notin Keys /\ Key16 \in [Keys -> Nat]
ASSUME ClusterAssumption == ClusterSize \in Nat \ {0}
ASSUME GenerationsAssumption == Generations \in Nat \ {0}
ASSUME WorksAssumption == \* the depths are asserted in TTEntry::save
  Works \subseteq [pv : {0, 1}, b : 1 .. 3, d : 1 .. 255]
ASSUME TTBoundsAssumption == MaxSearches \in Nat /\ MaxSaves \in Nat

BOUND_EXACT == 3

-----------------------------------------------------------------------------
(* Generations.                                                            *)

GENERATION_DELTA == 8 \* 1 << GENERATION_BITS
Modulus == GENERATION_DELTA * Generations \* 256: generation8 is a byte
\* Mutant: the bits below the generation borrow from it.
CycleOfGenerations == Modulus

GENERATION_CYCLE == Modulus - 1 + GENERATION_DELTA

\* x & GENERATION_MASK
Masked(x) == (x % Modulus) - (x % GENERATION_DELTA)

\* TTEntry::relative_age
RelativeAge(generation8, genBound8) == Masked(GENERATION_CYCLE + generation8 - genBound8)

-----------------------------------------------------------------------------
(* Addresses and slices, for every size of the table.                      *)

\* first_entry: the high word of key * clusterCount, for words below W.
ClusterOf(key, clusterCount, W) == (key * clusterCount) \div W

\* The slice of thread i of TranspositionTable::clear.
Stride(clusterCount, threadCount) == clusterCount \div threadCount
SliceStart(i, clusterCount, threadCount) == Stride(clusterCount, threadCount) * i
SliceLen(i, clusterCount, threadCount) ==
  IF i + 1 # threadCount THEN Stride(clusterCount, threadCount)
  ELSE clusterCount - SliceStart(i, clusterCount, threadCount)
Slice(i, clusterCount, threadCount) ==
  {c \in 0 .. clusterCount - 1 :
     /\ SliceStart(i, clusterCount, threadCount) <= c
     /\ c < SliceStart(i, clusterCount, threadCount) + SliceLen(i, clusterCount, threadCount)}

-----------------------------------------------------------------------------
(* The cluster and the threads.                                            *)

Slots == 1 .. ClusterSize
Data == Keys \cup {NoKey}
Entry == [key16 : Nat, depth8 : 0 .. 255, genBound8 : 0 .. Modulus - 1,
          move16 : Data, value16 : Data]
Empty == [key16 |-> 0, depth8 |-> 0, genBound8 |-> 0, move16 |-> NoKey, value16 |-> NoKey]

VARIABLES
  table,       \* the entries of the cluster
  generation8, \* the generation of the current search
  searches,    \* how many searches were started
  born,        \* the search in which each entry got its generation
  writers,     \* the threads that have written to each entry
  ttpc,        \* where each thread is in probe and save
  ttkey, ttslot, tthit, ttdepth, \* the arguments and results of its probe
  ttarg,       \* the arguments of its save
  saves        \* saves so far

ttVars == <<table, generation8, searches, born, writers, ttpc, ttkey, ttslot, tthit, ttdepth, ttarg, saves>>

NoArg == [pv |-> 0, b |-> 0, d |-> 0]

TTInit ==
  /\ table = [s \in Slots |-> Empty]
  /\ generation8 = 0 /\ searches = 0 /\ saves = 0
  /\ born = [s \in Slots |-> 0]
  /\ writers = [s \in Slots |-> {}]
  /\ ttpc = [t \in TTThreads |-> "idle"]
  /\ ttkey = [t \in TTThreads |-> NoKey]
  /\ ttslot = [t \in TTThreads |-> 1]
  /\ tthit = [t \in TTThreads |-> FALSE]
  /\ ttdepth = [t \in TTThreads |-> 0]
  /\ ttarg = [t \in TTThreads |-> NoArg]

is_occupied(entry) == entry.depth8 # 0

\* What an entry is worth: its depth less its age.
ReplaceValue(s) == table[s].depth8 - RelativeAge(generation8, table[s].genBound8)

\* The first of the least valuable entries.
Replaced == CHOOSE s \in Slots :
              /\ \A u \in Slots : ReplaceValue(s) <= ReplaceValue(u)
              /\ \A u \in 1 .. s - 1 : ReplaceValue(s) < ReplaceValue(u)

GoTo(t, where) == ttpc' = [ttpc EXCEPT ![t] = where]

\* The call returns, its locals with it.
Return(t) ==
  /\ GoTo(t, "idle")
  /\ ttkey' = [ttkey EXCEPT ![t] = NoKey]
  /\ ttslot' = [ttslot EXCEPT ![t] = 1]
  /\ tthit' = [tthit EXCEPT ![t] = FALSE]
  /\ ttdepth' = [ttdepth EXCEPT ![t] = 0]
  /\ ttarg' = [ttarg EXCEPT ![t] = NoArg]

\* TranspositionTable::probe begins.
ProbeStart(t, k) ==
  /\ ttpc[t] = "idle"
  /\ GoTo(t, "scan")
  /\ ttkey' = [ttkey EXCEPT ![t] = k]
  /\ ttslot' = [ttslot EXCEPT ![t] = 1]
  /\ UNCHANGED <<table, generation8, searches, born, writers, tthit, ttdepth, ttarg, saves>>

\* One turn of its loop: the key of a slot matches or does not.
ProbeSlot(t) ==
  /\ ttpc[t] = "scan" /\ ttslot[t] \in Slots
  /\ LET entry == table[ttslot[t]] IN
     IF entry.key16 = Key16[ttkey[t]]
     THEN GoTo(t, "hit") /\ UNCHANGED ttslot
     ELSE ttslot' = [ttslot EXCEPT ![t] = @ + 1] /\ UNCHANGED ttpc
  /\ UNCHANGED <<table, generation8, searches, born, writers, ttkey, tthit, ttdepth, ttarg, saves>>

\* The key matched: is the entry occupied?
ProbeHit(t) ==
  /\ ttpc[t] = "hit"
  /\ GoTo(t, "read")
  /\ tthit' = [tthit EXCEPT ![t] = is_occupied(table[ttslot[t]])]
  /\ UNCHANGED <<table, generation8, searches, born, writers, ttkey, ttslot, ttdepth, ttarg, saves>>

\* No slot matched: the writer is for the least valuable one.
ProbeMiss(t) ==
  /\ ttpc[t] = "scan" /\ ttslot[t] \notin Slots
  /\ GoTo(t, "probed")
  /\ tthit' = [tthit EXCEPT ![t] = FALSE]
  /\ ttdepth' = [ttdepth EXCEPT ![t] = 0]
  /\ ttslot' = [ttslot EXCEPT ![t] = Replaced]
  /\ UNCHANGED <<table, generation8, searches, born, writers, ttkey, ttarg, saves>>

\* TTEntry::read copies the fields; the depth is the one the properties need.
ReadDepth(t) ==
  /\ ttpc[t] = "read"
  /\ GoTo(t, "probed")
  /\ ttdepth' = [ttdepth EXCEPT ![t] = table[ttslot[t]].depth8]
  /\ UNCHANGED <<table, generation8, searches, born, writers, ttkey, ttslot, tthit, ttarg, saves>>

\* The caller has no use for the writer.
Discard(t) ==
  /\ ttpc[t] = "probed"
  /\ Return(t)
  /\ UNCHANGED <<table, generation8, searches, born, writers, saves>>

\* TTWriter::write: TTEntry::save keeps the old move if it has no new one and
\* the entry is for the same position.
SaveMove(t, work, m) ==
  /\ ttpc[t] = "probed" /\ saves < MaxSaves
  /\ saves' = saves + 1
  /\ ttarg' = [ttarg EXCEPT ![t] = work]
  /\ table' = IF m # NoKey \/ Key16[ttkey[t]] # table[ttslot[t]].key16
              THEN [table EXCEPT ![ttslot[t]].move16 = m] ELSE table
  /\ writers' = [writers EXCEPT ![ttslot[t]] = @ \cup {t}]
  /\ GoTo(t, "worth")
  /\ UNCHANGED <<generation8, searches, born, ttkey, ttslot, tthit, ttdepth>>

\* Whether the save overwrites the entry.
Overwrites(t) ==
  LET entry == table[ttslot[t]] arg == ttarg[t] IN
  \/ arg.b = BOUND_EXACT
  \/ Key16[ttkey[t]] # entry.key16
  \/ arg.d + 2 * arg.pv > entry.depth8 - 4
  \/ RelativeAge(generation8, entry.genBound8) # 0

SaveWorth(t) ==
  /\ ttpc[t] = "worth"
  /\ IF Overwrites(t)
     THEN GoTo(t, "wkey") /\ UNCHANGED <<ttkey, ttslot, tthit, ttdepth, ttarg>>
     ELSE Return(t)
  /\ UNCHANGED <<table, generation8, searches, born, writers, saves>>

\* The other fields, one store after the other.
SaveField(t) ==
  LET s == ttslot[t] arg == ttarg[t] IN
  /\ UNCHANGED <<generation8, searches, writers, saves>>
  /\ \/ /\ ttpc[t] = "wkey" /\ GoTo(t, "wdepth")
        /\ table' = [table EXCEPT ![s].key16 = Key16[ttkey[t]]]
        /\ UNCHANGED <<born, ttkey, ttslot, tthit, ttdepth, ttarg>>
     \/ /\ ttpc[t] = "wdepth" /\ GoTo(t, "wbound")
        /\ table' = [table EXCEPT ![s].depth8 = arg.d]
        /\ UNCHANGED <<born, ttkey, ttslot, tthit, ttdepth, ttarg>>
     \/ /\ ttpc[t] = "wbound" /\ GoTo(t, "wvalue")
        /\ table' = [table EXCEPT ![s].genBound8 = generation8 + 4 * arg.pv + arg.b]
        /\ born' = [born EXCEPT ![s] = searches]
        /\ UNCHANGED <<ttkey, ttslot, tthit, ttdepth, ttarg>>
     \/ /\ ttpc[t] = "wvalue" /\ Return(t)
        /\ table' = [table EXCEPT ![s].value16 = ttkey[t]]
        /\ UNCHANGED born

NoneSearching == \A t \in TTThreads : ttpc[t] = "idle"

\* TranspositionTable::new_search, by the main thread before the others start.
NewSearch ==
  /\ NoneSearching /\ searches < MaxSearches
  /\ searches' = searches + 1
  /\ generation8' = (generation8 + GENERATION_DELTA) % Modulus
  /\ UNCHANGED <<table, born, writers, ttpc, ttkey, ttslot, tthit, ttdepth, ttarg, saves>>

\* TranspositionTable::clear; the UCI thread waits for the searches before it.
ClearTable ==
  /\ NoneSearching
  /\ table' = [s \in Slots |-> Empty]
  /\ born' = [s \in Slots |-> 0]
  /\ writers' = [s \in Slots |-> {}]
  /\ generation8' = 0 /\ searches' = 0
  /\ UNCHANGED <<ttpc, ttkey, ttslot, tthit, ttdepth, ttarg, saves>>

TTNext ==
  \/ \E t \in TTThreads :
       \/ \E k \in Keys : ProbeStart(t, k)
       \/ ProbeSlot(t)
       \/ ProbeHit(t)
       \/ ProbeMiss(t)
       \/ ReadDepth(t)
       \/ Discard(t)
       \/ \E work \in Works, m \in {NoKey, ttkey[t]} : SaveMove(t, work, m)
       \/ SaveWorth(t)
       \/ SaveField(t)
  \/ NewSearch
  \/ ClearTable

TTSpec == TTInit /\ [][TTNext]_ttVars

-----------------------------------------------------------------------------
(* Properties.                                                             *)

\* In probe: idle to probed; in save: worth to wvalue.
Places == {"idle", "scan", "hit", "read", "probed",
           "worth", "wkey", "wdepth", "wbound", "wvalue"}

\* Every field keeps its range, whatever the races.
TTTypeOK ==
  /\ table \in [Slots -> Entry]
  /\ generation8 \in {GENERATION_DELTA * i : i \in 0 .. Generations - 1}
  /\ searches \in Nat /\ saves \in 0 .. MaxSaves /\ born \in [Slots -> Nat]
  /\ writers \in [Slots -> SUBSET TTThreads]
  /\ ttpc \in [TTThreads -> Places]
  /\ ttkey \in [TTThreads -> Data] /\ ttslot \in [TTThreads -> 1 .. ClusterSize + 1]
  /\ tthit \in [TTThreads -> BOOLEAN] /\ ttdepth \in [TTThreads -> 0 .. 255]
  /\ ttarg \in [TTThreads -> [pv : {0, 1}, b : 0 .. 3, d : 0 .. 255]]

\* A probe that reports a hit returns a depth that was stored, never the mark
\* of an empty entry, although the two reads of depth8 are apart: an entry once
\* occupied stays so while anybody searches.
HitHasDepth ==
  \A t \in TTThreads : ttpc[t] = "probed" /\ tthit[t] => ttdepth[t] # 0

\* The stores of several threads may mix two positions in one entry; an entry
\* that one thread wrote alone may not, once its save is over: its move (the
\* kept one included) and its value are of the position its key names.
ConsistentAlone ==
  \A s \in Slots, t \in TTThreads :
    is_occupied(table[s]) /\ writers[s] = {t} /\ ttpc[t] = "idle" =>
      /\ Key16[table[s].value16] = table[s].key16
      /\ table[s].move16 # NoKey => Key16[table[s].move16] = table[s].key16

\* The age of an entry is the number of searches since it was written, modulo
\* the cycle of the generations, whatever its bound and its pv flag.
AgeCountsSearches ==
  \A s \in Slots : is_occupied(table[s]) /\ (\A t \in TTThreads : ttpc[t] # "wbound") =>
    RelativeAge(generation8, table[s].genBound8)
      = GENERATION_DELTA * ((searches - born[s]) % Generations)

\* Threads that probe and save without locks, between new searches and clears: a hit has the
\* depth of an entry, an entry that one thread wrote is of one position, and an age counts
\* searches, also beyond a whole cycle of generations.
HashRight == TTTypeOK /\ HitHasDepth /\ ConsistentAlone /\ AgeCountsSearches
=============================================================================
