------------------------------ MODULE TBTables ------------------------------
(***************************************************************************)
(* The tables of the endgame tablebases (syzygy/tbprobe.cpp): the Robin    *)
(* Hood hash from a material key to its table, and the files behind the    *)
(* tables, which the searching threads map into memory at their first      *)
(* probe, each at most once.                                               *)
(*                                                                         *)
(* A table is the pair of its material keys, one for each colour of the    *)
(* stronger side: they are equal when both sides have the same pieces.     *)
(***************************************************************************)
EXTENDS Integers, Sequences

CONSTANTS TBThreads, \* the searching threads
          TBKeys,    \* material keys
          Home,      \* the low bits of each key
          Size,      \* buckets, one more catches the overflow
          Tables,    \* the tables with a file, each <<key, key2>>
          Files,     \* what each file turns out to be at its first probe:
                     \* "good", "bad" (wrong magic) or "missing"
          NoTable,   \* an empty bucket
          MaxInits, MaxProbes \* bounds: calls of init and of probe_table

ASSUME TBKeysAssumption == Size \in Nat \ {0} /\ Home \in [TBKeys -> 0 .. Size - 1]
ASSUME TablesAssumption ==
  /\ NoTable \notin Tables /\ Files \in [Tables -> {"good", "bad", "missing"}]
  /\ Tables \subseteq TBKeys \X TBKeys
  /\ \A b, c \in Tables : b # c => {b[1], b[2]} \cap {c[1], c[2]} = {}
NoThread == "nobody"
ASSUME TBThreadsAssumption == NoThread \notin TBThreads
ASSUME TBBoundsAssumption == MaxInits \in Nat /\ MaxProbes \in Nat

Overflow == 1
KeysOf(b) == {b[1], b[2]}
Buckets == 0 .. Size + Overflow - 1
NoKeyYet == "none"
NoEntry == [key |-> NoKeyYet, table |-> NoTable]

VARIABLES
  hashTable, \* what each bucket holds
  added,     \* the tables that add has inserted
  pending,   \* entries that add still has to insert
  entry, bucket, homeBucket, \* the locals of insert; entry is NoEntry outside it
  exited,    \* the program has ended with "TB hash table size too low!"
  ready,     \* TBTable::ready
  addressed, \* the tables whose baseAddress is set
  filled,    \* the tables whose PairsData are set
  tries,     \* how often the file of each table was opened
  tbMutex,   \* the thread that holds the mutex of mapped()
  tbpc, probing, \* where each thread is in probe_table, and for which table
  result,    \* the table its last probe read, NoTable when it failed
  asked,     \* history: the table its last finished probe was for
  inits, probes

tbVars == <<hashTable, added, pending, entry, bucket, homeBucket, exited, ready, addressed, filled,
            tries, tbMutex, tbpc, probing, result, asked, inits, probes>>

hashVars == <<hashTable, added, pending, entry, bucket, homeBucket, exited, inits>>
fileVars == <<ready, addressed, filled, tries, tbMutex, tbpc, probing, result, asked, probes>>

TBInit ==
  /\ hashTable = [b \in Buckets |-> NoEntry]
  /\ added = {} /\ pending = <<>> /\ entry = NoEntry /\ bucket = 0 /\ homeBucket = 0
  /\ exited = FALSE /\ ready = {} /\ addressed = {} /\ filled = {}
  /\ tries = [b \in Tables |-> 0]
  /\ tbMutex = NoThread
  /\ tbpc = [t \in TBThreads |-> "idle"]
  /\ probing = [t \in TBThreads |-> NoTable]
  /\ result = [t \in TBThreads |-> NoTable] /\ asked = [t \in TBThreads |-> NoTable]
  /\ inits = 0 /\ probes = 0

-----------------------------------------------------------------------------
(* The hash.                                                               *)

Inserting == entry # NoEntry
\* setoption waits for the search, so no thread probes while tables change.
NoProbes == \A t \in TBThreads : tbpc[t] = "idle"

\* TBTables::add, for a file that is there: both keys go into the hash. (init
\* adds all of them before the next probe; here probes may come in between.)
Add(b) ==
  /\ ~exited /\ ~Inserting /\ pending = <<>> /\ NoProbes /\ b \notin added
  /\ added' = added \cup {b}
  /\ pending' = <<[key |-> b[1], table |-> b], [key |-> b[2], table |-> b]>>
  /\ UNCHANGED <<hashTable, entry, bucket, homeBucket, exited, inits, fileVars>>

\* insert begins.
Insert ==
  /\ ~exited /\ ~Inserting /\ pending # <<>>
  /\ entry' = Head(pending) /\ pending' = Tail(pending)
  /\ homeBucket' = Home[entry'.key] /\ bucket' = Home[entry'.key]
  /\ UNCHANGED <<hashTable, added, exited, inits, fileVars>>

\* One turn of its loop: the last bucket stays empty.
Probing == Inserting /\ ~exited /\ bucket < Size + Overflow - 1

Place ==
  /\ Probing
  /\ hashTable[bucket].key = entry.key \/ hashTable[bucket].table = NoTable
  /\ hashTable' = [hashTable EXCEPT ![bucket] = entry]
  /\ entry' = NoEntry /\ bucket' = 0 /\ homeBucket' = 0
  /\ UNCHANGED <<added, pending, exited, inits, fileVars>>

\* Robin Hood: the richer entry makes room and looks for a new place.
Displaces(otherHome) == otherHome > homeBucket
\* Mutant: the displaced entry is carried on under the key that displaced it.
AdvanceMixed ==
  /\ Probing
  /\ LET other == hashTable[bucket] IN
     /\ other.key # entry.key /\ other.table # NoTable
     /\ IF Displaces(Home[other.key])
        THEN /\ hashTable' = [hashTable EXCEPT ![bucket] = entry]
             /\ entry' = [other EXCEPT !.key = entry.key] /\ homeBucket' = Home[other.key]
        ELSE UNCHANGED <<hashTable, entry, homeBucket>>
  /\ bucket' = bucket + 1
  /\ UNCHANGED <<added, pending, exited, inits, fileVars>>

Advance ==
  /\ Probing
  /\ LET other == hashTable[bucket] IN
     /\ other.key # entry.key /\ other.table # NoTable
     /\ IF Displaces(Home[other.key])
        THEN /\ hashTable' = [hashTable EXCEPT ![bucket] = entry]
             /\ entry' = other /\ homeBucket' = Home[other.key]
        ELSE UNCHANGED <<hashTable, entry, homeBucket>>
  /\ bucket' = bucket + 1
  /\ UNCHANGED <<added, pending, exited, inits, fileVars>>

SizeTooLow ==
  /\ Inserting /\ ~exited /\ bucket >= Size + Overflow - 1
  /\ exited' = TRUE
  /\ UNCHANGED <<hashTable, added, pending, entry, bucket, homeBucket, inits, fileVars>>

\* TBTables::get reads bucket after bucket; these are where it may stop.
Stops(key) == {b \in Buckets : b >= Home[key] /\ (hashTable[b].key = key \/ hashTable[b].table = NoTable)}
Get(key) == LET b == CHOOSE x \in Stops(key) : \A y \in Stops(key) : x <= y IN hashTable[b].table

\* Tablebases::init with another path: all is cleared, the files are unmapped.
Clear ==
  /\ ~exited /\ ~Inserting /\ pending = <<>> /\ NoProbes
  /\ inits < MaxInits /\ inits' = inits + 1
  /\ hashTable' = [b \in Buckets |-> NoEntry]
  /\ added' = {} /\ ready' = {} /\ addressed' = {} /\ filled' = {}
  /\ tries' = [b \in Tables |-> 0]
  /\ result' = [t \in TBThreads |-> NoTable] /\ asked' = [t \in TBThreads |-> NoTable]
  /\ UNCHANGED <<pending, entry, bucket, homeBucket, exited, tbMutex, tbpc, probing, probes>>

-----------------------------------------------------------------------------
(* The files.                                                              *)

Goes(t, where) == tbpc' = [tbpc EXCEPT ![t] = where]
Answers(t, r) ==
  /\ result' = [result EXCEPT ![t] = r]
  /\ asked' = [asked EXCEPT ![t] = probing[t]]
  /\ probing' = [probing EXCEPT ![t] = NoTable]
  /\ Goes(t, "idle")

\* What mapped returns to probe_table: baseAddress, whose PairsData are read.
Reads(t) == Answers(t, IF probing[t] \in addressed THEN probing[t] ELSE NoTable)

\* probe_table: no table, no probe.
ProbeTable(t, key) ==
  /\ tbpc[t] = "idle" /\ ~exited /\ ~Inserting /\ pending = <<>>
  /\ probes < MaxProbes /\ probes' = probes + 1
  /\ IF Get(key) = NoTable THEN Answers(t, NoTable)
     ELSE Goes(t, "look") /\ probing' = [probing EXCEPT ![t] = Get(key)] /\ UNCHANGED <<result, asked>>
  /\ UNCHANGED <<hashVars, ready, addressed, filled, tries, tbMutex>>

\* mapped: the look before the lock.
LookReady(t) ==
  /\ tbpc[t] = "look"
  /\ IF probing[t] \in ready THEN Reads(t)
     ELSE Goes(t, "lock") /\ UNCHANGED <<probing, result, asked>>
  /\ UNCHANGED <<hashVars, ready, addressed, filled, tries, tbMutex, probes>>

LockMapped(t) ==
  /\ tbpc[t] = "lock" /\ tbMutex = NoThread
  /\ tbMutex' = t /\ Goes(t, "recheck")
  /\ UNCHANGED <<hashVars, ready, addressed, filled, tries, probing, result, asked, probes>>

\* Mutant: the second look keeps the lock.
RecheckLocked(t) ==
  /\ tbpc[t] = "recheck"
  /\ IF probing[t] \in ready THEN Reads(t)
     ELSE Goes(t, "map") /\ UNCHANGED <<probing, result, asked>>
  /\ UNCHANGED <<hashVars, ready, addressed, filled, tries, tbMutex, probes>>

RecheckReady(t) ==
  /\ tbpc[t] = "recheck"
  /\ IF probing[t] \in ready THEN Reads(t) /\ tbMutex' = NoThread
     ELSE Goes(t, "map") /\ UNCHANGED <<probing, result, asked, tbMutex>>
  /\ UNCHANGED <<hashVars, ready, addressed, filled, tries, probes>>

\* TBFile::map: baseAddress is set while the magic is checked.
MapFile(t) ==
  LET b == probing[t] IN
  /\ UNCHANGED <<hashVars, ready, tbMutex, probing, result, asked, probes>>
  /\ \/ /\ tbpc[t] = "map"
        /\ tries' = [tries EXCEPT ![b] = @ + 1]
        /\ addressed' = IF Files[b] = "missing" THEN addressed ELSE addressed \cup {b}
        /\ Goes(t, IF Files[b] = "missing" THEN "publish" ELSE "magic")
        /\ UNCHANGED filled
     \/ /\ tbpc[t] = "magic" /\ Files[b] = "bad"
        /\ addressed' = addressed \ {b} /\ Goes(t, "publish") /\ UNCHANGED <<tries, filled>>
     \/ /\ tbpc[t] = "magic" /\ Files[b] = "good"
        /\ filled' = filled \cup {b} /\ Goes(t, "publish") /\ UNCHANGED <<tries, addressed>>

\* ready is set for a missing file, too.
Publish(t) ==
  /\ tbpc[t] = "publish"
  /\ ready' = ready \cup {probing[t]}
  /\ tbMutex' = NoThread
  /\ Reads(t)
  /\ UNCHANGED <<hashVars, addressed, filled, tries, probes>>

TBNext ==
  \/ \E b \in Tables : Add(b)
  \/ Insert \/ Place \/ Advance \/ SizeTooLow \/ Clear
  \/ \E t \in TBThreads :
       \/ \E key \in TBKeys : ProbeTable(t, key)
       \/ LookReady(t) \/ LockMapped(t) \/ RecheckReady(t) \/ MapFile(t) \/ Publish(t)
TBSpec == TBInit /\ [][TBNext]_tbVars

-----------------------------------------------------------------------------
(* Properties.                                                             *)

TBEntry == [key : TBKeys, table : Tables] \cup {NoEntry}
TBTypeOK ==
  /\ hashTable \in [Buckets -> TBEntry] /\ entry \in TBEntry
  /\ pending \in Seq(TBEntry) /\ added \subseteq Tables
  /\ bucket \in Buckets /\ homeBucket \in Buckets /\ exited \in BOOLEAN
  /\ ready \subseteq added /\ addressed \subseteq added /\ filled \subseteq addressed
  /\ tries \in [Tables -> Nat]
  /\ tbMutex \in TBThreads \cup {NoThread}
  /\ tbpc \in [TBThreads -> {"idle", "look", "lock", "recheck", "map", "magic", "publish"}]
  /\ probing \in [TBThreads -> Tables \cup {NoTable}]
  /\ result \in [TBThreads -> Tables \cup {NoTable}]
  /\ asked \in [TBThreads -> Tables \cup {NoTable}]

\* Every key finds the table that was added for it, and any other key none,
\* however the keys collide and displace each other.
KeysFindTheirTables ==
  ~exited /\ ~Inserting /\ pending = <<>> =>
    \A k \in TBKeys : Get(k) = (IF \E b \in added : k \in KeysOf(b) THEN CHOOSE b \in added : k \in KeysOf(b) ELSE NoTable)

\* The lookup, which has no bound of its own, ends within the table for every
\* key, also while insert is moving entries: "Ensure last element is empty to
\* avoid overflow when looking up".
LookupStaysInTable == \A k \in TBKeys : Stops(k) # {}

\* A probe reads a table only when all of it is there: the file is mapped, has
\* the right magic and its PairsData are set, whoever maps it at the same time.
TablesReadWhole == \A t \in TBThreads : result[t] # NoTable => result[t] \in filled

\* A probe that has found its table reads it if the file is good, whichever
\* thread has mapped it: none comes back empty because another was at it.
GoodTablesRead == \A t \in TBThreads : asked[t] # NoTable /\ Files[asked[t]] = "good" => result[t] = asked[t]

\* A file is opened once: also one that is missing or corrupt is not tried
\* again at every node of the search, and no two threads map it.
FilesOpenedOnce == \A b \in Tables : tries[b] <= 1

\* A probe under way comes to an answer.
ProbesEnd == \A t \in TBThreads : tbpc[t] # "idle" ~> tbpc[t] = "idle"

\* Threads that probe at the same time (TBTables::get, mapped) find the table of their key,
\* look it up inside the bucket array, map its file once, read it only when it is whole, and
\* do read it when its file is good.
TablesFound ==
  /\ TBTypeOK /\ KeysFindTheirTables /\ LookupStaysInTable
  /\ TablesReadWhole /\ GoodTablesRead /\ FilesOpenedOnce
=============================================================================
