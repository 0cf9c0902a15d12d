---------------------------- MODULE TablesProofs -----------------------------
(***************************************************************************)
(* The tables that a search looks positions up in: the endgame tables, how *)
(* they are found and what probing makes of them, and the transposition    *)
(* table. For any keys, tables and threads, any games, any entries.        *)
(*                                                                         *)
(* Finding: every key finds its table, and every file is mapped once and   *)
(* read only when it is whole. The homes of the entries on the way from an *)
(* entry's home to its bucket do not decrease beyond its own, and none of  *)
(* these buckets is empty. So a key that is not met before a richer entry  *)
(* or an empty bucket is nowhere in the table. For the files: the mutex    *)
(* lets one thread at a time past the second look.                         *)
(*                                                                         *)
(* Probing: retrograde analysis ends with distances of which a win is the  *)
(* shortest there is and a loss the longest (WellPlayed), since a number   *)
(* of plies that no position has leaves all after it empty. What the       *)
(* generator does not know of en passant only ever makes a position        *)
(* better, and search looks at every capture, so search finds the value    *)
(* (SearchFinds). What probe_dtz returns is the true distance or a ply     *)
(* less, as the rounding of the stored side has it (AllShown). The play    *)
(* keeps that the plies which the winner may still need fit under the      *)
(* 50-move rule, and that every position visited twice lies behind it.     *)
(*                                                                         *)
(* The transposition table is right although nothing is locked. Three      *)
(* things are kept by every step: an entry once occupied stays so until    *)
(* the table is cleared, and that waits for the searches; the byte of the  *)
(* generation is the search an entry was born in, modulo the cycle; and of *)
(* an entry that one thread wrote alone it is known, at each store, which  *)
(* fields are already of the key it will have.                             *)
(***************************************************************************)
EXTENDS TBTables, TBProbe, TTable, NumberLemmas, FiniteSetTheorems, TLAPS

-----------------------------------------------------------------------------
(* Finding: the hash of the endgame tables.                                *)

\* A bucket that holds an entry, and where that entry would rather be.
Full(b) == hashTable[b].table # NoTable
HomeOf(b) == Home[hashTable[b].key]

HashTypes ==
  /\ hashTable \in [Buckets -> TBEntry] /\ entry \in TBEntry
  /\ pending \in Seq(TBEntry) /\ added \subseteq Tables
  /\ bucket \in Buckets /\ homeBucket \in Buckets /\ exited \in BOOLEAN

LastIsEmpty == ~Full(Size)
WaysAreFull ==
  \A b \in Buckets : Full(b) =>
    HomeOf(b) <= b /\ \A c \in HomeOf(b) .. b : Full(c) /\ HomeOf(c) <= HomeOf(b)
KeysApart == \A b, c \in Buckets : Full(b) /\ Full(c) /\ hashTable[b].key = hashTable[c].key => b = c
WayOfEntry ==
  Inserting =>
    /\ homeBucket = Home[entry.key] /\ homeBucket <= bucket
    /\ \A c \in homeBucket .. bucket - 1 : Full(c) /\ HomeOf(c) <= homeBucket /\ hashTable[c].key # entry.key
\* What the hash holds, and insert still has to, is what add was given.
OfAdded(e) == e.table \in added /\ e.key \in KeysOf(e.table)
HoldsAdded ==
  /\ \A b \in Buckets : Full(b) => OfAdded(hashTable[b])
  /\ Inserting => OfAdded(entry)
  /\ \A i \in 1 .. Len(pending) : OfAdded(pending[i])
Somewhere(e) ==
  \/ \E b \in Buckets : hashTable[b] = e
  \/ entry = e
  \/ \E i \in 1 .. Len(pending) : pending[i] = e
AddedIsHeld == \A b \in added : \A k \in KeysOf(b) : Somewhere([key |-> k, table |-> b])

TBHashInv ==
  HashTypes /\ LastIsEmpty /\ WaysAreFull /\ KeysApart /\ WayOfEntry /\ HoldsAdded /\ AddedIsHeld

-----------------------------------------------------------------------------
(* Facts about entries.                                                    *)

\* The buckets are 0 .. Size; every key has its home below the last.
LEMMA BucketFacts ==
  /\ Size \in Nat /\ Size > 0 /\ Buckets = 0 .. Size /\ Size \in Buckets
  /\ \A k \in TBKeys : Home[k] \in 0 .. Size - 1
BY TBKeysAssumption DEF Buckets, Overflow

\* An entry is empty or names a table by a key.
LEMMA EntryFacts ==
  ASSUME NEW e \in TBEntry
  PROVE  /\ e.table = NoTable <=> e = NoEntry
         /\ e # NoEntry => e.key \in TBKeys /\ e.table \in Tables /\ e = [key |-> e.key, table |-> e.table]
BY TablesAssumption DEF TBEntry, NoEntry

\* Two tables with a key in common are one.
LEMMA TableOfKey ==
  ASSUME NEW b \in Tables, NEW c \in Tables, NEW k \in KeysOf(b), k \in KeysOf(c)
  PROVE  b = c
BY TablesAssumption DEF KeysOf

LEMMA KeysAreKeys == \A b \in Tables : KeysOf(b) \subseteq TBKeys
BY TablesAssumption DEF KeysOf

-----------------------------------------------------------------------------
(* The hash.                                                               *)

LEMMA TBHashInitially == TBInit => TBHashInv
<1> SUFFICES ASSUME TBInit PROVE TBHashInv
  OBVIOUS
<1> USE DEF TBInit
<1>1. HashTypes
  <2>1. NoEntry \in TBEntry /\ 0 \in Buckets /\ <<>> \in Seq(TBEntry)
    BY BucketFacts DEF TBEntry
  <2> QED BY <2>1 DEF HashTypes
<1>2. \A b \in Buckets : ~Full(b)
  BY DEF Full, NoEntry
<1>3. QED
  BY <1>1, <1>2, BucketFacts
  DEF TBHashInv, LastIsEmpty, WaysAreFull, KeysApart, WayOfEntry, HoldsAdded, AddedIsHeld, Inserting

\* The entry is put where its key or nothing was.
LEMMA PlaceKeepsHash == ASSUME TBHashInv, Place PROVE TBHashInv'
<1>0. PICK x \in Buckets : x = bucket
  BY DEF TBHashInv, HashTypes
<1> DEFINE h == hashTable[x]
<1>1. /\ entry \in TBEntry /\ entry # NoEntry /\ x \in 0 .. Size - 1
      /\ hashTable' = [hashTable EXCEPT ![x] = entry]
      /\ h.key = entry.key \/ h.table = NoTable
      /\ entry' = NoEntry /\ bucket' = 0 /\ homeBucket' = 0
      /\ UNCHANGED <<added, pending, exited>>
  BY <1>0, BucketFacts DEF Place, Probing, Inserting, TBHashInv, HashTypes, Overflow, hashVars
<1>2. HashTypes
  BY DEF TBHashInv
<1>3. /\ hashTable'[x] = entry /\ entry.table # NoTable /\ entry.key \in TBKeys
      /\ \A b \in Buckets : b # x => hashTable'[b] = hashTable[b]
      /\ x \in Buckets
  BY <1>1, <1>2, EntryFacts, BucketFacts DEF HashTypes
<1>4. /\ homeBucket = Home[entry.key] /\ homeBucket <= x /\ homeBucket \in 0 .. Size - 1
      /\ \A c \in homeBucket .. x - 1 : Full(c) /\ HomeOf(c) <= homeBucket /\ hashTable[c].key # entry.key
  BY <1>0, <1>1, <1>3, BucketFacts DEF TBHashInv, WayOfEntry, Inserting
<1>5. HashTypes'
  BY <1>1, <1>2, BucketFacts DEF HashTypes, TBEntry
<1>6. LastIsEmpty'
  BY <1>1, <1>3, BucketFacts DEF TBHashInv, LastIsEmpty, Full
<1>7. \A b \in Buckets : b # x => (Full(b)' <=> Full(b)) /\ HomeOf(b)' = HomeOf(b)
  BY <1>3 DEF Full, HomeOf
<1>8. Full(x)' /\ HomeOf(x)' = homeBucket
  BY <1>3, <1>4 DEF Full, HomeOf
<1>9. Full(x) => HomeOf(x) = homeBucket
  BY <1>1, <1>4 DEF Full, HomeOf
<1>10. \A b \in Buckets : Full(b) => HomeOf(b) \in Buckets /\ hashTable[b].key \in TBKeys
  BY <1>2, EntryFacts, BucketFacts DEF HashTypes, Full, HomeOf, NoEntry
<1>11. WaysAreFull'
  <2> SUFFICES ASSUME NEW b \in Buckets, Full(b)'
               PROVE  HomeOf(b)' <= b /\ \A c \in HomeOf(b)' .. b : Full(c)' /\ HomeOf(c)' <= HomeOf(b)'
    BY DEF WaysAreFull
  <2>1. CASE b = x
    <3>1. \A c \in homeBucket .. x - 1 : c \in Buckets /\ Full(c)' /\ HomeOf(c)' <= homeBucket
      BY <1>3, <1>4, <1>7, BucketFacts
    <3> QED BY <2>1, <3>1, <1>1, <1>4, <1>8
  <2>2. CASE b # x
    <3>1. Full(b) /\ HomeOf(b)' = HomeOf(b)
      BY <1>7, <2>2
    <3>2. HomeOf(b) <= b /\ \A c \in HomeOf(b) .. b : Full(c) /\ HomeOf(c) <= HomeOf(b)
      BY <3>1 DEF TBHashInv, WaysAreFull
    <3>3. HomeOf(b) \in Buckets
      BY <3>1, <1>10
    <3>4. ASSUME NEW c \in HomeOf(b) .. b PROVE Full(c)' /\ HomeOf(c)' <= HomeOf(b)
      <4>1. c \in Buckets
        BY <3>3, BucketFacts
      <4> QED BY <4>1, <3>2, <1>7, <1>8, <1>9
    <3> QED BY <3>1, <3>2, <3>4
  <2> QED BY <2>1, <2>2
<1>12. \A d \in Buckets : Full(d) /\ hashTable[d].key = entry.key => d = x
  <2> SUFFICES ASSUME NEW d \in Buckets, Full(d), hashTable[d].key = entry.key, d # x PROVE FALSE
    OBVIOUS
  <2>1. HomeOf(d) = homeBucket /\ homeBucket <= d /\ \A c \in homeBucket .. d : Full(c)
    BY <1>4 DEF TBHashInv, WaysAreFull, HomeOf
  <2>2. CASE d < x
    BY <2>1, <2>2, <1>4, BucketFacts
  <2>3. CASE d > x
    <3>1. Full(x)
      BY <2>1, <2>3, <1>3, <1>4, BucketFacts
    <3> QED BY <3>1, <1>1, <1>3 DEF TBHashInv, KeysApart, Full
  <2> QED BY <2>2, <2>3, <1>1, BucketFacts
<1>13. KeysApart'
  BY <1>12, <1>3, <1>7 DEF TBHashInv, KeysApart
<1>14. WayOfEntry'
  BY <1>1 DEF WayOfEntry, Inserting
<1>15. OfAdded(entry)
  BY <1>1 DEF TBHashInv, HoldsAdded, Inserting
<1>16. HoldsAdded'
  BY <1>15, <1>1, <1>3, <1>7 DEF TBHashInv, HoldsAdded, OfAdded, Inserting
<1>17. Full(x) => h = entry
  <2> SUFFICES ASSUME Full(x) PROVE h = entry
    OBVIOUS
  <2>1. h.key = entry.key /\ OfAdded(h) /\ h \in TBEntry /\ h # NoEntry
    BY <1>1, <1>2, <1>3 DEF TBHashInv, HoldsAdded, HashTypes, Full, NoEntry
  <2>2. h.table = entry.table
    BY <2>1, <1>2, <1>15, TableOfKey DEF OfAdded, HashTypes
  <2> QED BY <2>1, <2>2, <1>1, EntryFacts
<1>18. ASSUME NEW e, e.table # NoTable, Somewhere(e) PROVE Somewhere(e)'
  <2>1. e = entry => hashTable'[x] = e
    BY <1>3
  <2>2. ASSUME NEW c \in Buckets, hashTable[c] = e PROVE hashTable'[c] = e
    <3>1. CASE c = x
      BY <3>1, <1>18, <2>2, <1>3, <1>17 DEF Full
    <3>2. CASE c # x
      BY <3>2, <2>2, <1>3
    <3> QED BY <3>1, <3>2
  <2> QED BY <1>18, <2>1, <2>2, <1>1, <1>3 DEF Somewhere
<1>19. AddedIsHeld'
  <2>1. \A b \in added : b # NoTable
    BY <1>2, TablesAssumption DEF HashTypes
  <2> QED BY <2>1, <1>18, <1>1 DEF TBHashInv, AddedIsHeld
<1> QED BY <1>5, <1>6, <1>11, <1>13, <1>14, <1>16, <1>19 DEF TBHashInv

\* The entry passes a bucket, or takes it and the entry there looks on.
LEMMA AdvanceKeepsHash == ASSUME TBHashInv, Advance PROVE TBHashInv'
<1>0. PICK x \in Buckets : x = bucket
  BY DEF TBHashInv, HashTypes
<1> DEFINE other == hashTable[x]
<1>1. /\ entry \in TBEntry /\ entry # NoEntry /\ x \in 0 .. Size - 1 /\ Full(x)
      /\ other.key # entry.key
      /\ bucket' = x + 1
      /\ UNCHANGED <<added, pending, exited>>
  BY <1>0, BucketFacts DEF Advance, Probing, Inserting, TBHashInv, HashTypes, Overflow, Full
<1>2. HashTypes
  BY DEF TBHashInv
<1>3. /\ other \in TBEntry /\ other # NoEntry
      /\ entry.table # NoTable /\ entry.key \in TBKeys /\ other.key \in TBKeys
      /\ OfAdded(entry) /\ OfAdded(other)
  BY <1>1, <1>2, EntryFacts DEF HashTypes, Full, TBHashInv, HoldsAdded, Inserting
<1>4. /\ homeBucket = Home[entry.key] /\ homeBucket <= x /\ homeBucket \in 0 .. Size - 1
      /\ \A c \in homeBucket .. x - 1 : Full(c) /\ HomeOf(c) <= homeBucket /\ hashTable[c].key # entry.key
  BY <1>0, <1>1, <1>3, BucketFacts DEF TBHashInv, WayOfEntry, Inserting
<1>5. /\ HomeOf(x) <= x /\ HomeOf(x) = Home[other.key] /\ HomeOf(x) \in 0 .. Size - 1
      /\ \A c \in HomeOf(x) .. x : Full(c) /\ HomeOf(c) <= HomeOf(x)
  BY <1>1, <1>3, BucketFacts DEF TBHashInv, WaysAreFull, HomeOf
<1>6. CASE ~Displaces(HomeOf(x))
  <2>1. UNCHANGED <<hashTable, entry, homeBucket>>
    BY <1>0, <1>5, <1>6 DEF Advance
  <2>2. HomeOf(x) <= homeBucket
    BY <1>4, <1>5, <1>6 DEF Displaces
  <2>3. WayOfEntry'
    <3>1. \A c \in homeBucket .. x : Full(c) /\ HomeOf(c) <= homeBucket /\ hashTable[c].key # entry.key
      BY <1>1, <1>4, <2>2
    <3>2. (x + 1) - 1 = x /\ homeBucket <= x + 1
      BY <1>1, <1>4
    <3> QED BY <3>1, <3>2, <1>1, <1>4, <2>1 DEF WayOfEntry, Full, HomeOf
  <2>4. HashTypes'
    BY <1>1, <1>2, <2>1, BucketFacts DEF HashTypes
  <2> QED
    BY <1>1, <2>1, <2>3, <2>4
    DEF TBHashInv, LastIsEmpty, WaysAreFull, KeysApart, HoldsAdded, AddedIsHeld, Somewhere, OfAdded, Full, HomeOf, Inserting
<1>7. CASE Displaces(HomeOf(x))
  <2>1. /\ hashTable' = [hashTable EXCEPT ![x] = entry]
        /\ entry' = other /\ homeBucket' = HomeOf(x)
    BY <1>0, <1>5, <1>7 DEF Advance
  <2>2. homeBucket < HomeOf(x)
    BY <1>4, <1>5, <1>7 DEF Displaces
  <2>3. /\ hashTable'[x] = entry
        /\ \A b \in Buckets : b # x => hashTable'[b] = hashTable[b]
    BY <2>1, <1>2 DEF HashTypes
  <2>4. HashTypes'
    BY <1>1, <1>2, <1>3, <1>5, <2>1, BucketFacts DEF HashTypes
  <2>5. LastIsEmpty'
    BY <1>1, <2>3, BucketFacts DEF TBHashInv, LastIsEmpty, Full
  <2>6. \A b \in Buckets : b # x => (Full(b)' <=> Full(b)) /\ HomeOf(b)' = HomeOf(b)
    BY <2>3 DEF Full, HomeOf
  <2>7. Full(x)' /\ HomeOf(x)' = homeBucket
    BY <2>3, <1>3, <1>4 DEF Full, HomeOf
  <2>8. \A b \in Buckets : Full(b) => HomeOf(b) \in Buckets
    BY <1>2, EntryFacts, BucketFacts DEF HashTypes, Full, HomeOf, NoEntry
  <2>9. WaysAreFull'
    <3> SUFFICES ASSUME NEW b \in Buckets, Full(b)'
                 PROVE  HomeOf(b)' <= b /\ \A c \in HomeOf(b)' .. b : Full(c)' /\ HomeOf(c)' <= HomeOf(b)'
      BY DEF WaysAreFull
    <3>1. CASE b = x
      <4>1. \A c \in homeBucket .. x - 1 : c \in Buckets /\ Full(c)' /\ HomeOf(c)' <= homeBucket
        BY <1>1, <1>4, <2>6, BucketFacts
      <4> QED BY <3>1, <4>1, <1>1, <1>4, <2>7
    <3>2. CASE b # x
      <4>1. Full(b) /\ HomeOf(b)' = HomeOf(b)
        BY <2>6, <3>2
      <4>2. HomeOf(b) <= b /\ \A c \in HomeOf(b) .. b : Full(c) /\ HomeOf(c) <= HomeOf(b)
        BY <4>1 DEF TBHashInv, WaysAreFull
      <4>3. HomeOf(b) \in Buckets
        BY <4>1, <2>8
      <4>4. ASSUME NEW c \in HomeOf(b) .. b PROVE Full(c)' /\ HomeOf(c)' <= HomeOf(b)
        <5>1. c \in Buckets
          BY <4>3, BucketFacts
        <5>2. CASE c = x
          BY <4>2, <4>3, <5>2, <1>4, <1>5, <2>2, <2>7, BucketFacts
        <5>3. CASE c # x
          BY <4>2, <5>1, <5>3, <2>6
        <5> QED BY <5>2, <5>3
      <4> QED BY <4>1, <4>2, <4>4
    <3> QED BY <3>1, <3>2
  <2>10. \A d \in Buckets : ~(Full(d) /\ hashTable[d].key = entry.key)
    <3> SUFFICES ASSUME NEW d \in Buckets, Full(d), hashTable[d].key = entry.key PROVE FALSE
      OBVIOUS
    <3>1. HomeOf(d) = homeBucket /\ homeBucket <= d /\ \A c \in homeBucket .. d : Full(c) /\ HomeOf(c) <= homeBucket
      BY <1>4 DEF TBHashInv, WaysAreFull, HomeOf
    <3>2. CASE d < x
      BY <3>1, <3>2, <1>4, BucketFacts
    <3>3. CASE d >= x
      BY <3>1, <3>3, <1>4, <1>5, <2>2, BucketFacts
    <3> QED BY <3>2, <3>3, <1>1, BucketFacts
  <2>11. KeysApart'
    BY <2>3, <2>6, <2>10 DEF TBHashInv, KeysApart
  <2>12. WayOfEntry'
    <3> SUFFICES /\ HomeOf(x) <= x + 1
                 /\ \A c \in HomeOf(x) .. x : Full(c)' /\ HomeOf(c)' <= HomeOf(x) /\ hashTable'[c].key # other.key
      <4>1. (x + 1) - 1 = x
        BY <1>1
      <4> QED BY <4>1, <2>1, <1>1, <1>5 DEF WayOfEntry
    <3>1. ASSUME NEW c \in HomeOf(x) .. x
          PROVE  Full(c)' /\ HomeOf(c)' <= HomeOf(x) /\ hashTable'[c].key # other.key
      <4>1. c \in Buckets
        BY <1>1, <1>5, BucketFacts
      <4>2. CASE c = x
        BY <4>2, <1>1, <1>4, <1>5, <2>2, <2>3, <2>7
      <4>3. CASE c # x
        <5>1. Full(c) /\ HomeOf(c) <= HomeOf(x)
          BY <1>5
        <5>2. hashTable[c].key # other.key
          BY <5>1, <4>1, <4>3, <1>1 DEF TBHashInv, KeysApart
        <5> QED BY <4>1, <4>3, <5>1, <5>2, <2>3, <2>6
      <4> QED BY <4>2, <4>3
    <3> QED BY <3>1, <1>1, <1>5
  <2>13. HoldsAdded'
    BY <1>1, <1>3, <2>1, <2>3, <2>6 DEF TBHashInv, HoldsAdded, OfAdded
  <2>14. ASSUME NEW e, Somewhere(e) PROVE Somewhere(e)'
    <3>1. ASSUME NEW c \in Buckets, hashTable[c] = e PROVE hashTable'[c] = e \/ entry' = e
      BY <3>1, <2>1, <2>3
    <3> QED BY <2>14, <3>1, <1>1, <2>3 DEF Somewhere
  <2>15. AddedIsHeld'
    BY <2>14, <1>1 DEF TBHashInv, AddedIsHeld
  <2> QED BY <2>4, <2>5, <2>9, <2>11, <2>12, <2>13, <2>15 DEF TBHashInv
<1> QED BY <1>6, <1>7

\* add hands over one entry for each of the table's keys.
LEMMA AddKeepsHash == ASSUME TBHashInv, NEW b \in Tables, Add(b) PROVE TBHashInv'
<1> DEFINE e1 == [key |-> b[1], table |-> b]
           e2 == [key |-> b[2], table |-> b]
<1>1. /\ UNCHANGED <<hashTable, entry, bucket, homeBucket, exited>>
      /\ pending = <<>> /\ ~Inserting
      /\ added' = added \cup {b} /\ pending' = <<e1, e2>>
  BY DEF Add
<1>2. KeysOf(b) = {b[1], b[2]} /\ b[1] \in TBKeys /\ b[2] \in TBKeys
  BY TablesAssumption DEF KeysOf
<1>3. e1 \in TBEntry /\ e2 \in TBEntry
  BY <1>2 DEF TBEntry
<1>4. HashTypes'
  <2>1. <<e1, e2>> \in Seq(TBEntry)
    BY <1>3
  <2> HIDE DEF e1, e2
  <2> QED BY <1>1, <2>1 DEF TBHashInv, HashTypes
<1>5. LastIsEmpty' /\ WaysAreFull' /\ KeysApart' /\ WayOfEntry'
  BY <1>1 DEF TBHashInv, LastIsEmpty, WaysAreFull, KeysApart, WayOfEntry, Full, HomeOf, Inserting
<1>6. /\ Len(pending') = 2 /\ pending'[1] = e1 /\ pending'[2] = e2
  BY <1>1
<1>7. HoldsAdded'
  <2>1. OfAdded(e1)' /\ OfAdded(e2)'
    BY <1>1, <1>2 DEF OfAdded
  <2>2. \A i \in 1 .. 2 : i = 1 \/ i = 2
    OBVIOUS
  <2>3. \A i \in 1 .. Len(pending') : OfAdded(pending[i])'
    BY <1>6, <2>1, <2>2 DEF OfAdded
  <2> QED BY <1>1, <2>3 DEF TBHashInv, HoldsAdded, OfAdded, Full, Inserting
<1>8. AddedIsHeld'
  <2> SUFFICES ASSUME NEW c \in added \cup {b}, NEW k \in KeysOf(c)
               PROVE  Somewhere([key |-> k, table |-> c])'
    BY <1>1 DEF AddedIsHeld
  <2>1. CASE c \in added
    <3> DEFINE e == [key |-> k, table |-> c]
    <3>1. Somewhere([key |-> k, table |-> c])
      BY <2>1 DEF TBHashInv, AddedIsHeld
    <3>2. ~ \E i \in 1 .. Len(pending) : pending[i] = [key |-> k, table |-> c]
      BY <1>1
    <3> QED BY <3>1, <3>2, <1>1 DEF Somewhere
  <2>2. CASE c = b
    <3>1. [key |-> k, table |-> c] \in {e1, e2}
      BY <2>2, <1>2
    <3>2. 1 \in 1 .. Len(pending') /\ 2 \in 1 .. Len(pending')
      BY <1>6
    <3> QED BY <3>1, <3>2, <1>6 DEF Somewhere
  <2> QED BY <2>1, <2>2
<1> QED BY <1>4, <1>5, <1>7, <1>8 DEF TBHashInv

\* insert takes the next entry and begins at its home.
LEMMA InsertKeepsHash == ASSUME TBHashInv, Insert PROVE TBHashInv'
<1>1. /\ UNCHANGED <<hashTable, added, exited>>
      /\ ~Inserting /\ pending # <<>>
      /\ entry' = Head(pending) /\ pending' = Tail(pending)
      /\ homeBucket' = Home[entry'.key] /\ bucket' = Home[entry'.key]
  BY DEF Insert
<1>2. HashTypes
  BY DEF TBHashInv
<1>3. /\ Head(pending) = pending[1] /\ 1 \in 1 .. Len(pending)
      /\ Tail(pending) \in Seq(TBEntry) /\ Len(Tail(pending)) = Len(pending) - 1
      /\ Len(pending) \in Nat
      /\ \A i \in 1 .. Len(pending) - 1 : Tail(pending)[i] = pending[i + 1]
  <2>1. pending \in Seq(TBEntry) /\ pending # <<>>
    BY <1>1, <1>2 DEF HashTypes
  <2> QED BY <2>1
<1>4. /\ pending[1] \in TBEntry /\ OfAdded(pending[1])
  BY <1>2, <1>3 DEF HashTypes, TBHashInv, HoldsAdded
<1>5. pending[1].key \in TBKeys /\ pending[1] # NoEntry
  BY <1>4, <1>2, KeysAreKeys, TablesAssumption DEF OfAdded, HashTypes, NoEntry
<1>6. entry' \in TBEntry /\ entry'.key \in TBKeys /\ entry' # NoEntry /\ OfAdded(entry')
  BY <1>1, <1>3, <1>4, <1>5
<1>7. homeBucket' \in Buckets /\ bucket' = homeBucket'
  BY <1>1, <1>6, BucketFacts
<1>8. HashTypes'
  BY <1>1, <1>2, <1>3, <1>6, <1>7 DEF HashTypes
<1>9. LastIsEmpty' /\ WaysAreFull' /\ KeysApart'
  BY <1>1 DEF TBHashInv, LastIsEmpty, WaysAreFull, KeysApart, Full, HomeOf
<1>10. WayOfEntry'
  <2>1. homeBucket' \in 0 .. Size
    BY <1>7, BucketFacts
  <2>2. homeBucket' .. bucket' - 1 = {}
    <3>1. \A h \in 0 .. Size : h .. h - 1 = {}
      BY BucketFacts
    <3> QED BY <3>1, <2>1, <1>7
  <2>3. homeBucket' <= bucket'
    BY <2>1, <1>7, BucketFacts
  <2> QED BY <1>1, <2>2, <2>3 DEF WayOfEntry
<1>11. HoldsAdded'
  <2>1. \A i \in 1 .. Len(pending') : OfAdded(pending'[i])
    <3> SUFFICES ASSUME NEW i \in 1 .. Len(pending) - 1 PROVE OfAdded(pending[i + 1])
      BY <1>1, <1>3
    <3>1. i + 1 \in 1 .. Len(pending)
      BY <1>3
    <3> QED BY <3>1 DEF TBHashInv, HoldsAdded
  <2> QED BY <2>1, <1>1, <1>6 DEF TBHashInv, HoldsAdded, OfAdded, Full
<1>12. ASSUME NEW e, Somewhere(e), e.table # NoTable PROVE Somewhere(e)'
  <2>1. CASE \E b \in Buckets : hashTable[b] = e
    BY <2>1, <1>1 DEF Somewhere
  <2>2. CASE entry = e
    BY <2>2, <1>1, <1>12 DEF Inserting, NoEntry
  <2>3. CASE \E i \in 1 .. Len(pending) : pending[i] = e
    <3>1. PICK i \in 1 .. Len(pending) : pending[i] = e
      BY <2>3
    <3>2. CASE i = 1
      BY <3>1, <3>2, <1>1, <1>3 DEF Somewhere
    <3>3. CASE i # 1
      <4>1. i - 1 \in 1 .. Len(pending) - 1 /\ (i - 1) + 1 = i
        BY <3>3, <1>3
      <4>2. Tail(pending)[i - 1] = e
        BY <4>1, <3>1, <1>3
      <4>3. i - 1 \in 1 .. Len(pending') /\ pending'[i - 1] = e
        BY <4>1, <4>2, <1>1, <1>3
      <4> QED BY <4>3 DEF Somewhere
    <3> QED BY <3>2, <3>3
  <2> QED BY <1>12, <2>1, <2>2, <2>3 DEF Somewhere
<1>13. AddedIsHeld'
  <2>1. \A b \in added : b # NoTable
    BY <1>2, TablesAssumption DEF HashTypes
  <2> QED BY <2>1, <1>12, <1>1 DEF TBHashInv, AddedIsHeld
<1> QED BY <1>8, <1>9, <1>10, <1>11, <1>13 DEF TBHashInv

\* The program ends when the table is too small.
LEMMA SizeTooLowKeepsHash == ASSUME TBHashInv, SizeTooLow PROVE TBHashInv'
BY DEF SizeTooLow, TBHashInv, HashTypes, LastIsEmpty, WaysAreFull, KeysApart, WayOfEntry, HoldsAdded, AddedIsHeld,
       Somewhere, OfAdded, Full, HomeOf, Inserting

\* Another path begins with an empty hash.
LEMMA ClearKeepsHash == ASSUME TBHashInv, Clear PROVE TBHashInv'
<1>1. /\ hashTable' = [b \in Buckets |-> NoEntry] /\ added' = {}
      /\ UNCHANGED <<pending, entry, bucket, homeBucket, exited>>
      /\ ~Inserting /\ pending = <<>>
  BY DEF Clear
<1>2. \A b \in Buckets : ~Full(b)'
  BY <1>1 DEF Full, NoEntry
<1>3. HashTypes'
  <2>1. NoEntry \in TBEntry
    BY DEF TBEntry
  <2> QED BY <2>1, <1>1 DEF TBHashInv, HashTypes
<1>4. ~Inserting'
  BY <1>1 DEF Inserting
<1>5. LastIsEmpty' /\ WaysAreFull' /\ KeysApart' /\ WayOfEntry'
  BY <1>2, <1>4, BucketFacts DEF LastIsEmpty, WaysAreFull, KeysApart, WayOfEntry
<1>6. HoldsAdded' /\ AddedIsHeld'
  BY <1>1, <1>2, <1>4 DEF HoldsAdded, AddedIsHeld
<1> QED BY <1>3, <1>5, <1>6 DEF TBHashInv

\* Probes do not touch the hash.
LEMMA RestKeepsHash == ASSUME TBHashInv, UNCHANGED hashVars PROVE TBHashInv'
BY DEF hashVars, TBHashInv, HashTypes, LastIsEmpty, WaysAreFull, KeysApart, WayOfEntry, HoldsAdded, AddedIsHeld,
       Somewhere, OfAdded, Full, HomeOf, Inserting

\* A lookup stops at the empty last bucket at the latest.
LEMMA LookupsStop == TBHashInv => LookupStaysInTable
<1> SUFFICES ASSUME TBHashInv, NEW k \in TBKeys PROVE Size \in Stops(k)
  BY DEF LookupStaysInTable
<1> QED BY BucketFacts DEF TBHashInv, LastIsEmpty, Full, Stops

\* A set of numbers that is not empty has a least one.
\* Where a lookup stops: nothing before has its key or is empty.
LEMMA FirstStop ==
  ASSUME TBHashInv, NEW k \in TBKeys
  PROVE  \E b \in Stops(k) : /\ Get(k) = hashTable[b].table
                             /\ \A y \in Stops(k) : b <= y
<1>1. Stops(k) # {} /\ Stops(k) \subseteq Nat
  BY LookupsStop, BucketFacts DEF LookupStaysInTable, Stops
<1>2. \E b \in Stops(k) : \A y \in Stops(k) : b <= y
  BY <1>1, LeastNumber
<1> DEFINE b == CHOOSE x \in Stops(k) : \A y \in Stops(k) : x <= y
<1>3. b \in Stops(k) /\ (\A y \in Stops(k) : b <= y) /\ Get(k) = hashTable[b].table
  BY <1>2 DEF Get
<1> QED BY <1>3

\* Every key finds the table that was added for it, any other none.
LEMMA LookupsFind == TBHashInv => KeysFindTheirTables
<1> SUFFICES ASSUME TBHashInv, ~Inserting, pending = <<>>, NEW k \in TBKeys
             PROVE  Get(k) = (IF \E b \in added : k \in KeysOf(b) THEN CHOOSE b \in added : k \in KeysOf(b) ELSE NoTable)
  BY DEF KeysFindTheirTables
<1>1. HashTypes
  BY DEF TBHashInv
<1>2. PICK s \in Stops(k) : Get(k) = hashTable[s].table /\ \A y \in Stops(k) : s <= y
  BY FirstStop
<1>3. s \in Buckets /\ s >= Home[k] /\ (hashTable[s].key = k \/ hashTable[s].table = NoTable)
  BY DEF Stops
<1>4. CASE \E b \in added : k \in KeysOf(b)
  <2>1. PICK b \in added : k \in KeysOf(b)
    BY <1>4
  <2>2. \A c \in added : k \in KeysOf(c) => c = b
    BY <2>1, <1>1, TableOfKey DEF HashTypes
  <2>3. (CHOOSE c \in added : k \in KeysOf(c)) = b
    BY <2>1, <2>2
  <2> DEFINE e == [key |-> k, table |-> b]
  <2>4. e.key = k /\ e.table = b /\ b # NoTable
    BY <1>1, TablesAssumption DEF HashTypes
  <2>5. Somewhere(e)
    BY <2>1 DEF TBHashInv, AddedIsHeld
  <2>6. e # entry
    BY <2>4 DEF Inserting, NoEntry
  <2> HIDE DEF e
  <2>7. PICK d \in Buckets : hashTable[d] = e
    BY <2>5, <2>6 DEF Somewhere
  <2>8. Full(d) /\ HomeOf(d) = Home[k]
    BY <2>4, <2>7 DEF Full, HomeOf
  <2>9. Home[k] <= d /\ \A c \in Home[k] .. d : Full(c)
    BY <2>8 DEF TBHashInv, WaysAreFull
  <2>10. s <= d
    BY <1>2, <2>4, <2>7, <2>9 DEF Stops
  <2>11. Full(s)
    BY <1>3, <2>9, <2>10, BucketFacts
  <2>12. s = d
    BY <1>3, <2>4, <2>7, <2>8, <2>11 DEF TBHashInv, KeysApart, Full
  <2> QED BY <1>2, <1>4, <2>3, <2>4, <2>7, <2>12
<1>5. CASE ~ \E b \in added : k \in KeysOf(b)
  <2>1. ~(Full(s) /\ hashTable[s].key = k)
    BY <1>3, <1>5 DEF TBHashInv, HoldsAdded, OfAdded
  <2> QED BY <1>2, <1>3, <1>5, <2>1 DEF Full
<1> QED BY <1>4, <1>5

-----------------------------------------------------------------------------
(* The files.                                                              *)

FileTypes ==
  /\ ready \subseteq added /\ addressed \subseteq added /\ filled \subseteq addressed
  /\ tries \in [Tables -> Nat]
  /\ tbMutex \in TBThreads \cup {NoThread}
  /\ tbpc \in [TBThreads -> {"idle", "look", "lock", "recheck", "map", "magic", "publish"}]
  /\ probing \in [TBThreads -> Tables \cup {NoTable}]
  /\ result \in [TBThreads -> Tables \cup {NoTable}]
  /\ asked \in [TBThreads -> Tables \cup {NoTable}]
\* A probe under way is for a table that was added; outside it there is none.
ProbesAdded ==
  \A t \in TBThreads : IF tbpc[t] = "idle" THEN probing[t] = NoTable ELSE probing[t] \in added
\* The thread past the lock is the one that holds it, and maps what is not ready.
OneMaps ==
  \A t \in TBThreads :
    /\ tbpc[t] \in {"recheck", "map", "magic", "publish"} <=> tbMutex = t
    /\ tbpc[t] \in {"map", "magic", "publish"} => probing[t] \notin ready
\* A file that was touched is ready, or somebody is at it.
AtFile(b) == \E t \in TBThreads : tbpc[t] \in {"magic", "publish"} /\ probing[t] = b
TouchedByMapper ==
  \A b \in Tables : (tries[b] # 0 \/ b \in addressed) /\ b \notin ready => AtFile(b)
\* What is ready and has an address has its data, too; while the magic is
\* checked it has not.
ReadyIsWhole ==
  /\ \A b \in ready : b \in addressed => b \in filled
  /\ \A t \in TBThreads : tbpc[t] = "publish" /\ probing[t] \in addressed => probing[t] \in filled
  /\ \A t \in TBThreads : tbpc[t] = "magic" => probing[t] \in addressed /\ probing[t] \notin filled
\* A good file that was gone through keeps its address.
GoodIsAddressed ==
  /\ \A b \in ready : Files[b] = "good" => b \in addressed
  /\ \A t \in TBThreads : tbpc[t] = "publish" /\ Files[probing[t]] = "good" => probing[t] \in addressed

FileInv ==
  /\ FileTypes /\ ProbesAdded /\ OneMaps /\ TouchedByMapper /\ ReadyIsWhole /\ GoodIsAddressed
  /\ TablesReadWhole /\ GoodTablesRead /\ FilesOpenedOnce

LEMMA FilesInitially == TBInit => FileInv
<1> SUFFICES ASSUME TBInit PROVE FileInv
  OBVIOUS
<1> QED
  BY TBThreadsAssumption
  DEF TBInit, FileInv, FileTypes, ProbesAdded, OneMaps, TouchedByMapper, ReadyIsWhole, GoodIsAddressed,
      TablesReadWhole, GoodTablesRead, FilesOpenedOnce

\* The hash changes while nobody probes.
LEMMA HashStepKeepsFiles ==
  ASSUME FileInv, HashTypes, UNCHANGED fileVars, added \subseteq added'
  PROVE  FileInv'
BY DEF fileVars, FileInv, FileTypes, ProbesAdded, OneMaps, TouchedByMapper, AtFile, ReadyIsWhole, GoodIsAddressed,
      TablesReadWhole, GoodTablesRead, FilesOpenedOnce

LEMMA ClearKeepsFiles == ASSUME FileInv, Clear PROVE FileInv'
<1>1. /\ NoProbes /\ added' = {} /\ ready' = {} /\ addressed' = {} /\ filled' = {}
      /\ tries' = [b \in Tables |-> 0] /\ result' = [t \in TBThreads |-> NoTable] /\ asked' = [t \in TBThreads |-> NoTable]
      /\ UNCHANGED <<tbMutex, tbpc, probing>>
  BY DEF Clear
<1> QED
  BY <1>1
  DEF NoProbes, FileInv, FileTypes, ProbesAdded, OneMaps, TouchedByMapper, ReadyIsWhole, GoodIsAddressed,
      TablesReadWhole, GoodTablesRead, FilesOpenedOnce

\* A probe that finds a table looks at its file.
LEMMA ProbeTableKeepsFiles ==
  ASSUME FileInv, TBHashInv, NEW t \in TBThreads, NEW key \in TBKeys, ProbeTable(t, key)
  PROVE  FileInv'
<1>1. Get(key) = NoTable \/ Get(key) \in added
  <2>1. Get(key) = (IF \E b \in added : key \in KeysOf(b) THEN CHOOSE b \in added : key \in KeysOf(b) ELSE NoTable)
    BY LookupsFind DEF ProbeTable, KeysFindTheirTables
  <2> QED BY <2>1
<1>2. added \subseteq Tables /\ NoTable \notin Tables
  BY TablesAssumption DEF TBHashInv, HashTypes
<1>3. /\ tbpc[t] = "idle" /\ tbMutex # t
      /\ UNCHANGED <<added, ready, addressed, filled, tries, tbMutex>>
  BY DEF ProbeTable, hashVars, FileInv, OneMaps
<1>4. CASE Get(key) = NoTable
  <2>1. /\ result' = [result EXCEPT ![t] = NoTable] /\ asked' = [asked EXCEPT ![t] = NoTable]
        /\ probing' = [probing EXCEPT ![t] = NoTable]
        /\ tbpc' = [tbpc EXCEPT ![t] = "idle"]
    BY <1>3, <1>4 DEF ProbeTable, Answers, Goes, FileInv, ProbesAdded
  <2>2. \A b \in Tables : AtFile(b) => AtFile(b)'
    BY <2>1, <1>3 DEF AtFile, FileInv, FileTypes
  <2> QED
    BY <1>2, <1>3, <2>1, <2>2
    DEF FileInv, FileTypes, ProbesAdded, OneMaps, TouchedByMapper, ReadyIsWhole, GoodIsAddressed,
      TablesReadWhole, GoodTablesRead, FilesOpenedOnce
<1>5. CASE Get(key) # NoTable
  <2>1. /\ UNCHANGED <<result, asked>>
        /\ probing' = [probing EXCEPT ![t] = Get(key)]
        /\ tbpc' = [tbpc EXCEPT ![t] = "look"]
    BY <1>5 DEF ProbeTable, Goes
  <2>2. \A b \in Tables : AtFile(b) => AtFile(b)'
    BY <2>1, <1>3 DEF AtFile, FileInv, FileTypes
  <2> QED
    BY <1>1, <1>2, <1>3, <1>5, <2>1, <2>2
    DEF FileInv, FileTypes, ProbesAdded, OneMaps, TouchedByMapper, ReadyIsWhole, GoodIsAddressed,
      TablesReadWhole, GoodTablesRead, FilesOpenedOnce
<1> QED BY <1>4, <1>5

\* A table that is ready is read at once.
LEMMA LookReadyKeepsFiles == ASSUME FileInv, TBHashInv, NEW t \in TBThreads, LookReady(t) PROVE FileInv'
<1>1. /\ tbpc[t] = "look" /\ tbMutex # t
      /\ UNCHANGED <<added, ready, addressed, filled, tries, tbMutex>>
  BY DEF LookReady, hashVars, FileInv, OneMaps
<1>2. added \subseteq Tables /\ NoTable \notin Tables
  BY TablesAssumption DEF TBHashInv, HashTypes
<1>3. CASE probing[t] \in ready
  <2> DEFINE r == IF probing[t] \in addressed THEN probing[t] ELSE NoTable
  <2>1. /\ result' = [result EXCEPT ![t] = r] /\ asked' = [asked EXCEPT ![t] = probing[t]]
        /\ probing' = [probing EXCEPT ![t] = NoTable]
        /\ tbpc' = [tbpc EXCEPT ![t] = "idle"]
    BY <1>3 DEF LookReady, Reads, Answers, Goes
  <2>2. \A b \in Tables : AtFile(b) => AtFile(b)'
    BY <2>1, <1>1 DEF AtFile, FileInv, FileTypes
  <2>3. r \in Tables \cup {NoTable} /\ (r # NoTable => r \in filled)
        /\ (Files[probing[t]] = "good" => r = probing[t])
    BY <1>1, <1>2, <1>3 DEF FileInv, ReadyIsWhole, GoodIsAddressed, ProbesAdded
  <2> HIDE DEF r
  <2> QED
    BY <1>1, <1>2, <2>1, <2>2, <2>3
    DEF FileInv, FileTypes, ProbesAdded, OneMaps, TouchedByMapper, ReadyIsWhole, GoodIsAddressed,
      TablesReadWhole, GoodTablesRead, FilesOpenedOnce
<1>4. CASE probing[t] \notin ready
  <2>1. UNCHANGED <<result, asked, probing>> /\ tbpc' = [tbpc EXCEPT ![t] = "lock"]
    BY <1>4 DEF LookReady, Goes
  <2>2. \A b \in Tables : AtFile(b) => AtFile(b)'
    BY <2>1, <1>1 DEF AtFile, FileInv, FileTypes
  <2> QED
    BY <1>1, <1>2, <2>1, <2>2
    DEF FileInv, FileTypes, ProbesAdded, OneMaps, TouchedByMapper, ReadyIsWhole, GoodIsAddressed,
      TablesReadWhole, GoodTablesRead, FilesOpenedOnce
<1> QED BY <1>3, <1>4

\* One thread gets the lock.
LEMMA LockMappedKeepsFiles == ASSUME FileInv, NEW t \in TBThreads, LockMapped(t) PROVE FileInv'
<1>1. /\ tbpc[t] = "lock" /\ tbMutex = NoThread /\ tbMutex' = t /\ tbpc' = [tbpc EXCEPT ![t] = "recheck"]
      /\ UNCHANGED <<added, ready, addressed, filled, tries, probing, result, asked>>
  BY DEF LockMapped, hashVars, Goes
<1>2. \A b \in Tables : AtFile(b) => AtFile(b)'
  BY <1>1 DEF AtFile, FileInv, FileTypes
<1> QED
  BY <1>1, <1>2, TBThreadsAssumption
  DEF FileInv, FileTypes, ProbesAdded, OneMaps, TouchedByMapper, ReadyIsWhole, GoodIsAddressed,
      TablesReadWhole, GoodTablesRead, FilesOpenedOnce

\* Somebody else has mapped the file, or this thread is to.
LEMMA RecheckReadyKeepsFiles == ASSUME FileInv, TBHashInv, NEW t \in TBThreads, RecheckReady(t) PROVE FileInv'
<1>1. /\ tbpc[t] = "recheck" /\ tbMutex = t
      /\ UNCHANGED <<added, ready, addressed, filled, tries>>
  BY DEF RecheckReady, hashVars, FileInv, OneMaps
<1>2. added \subseteq Tables /\ NoTable \notin Tables
  BY TablesAssumption DEF TBHashInv, HashTypes
<1>3. CASE probing[t] \in ready
  <2> DEFINE r == IF probing[t] \in addressed THEN probing[t] ELSE NoTable
  <2>1. /\ result' = [result EXCEPT ![t] = r] /\ asked' = [asked EXCEPT ![t] = probing[t]]
        /\ probing' = [probing EXCEPT ![t] = NoTable]
        /\ tbpc' = [tbpc EXCEPT ![t] = "idle"] /\ tbMutex' = NoThread
    BY <1>3 DEF RecheckReady, Reads, Answers, Goes
  <2>2. \A b \in Tables : AtFile(b) => AtFile(b)'
    BY <2>1, <1>1 DEF AtFile, FileInv, FileTypes
  <2>3. r \in Tables \cup {NoTable} /\ (r # NoTable => r \in filled)
        /\ (Files[probing[t]] = "good" => r = probing[t])
    BY <1>1, <1>2, <1>3 DEF FileInv, ReadyIsWhole, GoodIsAddressed, ProbesAdded
  <2> HIDE DEF r
  <2> QED
    BY <1>1, <1>2, <2>1, <2>2, <2>3, TBThreadsAssumption
    DEF FileInv, FileTypes, ProbesAdded, OneMaps, TouchedByMapper, ReadyIsWhole, GoodIsAddressed,
      TablesReadWhole, GoodTablesRead, FilesOpenedOnce
<1>4. CASE probing[t] \notin ready
  <2>1. UNCHANGED <<result, asked, probing, tbMutex>> /\ tbpc' = [tbpc EXCEPT ![t] = "map"]
    BY <1>4 DEF RecheckReady, Goes
  <2>2. \A b \in Tables : AtFile(b) => AtFile(b)'
    BY <2>1, <1>1 DEF AtFile, FileInv, FileTypes
  <2> QED
    BY <1>1, <1>2, <1>4, <2>1, <2>2
    DEF FileInv, FileTypes, ProbesAdded, OneMaps, TouchedByMapper, ReadyIsWhole, GoodIsAddressed,
      TablesReadWhole, GoodTablesRead, FilesOpenedOnce
<1> QED BY <1>3, <1>4

\* A file is opened, checked and its data are set, by the holder of the lock.
LEMMA MapFileKeepsFiles == ASSUME FileInv, TBHashInv, NEW t \in TBThreads, MapFile(t) PROVE FileInv'
<1>1. PICK b \in Tables : b = probing[t]
  <2>1. tbpc[t] # "idle"
    BY DEF MapFile
  <2> QED BY <2>1 DEF FileInv, ProbesAdded, TBHashInv, HashTypes
<1>2. /\ UNCHANGED <<added, ready, tbMutex, probing, result, asked>>
      /\ tbMutex = t /\ b \notin ready /\ b \in added
      /\ \A u \in TBThreads : u # t => tbpc[u] \notin {"recheck", "map", "magic", "publish"}
  BY <1>1 DEF MapFile, hashVars, FileInv, OneMaps, ProbesAdded
<1>3. ASSUME tbpc'[t] \in {"magic", "publish"}, \A u \in TBThreads : u # t => tbpc'[u] = tbpc[u]
      PROVE  /\ AtFile(b)'
             /\ \A c \in Tables : AtFile(c) => AtFile(c)'
  BY <1>1, <1>2, <1>3 DEF AtFile
<1>4. CASE tbpc[t] = "map"
  <2>1. /\ tries' = [tries EXCEPT ![b] = tries[b] + 1] /\ UNCHANGED filled
        /\ \/ addressed' = addressed /\ tbpc' = [tbpc EXCEPT ![t] = "publish"]
           \/ addressed' = addressed \cup {b} /\ tbpc' = [tbpc EXCEPT ![t] = "magic"]
    BY <1>1, <1>4 DEF MapFile, Goes
  <2>2. ~AtFile(b)
    BY <1>2, <1>4 DEF AtFile
  <2>3. tries[b] = 0 /\ b \notin addressed /\ b \notin filled
    BY <1>2, <2>2 DEF FileInv, FileTypes, TouchedByMapper
  <2>4. /\ tbpc'[t] \in {"magic", "publish"}
        /\ \A u \in TBThreads : u # t => tbpc'[u] = tbpc[u]
    BY <2>1 DEF FileInv, FileTypes
  <2>5. AtFile(b)' /\ \A c \in Tables : AtFile(c) => AtFile(c)'
    BY <1>3, <2>4
  <2>6. FileTypes' /\ ProbesAdded' /\ OneMaps' /\ TouchedByMapper'
    BY <1>1, <1>2, <1>4, <2>1, <2>3, <2>5 DEF FileInv, FileTypes, ProbesAdded, OneMaps, TouchedByMapper
  <2>7. ReadyIsWhole'
    BY <1>1, <1>2, <2>1, <2>3, <2>4 DEF FileInv, FileTypes, ReadyIsWhole
  <2>8. GoodIsAddressed'
    BY <1>1, <1>2, <1>4, <2>1, <2>4 DEF FileInv, FileTypes, GoodIsAddressed, MapFile, Goes
  <2>9. TablesReadWhole' /\ GoodTablesRead' /\ FilesOpenedOnce'
    BY <1>2, <2>1, <2>3 DEF FileInv, FileTypes, TablesReadWhole, GoodTablesRead, FilesOpenedOnce
  <2> QED BY <2>6, <2>7, <2>8, <2>9 DEF FileInv
<1>5. CASE tbpc[t] = "magic"
  <2>1. /\ UNCHANGED tries /\ tbpc' = [tbpc EXCEPT ![t] = "publish"]
        /\ \/ addressed' = addressed \ {b} /\ UNCHANGED filled
           \/ filled' = filled \cup {b} /\ UNCHANGED addressed
    BY <1>1, <1>5 DEF MapFile, Goes
  <2>2. b \in addressed /\ b \notin filled
    BY <1>1, <1>5 DEF FileInv, ReadyIsWhole
  <2>3. /\ tbpc'[t] \in {"magic", "publish"}
        /\ \A u \in TBThreads : u # t => tbpc'[u] = tbpc[u]
    BY <2>1 DEF FileInv, FileTypes
  <2>4. AtFile(b)' /\ \A c \in Tables : AtFile(c) => AtFile(c)'
    BY <1>3, <2>3
  <2>5. FileTypes' /\ ProbesAdded' /\ OneMaps' /\ TouchedByMapper'
    BY <1>1, <1>2, <1>5, <2>1, <2>2, <2>4 DEF FileInv, FileTypes, ProbesAdded, OneMaps, TouchedByMapper
  <2>6. ReadyIsWhole'
    BY <1>1, <1>2, <2>1, <2>2, <2>3 DEF FileInv, FileTypes, ReadyIsWhole
  <2>7. GoodIsAddressed'
    BY <1>1, <1>2, <1>5, <2>1, <2>2, <2>3 DEF FileInv, FileTypes, GoodIsAddressed, MapFile, Goes
  <2>8. TablesReadWhole' /\ GoodTablesRead' /\ FilesOpenedOnce'
    BY <1>2, <2>1 DEF FileInv, FileTypes, TablesReadWhole, GoodTablesRead, FilesOpenedOnce
  <2> QED BY <2>5, <2>6, <2>7, <2>8 DEF FileInv
<1> QED BY <1>4, <1>5 DEF MapFile

\* The file is done with, whatever it was.
LEMMA PublishKeepsFiles == ASSUME FileInv, TBHashInv, NEW t \in TBThreads, Publish(t) PROVE FileInv'
<1>1. PICK b \in Tables : b = probing[t]
  BY DEF Publish, FileInv, ProbesAdded, TBHashInv, HashTypes
<1> DEFINE r == IF b \in addressed THEN b ELSE NoTable
<1>2. /\ UNCHANGED <<added, addressed, filled, tries>>
      /\ tbpc[t] = "publish" /\ tbMutex = t /\ b \in added
      /\ ready' = ready \cup {b} /\ tbMutex' = NoThread
      /\ result' = [result EXCEPT ![t] = r] /\ asked' = [asked EXCEPT ![t] = b]
      /\ probing' = [probing EXCEPT ![t] = NoTable]
      /\ tbpc' = [tbpc EXCEPT ![t] = "idle"]
  BY <1>1 DEF Publish, Reads, Answers, Goes, hashVars, FileInv, OneMaps, ProbesAdded
<1>3. r \in Tables \cup {NoTable} /\ (r # NoTable => r \in filled) /\ (b \in addressed => b \in filled)
      /\ (Files[b] = "good" => b \in addressed /\ r = b)
  BY <1>1, <1>2 DEF FileInv, ReadyIsWhole, GoodIsAddressed
<1>4. \A c \in Tables : AtFile(c) => c = b
  BY <1>1, <1>2 DEF AtFile, FileInv, OneMaps
<1>5. \A u \in TBThreads : u # t => tbpc'[u] = tbpc[u] /\ probing'[u] = probing[u]
                                    /\ tbpc[u] \notin {"recheck", "map", "magic", "publish"}
  BY <1>2 DEF FileInv, FileTypes, OneMaps
<1> HIDE DEF r
<1>6. FileTypes' /\ ProbesAdded' /\ OneMaps'
  BY <1>2, <1>3, <1>5, TBThreadsAssumption DEF FileInv, FileTypes, ProbesAdded, OneMaps
<1>7. TouchedByMapper'
  BY <1>2, <1>4 DEF FileInv, TouchedByMapper
<1>8. ReadyIsWhole' /\ GoodIsAddressed'
  BY <1>2, <1>3, <1>5 DEF FileInv, FileTypes, ReadyIsWhole, GoodIsAddressed
<1>9. TablesReadWhole' /\ GoodTablesRead' /\ FilesOpenedOnce'
  BY <1>2, <1>3 DEF FileInv, FileTypes, TablesReadWhole, GoodTablesRead, FilesOpenedOnce
<1> QED BY <1>6, <1>7, <1>8, <1>9 DEF FileInv

-----------------------------------------------------------------------------
LEMMA TBStep == TBHashInv /\ FileInv /\ [TBNext]_tbVars => (TBHashInv /\ FileInv)'
<1> SUFFICES ASSUME TBHashInv, FileInv, [TBNext]_tbVars PROVE TBHashInv' /\ FileInv'
  OBVIOUS
<1>1. HashTypes
  BY DEF TBHashInv
<1>2. ASSUME NEW b \in Tables, Add(b) PROVE TBHashInv' /\ FileInv'
  <2>1. UNCHANGED fileVars /\ added \subseteq added'
    BY <1>2 DEF Add
  <2> QED BY <1>1, <1>2, <2>1, AddKeepsHash, HashStepKeepsFiles
<1>3. CASE Insert
  <2>1. UNCHANGED fileVars /\ added \subseteq added'
    BY <1>3 DEF Insert
  <2> QED BY <1>1, <1>3, <2>1, InsertKeepsHash, HashStepKeepsFiles
<1>4. CASE Place
  <2>1. UNCHANGED fileVars /\ added \subseteq added'
    BY <1>4 DEF Place
  <2> QED BY <1>1, <1>4, <2>1, PlaceKeepsHash, HashStepKeepsFiles
<1>5. CASE Advance
  <2>1. UNCHANGED fileVars /\ added \subseteq added'
    BY <1>5 DEF Advance
  <2> QED BY <1>1, <1>5, <2>1, AdvanceKeepsHash, HashStepKeepsFiles
<1>6. CASE SizeTooLow
  <2>1. UNCHANGED fileVars /\ added \subseteq added'
    BY <1>6 DEF SizeTooLow
  <2> QED BY <1>1, <1>6, <2>1, SizeTooLowKeepsHash, HashStepKeepsFiles
<1>7. CASE Clear
  BY <1>7, ClearKeepsHash, ClearKeepsFiles
<1>8. ASSUME NEW t \in TBThreads, NEW key \in TBKeys, ProbeTable(t, key) PROVE TBHashInv' /\ FileInv'
  <2>1. UNCHANGED hashVars
    BY <1>8 DEF ProbeTable
  <2> QED BY <1>8, <2>1, RestKeepsHash, ProbeTableKeepsFiles
<1>9. ASSUME NEW t \in TBThreads, LookReady(t) PROVE TBHashInv' /\ FileInv'
  <2>1. UNCHANGED hashVars
    BY <1>9 DEF LookReady
  <2> QED BY <1>9, <2>1, RestKeepsHash, LookReadyKeepsFiles
<1>10. ASSUME NEW t \in TBThreads, LockMapped(t) PROVE TBHashInv' /\ FileInv'
  <2>1. UNCHANGED hashVars
    BY <1>10 DEF LockMapped
  <2> QED BY <1>10, <2>1, RestKeepsHash, LockMappedKeepsFiles
<1>11. ASSUME NEW t \in TBThreads, RecheckReady(t) PROVE TBHashInv' /\ FileInv'
  <2>1. UNCHANGED hashVars
    BY <1>11 DEF RecheckReady
  <2> QED BY <1>11, <2>1, RestKeepsHash, RecheckReadyKeepsFiles
<1>12. ASSUME NEW t \in TBThreads, MapFile(t) PROVE TBHashInv' /\ FileInv'
  <2>1. UNCHANGED hashVars
    BY <1>12 DEF MapFile
  <2> QED BY <1>12, <2>1, RestKeepsHash, MapFileKeepsFiles
<1>13. ASSUME NEW t \in TBThreads, Publish(t) PROVE TBHashInv' /\ FileInv'
  <2>1. UNCHANGED hashVars
    BY <1>13 DEF Publish
  <2> QED BY <1>13, <2>1, RestKeepsHash, PublishKeepsFiles
<1>14. CASE UNCHANGED tbVars
  <2>1. UNCHANGED hashVars /\ UNCHANGED fileVars /\ added \subseteq added'
    BY <1>14 DEF tbVars, hashVars, fileVars
  <2> QED BY <1>1, <2>1, RestKeepsHash, HashStepKeepsFiles
<1> QED
  BY <1>2, <1>3, <1>4, <1>5, <1>6, <1>7, <1>8, <1>9, <1>10, <1>11, <1>12, <1>13, <1>14 DEF TBNext

\* Every key finds the table that was added for it and any other key none,
\* however the keys collide (TBTables::insert and get); every file is opened
\* once, read only when all of it is there, and read by every probe that found its
\* table when it is good (mapped, TBFile::map): for any keys, homes, tables and
\* number of threads.
THEOREM TablesAreFound == TBSpec => []TablesFound
<1>1. TBHashInv /\ FileInv => TablesFound
  BY LookupsStop, LookupsFind DEF TablesFound, TBTypeOK, TBHashInv, FileInv, HashTypes, FileTypes
<1>2. TBInit => TBHashInv /\ FileInv
  BY TBHashInitially, FilesInitially
<1> QED BY <1>1, <1>2, TBStep, PTL DEF TBSpec

-----------------------------------------------------------------------------
(* Retrograde analysis.                                                    *)

MateAt(leaving, p) == NoMoves(leaving, p) /\ check[p]
Mates(leaving) == {<<p, -1>> : p \in {p \in Positions : NoMoves(leaving, p) /\ check[p]}}
Rounds(leaving, d) ==
  d = [n \in 0 .. MaxDistance |-> IF n = 0 THEN Mates(leaving) ELSE Further(leaving, d[n - 1], n)]
Plies(x) == IF x < 0 THEN -x ELSE x
LostBy(leaving, d, n) == {q \in Positions : d[q] < 0 /\ (MateAt(leaving, q) \/ -d[q] <= n)}
WonBy(d, n) == {q \in Positions : 0 < d[q] /\ d[q] <= n}
Retrograde(leaving, d) ==
  /\ d \in [Positions -> -MaxDistance .. MaxDistance]
  /\ \A p \in Positions :
       /\ MateAt(leaving, p) => d[p] = -1
       /\ \A n \in 1 .. MaxDistance : ~MateAt(leaving, p) /\ (d[p] = 0 \/ Plies(d[p]) >= n) =>
            /\ d[p] = n <=> Wins(leaving, p, LostBy(leaving, d, n - 1), n)
            /\ d[p] = -n <=> Loses(leaving, p, WonBy(d, n - 1), n)
IsLeaving(leaving) == leaving \in [Positions -> SUBSET Zeroing]

LEMMA Bounds == MaxDistance \in Nat /\ Rule50 \in Nat /\ Rule50 >= 2 /\ Cardinality(Positions) \in Nat
                /\ MaxDistance = Rule50 + 1 + Cardinality(Positions) /\ IsFiniteSet(Positions)
<1>1. IsFiniteSet(Positions)
  BY PositionsAssumption DEF Positions
<1>2. Cardinality(Positions) \in Nat
  BY <1>1, FS_CardinalityType
<1>3. QED
  BY <1>1, <1>2, Rule50Assumption DEF MaxDistance

\* The rounds of the analysis are a function that exists.
LEMMA RoundsExist == ASSUME NEW leaving PROVE \E d : Rounds(leaving, d)
<1> DEFINE B == SUBSET (Positions \X Int)
           F == [x \in (0 .. MaxDistance) \X B |-> Further(leaving, x[2], x[1])]
           I == (0 .. MaxDistance) \X B
<1>1. MaxDistance \in Int /\ 0 \in Int /\ 0 <= MaxDistance
  BY Bounds
<1>2. Mates(leaving) \in B
  BY DEF Mates
<1>3. ASSUME NEW n \in 0 .. MaxDistance, NEW x \in B PROVE Further(leaving, x, n) \in B
  BY <1>3 DEF Further
<1>4. ASSUME NEW n \in 1 .. MaxDistance, NEW x, <<n - 1, x>> \in I
      PROVE  F[<<n, x>>] = Further(leaving, x, n) /\ <<n, F[<<n, x>>]>> \in I
  <2>1. x \in B /\ n \in 0 .. MaxDistance
    BY <1>4
  <2>2. F[<<n, x>>] = Further(leaving, x, n)
    BY <2>1
  <2>3. QED
    BY <2>1, <2>2, <1>3
<1>5. <<0, Mates(leaving)>> \in I
  BY <1>1, <1>2
<1> HIDE DEF F, I
<1>6. PICK d : Stepwise(0, MaxDistance, Mates(leaving), F, d) /\ \A n \in 0 .. MaxDistance : <<n, d[n]>> \in I
  <2> DEFINE s0 == Mates(leaving)
  <2>1. \A p \in 0 + 1 .. MaxDistance : \A x : <<p - 1, x>> \in I => <<p, F[<<p, x>>]>> \in I
    BY <1>4
  <2>3. <<0, s0>> \in I
    BY <1>5
  <2> HIDE DEF s0
  <2>4. \E g : Stepwise(0, MaxDistance, s0, F, g) /\ \A p \in 0 .. MaxDistance : <<p, g[p]>> \in I
    BY <1>1, <2>1, <2>3, StepsExist
  <2>2. QED
    BY <2>4 DEF s0
<1>7. \A n \in 0 .. MaxDistance : n # 0 => d[n] = Further(leaving, d[n - 1], n)
  <2>1. \A n \in 0 .. MaxDistance : n # 0 => d[n] = F[<<n, d[n - 1]>>]
    BY <1>6 DEF Stepwise
  <2>2. \A n \in 0 .. MaxDistance : n # 0 => n \in 1 .. MaxDistance /\ n - 1 \in 0 .. MaxDistance
    BY <1>1
  <2>3. QED
    BY <2>1, <2>2, <1>4, <1>6
<1>8. d = [n \in 0 .. MaxDistance |-> IF n = 0 THEN Mates(leaving) ELSE Further(leaving, d[n - 1], n)]
  <2>1. d = [n \in 0 .. MaxDistance |-> d[n]] /\ d[0] = Mates(leaving)
    <3>1. d = [n \in 0 .. MaxDistance |-> IF n = 0 THEN Mates(leaving) ELSE F[<<n, d[n - 1]>>]]
      BY <1>6 DEF Stepwise
    <3>2. 0 \in 0 .. MaxDistance
      BY <1>1
    <3>3. QED
      BY <3>1, <3>2
  <2>2. QED
    BY <1>7, <2>1
<1>9. QED
  BY <1>8 DEF Rounds

DistanceIn(all, p) == IF p \in WonIn(all) \cup LostIn(all) THEN (CHOOSE x \in all : x[1] = p)[2] ELSE 0

LEMMA AnalysisRounds ==
  ASSUME NEW leaving
  PROVE  \E d : Rounds(leaving, d) /\ Analysis(leaving) = [p \in Positions |-> DistanceIn(d[MaxDistance], p)]
<1> DEFINE d == CHOOSE d : Rounds(leaving, d)
<1>1. Rounds(leaving, d)
  BY RoundsExist
<1>2. Analysis(leaving) = [p \in Positions |-> DistanceIn(d[MaxDistance], p)]
  BY Zenon DEF Analysis, Rounds, DistanceIn, Mates
<1>3. QED
  BY <1>1, <1>2

\* The pairs of a round.
RoundRight(leaving, n, k) ==
  /\ k \subseteq Positions \X Int
  /\ \A x \in k : IF MateAt(leaving, x[1]) THEN x[2] = -1 ELSE Plies(x[2]) \in 1 .. n
  /\ \A x, y \in k : x[1] = y[1] => x = y
  /\ \A p \in Positions : MateAt(leaving, p) => <<p, -1>> \in k

IsOpen(k, p) == p \notin WonIn(k) /\ p \notin LostIn(k)

LEMMA FurtherPairs ==
  ASSUME NEW leaving, NEW k, NEW n
  PROVE  \A x : x \in Further(leaving, k, n) <=>
           \/ x \in k
           \/ \E p \in Positions : /\ IsOpen(k, p)
                                   /\ \/ x = <<p, n>> /\ Wins(leaving, p, LostIn(k), n)
                                      \/ x = <<p, -n>> /\ Loses(leaving, p, WonIn(k), n)
BY DEF Further, IsOpen

LEMMA WonPairs == ASSUME NEW k, NEW p PROVE /\ p \in WonIn(k) <=> \E x \in k : x[2] > 0 /\ x[1] = p
                                            /\ p \in LostIn(k) <=> \E x \in k : x[2] < 0 /\ x[1] = p
BY DEF WonIn, LostIn

LEMMA OpenPairs ==
  ASSUME NEW leaving, NEW n \in Nat, NEW k, RoundRight(leaving, n, k), NEW p
  PROVE  IsOpen(k, p) <=> \A x \in k : x[1] # p
<1>1. ASSUME NEW x \in k PROVE x[2] > 0 \/ x[2] < 0
  <2>1. x[2] \in Int /\ IF MateAt(leaving, x[1]) THEN x[2] = -1 ELSE Plies(x[2]) \in 1 .. n
    BY DEF RoundRight
  <2>2. QED
    BY <2>1 DEF Plies
<1>2. QED
  BY <1>1, WonPairs DEF IsOpen

LEMMA NotBoth ==
  ASSUME NEW leaving, NEW n \in Nat, NEW k, RoundRight(leaving, n, k), NEW p \in Positions, IsLeaving(leaving), NEW m
  PROVE  ~ (Wins(leaving, p, LostIn(k), m) /\ Loses(leaving, p, WonIn(k), m))
<1>1. WonIn(k) \cap LostIn(k) = {}
  <2>1. ASSUME NEW q, q \in WonIn(k), q \in LostIn(k) PROVE FALSE
    <3>1. PICK x \in k, y \in k : x[2] > 0 /\ x[1] = q /\ y[2] < 0 /\ y[1] = q
      BY <2>1, WonPairs
    <3>2. x = y /\ x[2] \in Int
      BY <3>1 DEF RoundRight
    <3>3. QED
      BY <3>1, <3>2
  <2>2. QED
    BY <2>1
<1>2. \A z \in leaving[p] : z.value \in Int
  BY DEF IsLeaving, Zeroing, WDL
<1>3. QED
  BY <1>1, <1>2 DEF Wins, Loses

LEMMA FurtherRight ==
  ASSUME NEW leaving, IsLeaving(leaving), NEW n \in Nat \ {0}, NEW k, RoundRight(leaving, n - 1, k)
  PROVE  RoundRight(leaving, n, Further(leaving, k, n))
<1> DEFINE f == Further(leaving, k, n)
<1>0. n - 1 \in Nat /\ -n \in Int /\ n \in Int /\ Plies(n) = n /\ Plies(-n) = n /\ n \in 1 .. n
  BY DEF Plies
<1>1. \A x \in f : x \in k \/ \E p \in Positions : IsOpen(k, p) /\ x[1] = p /\ ((x = <<p, n>> /\ Wins(leaving, p, LostIn(k), n)) \/ (x = <<p, -n>> /\ Loses(leaving, p, WonIn(k), n)))
  BY FurtherPairs
<1>2. k \subseteq f
  BY FurtherPairs
<1> HIDE DEF f
<1>3. f \subseteq Positions \X Int
  <2>1. k \subseteq Positions \X Int
    BY DEF RoundRight
  <2>2. QED
    BY <1>0, <1>1, <2>1
<1>4. \A p \in Positions : MateAt(leaving, p) => <<p, -1>> \in k
  BY DEF RoundRight
<1>5. ASSUME NEW x \in f PROVE IF MateAt(leaving, x[1]) THEN x[2] = -1 ELSE Plies(x[2]) \in 1 .. n
  <2>1. CASE x \in k
    <3>1. IF MateAt(leaving, x[1]) THEN x[2] = -1 ELSE Plies(x[2]) \in 1 .. n - 1
      BY <2>1 DEF RoundRight
    <3>2. QED
      BY <3>1
  <2>2. CASE x \notin k
    <3>1. PICK p \in Positions : IsOpen(k, p) /\ x[1] = p /\ (x = <<p, n>> \/ x = <<p, -n>>)
      BY <1>1, <2>2
    <3>2. ~MateAt(leaving, p)
      <4>1. \A y \in k : y[1] # p
        BY <1>0, <3>1, OpenPairs
      <4>2. <<p, -1>> \notin k
        BY <4>1
      <4>3. QED
        BY <1>4, <4>2
    <3>3. Plies(x[2]) = n
      BY <1>0, <3>1
    <3>4. QED
      BY <1>0, <3>1, <3>2, <3>3
  <2>3. QED
    BY <2>1, <2>2
<1>6. ASSUME NEW x \in f, NEW y \in f, x[1] = y[1] PROVE x = y
  <2>1. CASE x \in k /\ y \in k
    BY <2>1, <1>6 DEF RoundRight
  <2>2. CASE x \in k /\ y \notin k
    <3>1. PICK p \in Positions : IsOpen(k, p) /\ y[1] = p
      BY <1>1, <2>2
    <3>2. QED
      BY <1>0, <1>6, <2>2, <3>1, OpenPairs
  <2>3. CASE x \notin k /\ y \in k
    <3>1. PICK p \in Positions : IsOpen(k, p) /\ x[1] = p
      BY <1>1, <2>3
    <3>2. QED
      BY <1>0, <1>6, <2>3, <3>1, OpenPairs
  <2>4. CASE x \notin k /\ y \notin k
    <3>1. PICK p \in Positions : x[1] = p /\ ((x = <<p, n>> /\ Wins(leaving, p, LostIn(k), n)) \/ (x = <<p, -n>> /\ Loses(leaving, p, WonIn(k), n)))
      BY <1>1, <2>4
    <3>2. (y = <<p, n>> /\ Wins(leaving, p, LostIn(k), n)) \/ (y = <<p, -n>> /\ Loses(leaving, p, WonIn(k), n))
      BY <1>1, <1>6, <2>4, <3>1
    <3>3. ~ (Wins(leaving, p, LostIn(k), n) /\ Loses(leaving, p, WonIn(k), n))
      BY <1>0, NotBoth
    <3>4. QED
      BY <3>1, <3>2, <3>3
  <2>5. QED
    BY <2>1, <2>2, <2>3, <2>4
<1>7. QED
  BY <1>2, <1>3, <1>4, <1>5, <1>6 DEF RoundRight, f

LEMMA RoundsRight ==
  ASSUME NEW leaving, IsLeaving(leaving), NEW d, Rounds(leaving, d)
  PROVE  \A n \in 0 .. MaxDistance : RoundRight(leaving, n, d[n])
<1> DEFINE T == {n \in 0 .. MaxDistance : RoundRight(leaving, n, d[n])}
<1>1. 0 \in Int /\ MaxDistance \in Int /\ 0 <= MaxDistance /\ 0 \in 0 .. MaxDistance
  BY Bounds
<1>2. d[0] = Mates(leaving)
  BY <1>1 DEF Rounds
<1>3. RoundRight(leaving, 0, Mates(leaving))
  <2>1. \A x : x \in Mates(leaving) <=> \E p \in Positions : x = <<p, -1>> /\ MateAt(leaving, p)
    BY DEF Mates, MateAt
  <2>2. QED
    BY <2>1 DEF RoundRight
<1>4. ASSUME NEW n \in 0 + 1 .. MaxDistance, n - 1 \in T PROVE n \in T
  <2>1. n \in 0 .. MaxDistance /\ n \in Nat \ {0} /\ n # 0
    BY <1>4
  <2>2. d[n] = Further(leaving, d[n - 1], n)
    BY <2>1 DEF Rounds
  <2>3. RoundRight(leaving, n - 1, d[n - 1])
    BY <1>4
  <2>4. QED
    BY <2>1, <2>2, <2>3, FurtherRight
<1>5. 0 \in T
  BY <1>1, <1>2, <1>3
<1> HIDE DEF T
<1>6. \A n \in 0 .. MaxDistance : n \in T
  BY <1>1, <1>4, <1>5, Ascends
<1>7. QED
  BY <1>6 DEF T

\* A round is what the last one has up to its number of plies.
LEMMA RoundsOfLast ==
  ASSUME NEW leaving, IsLeaving(leaving), NEW d, Rounds(leaving, d), NEW n \in 0 .. MaxDistance
  PROVE  d[n] = {x \in d[MaxDistance] : MateAt(leaving, x[1]) \/ Plies(x[2]) <= n}
<1> DEFINE Early(k) == {x \in k : MateAt(leaving, x[1]) \/ Plies(x[2]) <= n}
           T == {m \in n .. MaxDistance : d[n] = Early(d[m])}
<1>1. MaxDistance \in Int /\ n \in Int /\ n <= MaxDistance /\ MaxDistance \in n .. MaxDistance /\ n \in n .. MaxDistance
  BY Bounds
<1>2. \A m \in 0 .. MaxDistance : RoundRight(leaving, m, d[m])
  BY RoundsRight
<1>3. n \in T
  <2>1. \A x \in d[n] : MateAt(leaving, x[1]) \/ Plies(x[2]) <= n
    BY <1>2 DEF RoundRight
  <2>2. QED
    BY <1>1, <2>1
<1>4. ASSUME NEW m \in n + 1 .. MaxDistance, m - 1 \in T PROVE m \in T
  <2>1. m \in 0 .. MaxDistance /\ m # 0 /\ m - 1 \in 0 .. MaxDistance /\ m \in n .. MaxDistance /\ m - 1 \in Nat
        /\ n < m /\ Plies(m) = m /\ Plies(-m) = m
    BY <1>1 DEF Plies
  <2>2. d[m] = Further(leaving, d[m - 1], m)
    BY <2>1 DEF Rounds
  <2>3. RoundRight(leaving, m - 1, d[m - 1])
    BY <1>2, <2>1
  <2>4. d[m - 1] \subseteq d[m]
    BY <2>2, FurtherPairs
  <2>5. ASSUME NEW x \in d[m], x \notin d[m - 1] PROVE x \notin Early(d[m])
    <3>1. PICK p \in Positions : IsOpen(d[m - 1], p) /\ (x = <<p, m>> \/ x = <<p, -m>>)
      BY <2>2, <2>5, FurtherPairs
    <3>2. x[1] = p /\ Plies(x[2]) = m
      BY <2>1, <3>1
    <3>3. \A y \in d[m - 1] : y[1] # p
      BY <2>1, <2>3, <3>1, OpenPairs
    <3>4. ~MateAt(leaving, p)
      <4>1. MateAt(leaving, p) => <<p, -1>> \in d[m - 1]
        BY <2>3 DEF RoundRight
      <4>2. QED
        BY <3>3, <4>1
    <3>5. QED
      BY <2>1, <3>2, <3>4
  <2>6. Early(d[m]) = Early(d[m - 1])
    BY <2>4, <2>5
  <2>7. QED
    BY <1>4, <2>1, <2>6
<1> HIDE DEF T
<1>5. \A m \in n .. MaxDistance : m \in T
  BY <1>1, <1>3, <1>4, Ascends
<1>6. QED
  BY <1>1, <1>5 DEF T

LEMMA DistancePairs ==
  ASSUME NEW leaving, NEW k, RoundRight(leaving, MaxDistance, k), NEW p \in Positions
  PROVE  /\ DistanceIn(k, p) \in -MaxDistance .. MaxDistance
         /\ \A x \in k : x[1] = p => DistanceIn(k, p) = x[2]
         /\ DistanceIn(k, p) # 0 => <<p, DistanceIn(k, p)>> \in k
<1>0. MaxDistance \in Nat /\ MaxDistance >= 1
  BY Bounds
<1>1. CASE \E x \in k : x[1] = p
  <2> DEFINE x == CHOOSE x \in k : x[1] = p
  <2>1. x \in k /\ x[1] = p
    BY <1>1
  <2>2. p \in WonIn(k) \cup LostIn(k)
    BY <1>0, <1>1, OpenPairs DEF IsOpen
  <2>3. DistanceIn(k, p) = x[2]
    BY <2>2 DEF DistanceIn
  <2> HIDE DEF x
  <2>4. x \in Positions \X Int /\ IF MateAt(leaving, x[1]) THEN x[2] = -1 ELSE Plies(x[2]) \in 1 .. MaxDistance
    BY <2>1 DEF RoundRight
  <2>5. x[2] \in -MaxDistance .. MaxDistance
    BY <1>0, <2>4 DEF Plies
  <2>6. x = <<p, x[2]>>
    BY <2>1, <2>4
  <2>7. \A y \in k : y[1] = p => y = x
    BY <2>1 DEF RoundRight
  <2>8. QED
    BY <2>1, <2>3, <2>5, <2>6, <2>7
<1>2. CASE \A x \in k : x[1] # p
  <2>1. p \notin WonIn(k) \cup LostIn(k)
    BY <1>0, <1>2, OpenPairs DEF IsOpen
  <2>2. DistanceIn(k, p) = 0
    BY <2>1 DEF DistanceIn
  <2>3. QED
    BY <1>0, <1>2, <2>2
<1>3. QED
  BY <1>1, <1>2

LEMMA RoundsRetrograde ==
  ASSUME NEW leaving, IsLeaving(leaving), NEW d, Rounds(leaving, d)
  PROVE  Retrograde(leaving, [p \in Positions |-> DistanceIn(d[MaxDistance], p)])
<1> DEFINE D == [p \in Positions |-> DistanceIn(d[MaxDistance], p)]
           k == d[MaxDistance]
<1>1. MaxDistance \in Nat /\ MaxDistance \in 0 .. MaxDistance
  BY Bounds
<1>2. RoundRight(leaving, MaxDistance, k)
  BY <1>1, RoundsRight
<1>3. ASSUME NEW p \in Positions
      PROVE  /\ D[p] \in -MaxDistance .. MaxDistance
             /\ \A x \in k : x[1] = p => D[p] = x[2]
             /\ D[p] # 0 => <<p, D[p]>> \in k
  <2>1. D[p] = DistanceIn(k, p)
    OBVIOUS
  <2> HIDE DEF D, k
  <2>2. QED
    BY <1>2, <2>1, DistancePairs
<1>4. \A n \in 0 .. MaxDistance : d[n] = {x \in k : MateAt(leaving, x[1]) \/ Plies(x[2]) <= n}
  BY RoundsOfLast
<1>5. D = [p \in Positions |-> D[p]]
  OBVIOUS
<1> HIDE DEF D, k
<1>6. D \in [Positions -> -MaxDistance .. MaxDistance]
  BY <1>3, <1>5
<1>7. \A p \in Positions : MateAt(leaving, p) => D[p] = -1
  <2>1. ASSUME NEW p \in Positions, MateAt(leaving, p) PROVE D[p] = -1
    <3>1. <<p, -1>> \in k
      BY <1>2, <2>1 DEF RoundRight
    <3>2. QED
      BY <1>3, <3>1
  <2>2. QED
    BY <2>1
<1>8. k \subseteq Positions \X Int
  BY <1>2 DEF RoundRight
<1>13. \A p \in Positions : D[p] \in Int
  <2>1. \A x \in -MaxDistance .. MaxDistance : x \in Int
    BY <1>1
  <2>2. \A p \in Positions : D[p] \in -MaxDistance .. MaxDistance
    BY <1>3
  <2>3. QED
    BY <2>1, <2>2
<1>9. ASSUME NEW n \in 0 .. MaxDistance PROVE WonIn(d[n]) = WonBy(D, n) /\ LostIn(d[n]) = LostBy(leaving, D, n)
  <2>0. n \in Int
    OBVIOUS
  <2>1. \A x : x \in d[n] <=> x \in k /\ (MateAt(leaving, x[1]) \/ Plies(x[2]) <= n)
    BY <1>4
  <2>2. ASSUME NEW q \in WonIn(d[n]) PROVE q \in WonBy(D, n)
    <3>1. PICK x \in d[n] : x[2] > 0 /\ x[1] = q
      BY <2>2, WonPairs
    <3>2. x \in k /\ x \in Positions \X Int
      BY <1>8, <2>1, <3>1
    <3>3. q \in Positions /\ D[q] = x[2]
      BY <1>3, <3>1, <3>2
    <3>4. MateAt(leaving, q) => D[q] = -1
      BY <1>7, <3>3
    <3>5. Plies(x[2]) <= n
      BY <2>1, <3>1, <3>3, <3>4
    <3>6. x[2] \in Int /\ Plies(x[2]) = x[2]
      BY <3>1, <3>2 DEF Plies
    <3>7. QED
      BY <3>1, <3>3, <3>5, <3>6 DEF WonBy
  <2>3. ASSUME NEW q \in LostIn(d[n]) PROVE q \in LostBy(leaving, D, n)
    <3>1. PICK x \in d[n] : x[2] < 0 /\ x[1] = q
      BY <2>3, WonPairs
    <3>2. x \in k /\ x \in Positions \X Int /\ (MateAt(leaving, x[1]) \/ Plies(x[2]) <= n)
      BY <1>8, <2>1, <3>1
    <3>3. q \in Positions /\ D[q] = x[2]
      BY <1>3, <3>1, <3>2
    <3>4. QED
      BY <3>1, <3>2, <3>3 DEF LostBy, Plies
  <2>4. ASSUME NEW q \in WonBy(D, n) PROVE q \in WonIn(d[n])
    <3>1. q \in Positions /\ 0 < D[q] /\ D[q] <= n /\ D[q] \in Int
      BY <1>13, <2>4 DEF WonBy
    <3>2. <<q, D[q]>> \in k /\ Plies(D[q]) <= n
      BY <1>3, <3>1 DEF Plies
    <3>3. <<q, D[q]>> \in d[n]
      BY <2>1, <3>2
    <3>4. QED
      BY <3>1, <3>3, WonPairs
  <2>5. ASSUME NEW q \in LostBy(leaving, D, n) PROVE q \in LostIn(d[n])
    <3>1. q \in Positions /\ D[q] < 0 /\ (MateAt(leaving, q) \/ -D[q] <= n) /\ D[q] \in Int
      BY <1>13, <2>5 DEF LostBy
    <3>2. <<q, D[q]>> \in k /\ (MateAt(leaving, q) \/ Plies(D[q]) <= n)
      BY <1>3, <3>1 DEF Plies
    <3>3. <<q, D[q]>> \in d[n]
      BY <2>1, <3>2
    <3>4. QED
      BY <3>1, <3>3, WonPairs
  <2>6. QED
    BY <2>2, <2>3, <2>4, <2>5
<1>10. ASSUME NEW p \in Positions, NEW n \in 1 .. MaxDistance, ~MateAt(leaving, p), D[p] = 0 \/ Plies(D[p]) >= n
       PROVE  /\ D[p] = n <=> Wins(leaving, p, LostBy(leaving, D, n - 1), n)
              /\ D[p] = -n <=> Loses(leaving, p, WonBy(D, n - 1), n)
  <2>1. n \in 0 .. MaxDistance /\ n - 1 \in 0 .. MaxDistance /\ n # 0 /\ n \in Int /\ n > 0 /\ n - 1 \in Nat
    BY <1>1
  <2>2. d[n] = Further(leaving, d[n - 1], n)
    BY <2>1 DEF Rounds
  <2>3. D[p] \in Int /\ n <= n /\ Plies(n) = n /\ Plies(-n) = n
    BY <1>13, <2>1 DEF Plies
  <2>4. IsOpen(d[n - 1], p)
    <3>1. p \notin WonBy(D, n - 1) /\ p \notin LostBy(leaving, D, n - 1)
      BY <1>10, <2>1, <2>3 DEF WonBy, LostBy, Plies
    <3>2. QED
      BY <1>9, <2>1, <3>1 DEF IsOpen
  <2>5. \A x \in {n, -n} : D[p] = x <=> <<p, x>> \in d[n]
    <3>1. \A x \in {n, -n} : x # 0 /\ Plies(x) <= n
      BY <2>1, <2>3
    <3>2. \A x \in {n, -n} : <<p, x>> \in d[n] <=> <<p, x>> \in k
      BY <1>4, <2>1, <3>1
    <3>3. QED
      BY <1>3, <3>1, <3>2
  <2>6. RoundRight(leaving, n - 1, d[n - 1])
    BY <2>1, RoundsRight
  <2>7. \A x \in d[n - 1] : x[1] # p
    BY <2>1, <2>4, <2>6, OpenPairs
  <2>8. <<p, n>> \in d[n] <=> Wins(leaving, p, LostIn(d[n - 1]), n)
    <3>1. <<p, n>> \notin d[n - 1] /\ n # -n
      BY <2>1, <2>7
    <3>2. QED
      BY <2>2, <2>4, <3>1, FurtherPairs
  <2>9. <<p, -n>> \in d[n] <=> Loses(leaving, p, WonIn(d[n - 1]), n)
    <3>1. <<p, -n>> \notin d[n - 1] /\ n # -n
      BY <2>1, <2>7
    <3>2. QED
      BY <2>2, <2>4, <3>1, FurtherPairs
  <2>10. QED
    BY <1>9, <2>1, <2>5, <2>8, <2>9
<1>11. Retrograde(leaving, D)
  BY <1>6, <1>7, <1>10 DEF Retrograde
<1>12. QED
  BY <1>11 DEF D, k

LEMMA AnalysisIsRetrograde == ASSUME NEW leaving, IsLeaving(leaving) PROVE Retrograde(leaving, Analysis(leaving))
BY AnalysisRounds, RoundsRetrograde

-----------------------------------------------------------------------------
(* Good play.                                                              *)

\* What good play makes of a game: a win is as short, a loss as long as can be.
LeastWin(leaving, d, p, x) ==
  /\ \A z \in leaving[p] : z.value > 0 => x <= Costs(z.value)
  /\ \A q \in quiet[p] : d[q] < 0 => x <= (IF MateAt(leaving, q) THEN 1 ELSE 1 - d[q])
SomeWin(leaving, d, p, x) ==
  \/ \E z \in leaving[p] : z.value > 0 /\ x = Costs(z.value)
  \/ \E q \in quiet[p] : d[q] < 0 /\ x = IF MateAt(leaving, q) THEN 1 ELSE 1 - d[q]
AllLost(leaving, d, p) ==
  /\ NoMoves(leaving, p) => check[p]
  /\ \A z \in leaving[p] : z.value < 0
  /\ \A q \in quiet[p] : d[q] > 0
MostLoss(leaving, d, p, x) ==
  /\ \A z \in leaving[p] : Costs(z.value) <= x
  /\ \A q \in quiet[p] : d[q] + 1 <= x
SomeLoss(leaving, d, p, x) ==
  \/ MateAt(leaving, p) /\ x = 1
  \/ \E z \in leaving[p] : x = Costs(z.value)
  \/ \E q \in quiet[p] : x = d[q] + 1
WellPlayed(leaving, d) ==
  /\ d \in [Positions -> -MaxDistance .. MaxDistance]
  /\ \A p \in Positions :
       /\ (\E z \in leaving[p] : z.value > 0) \/ (\E q \in quiet[p] : d[q] < 0) => d[p] > 0
       /\ d[p] > 0 => LeastWin(leaving, d, p, d[p]) /\ SomeWin(leaving, d, p, d[p])
       /\ AllLost(leaving, d, p) <=> d[p] < 0
       /\ d[p] < 0 => MostLoss(leaving, d, p, -d[p]) /\ SomeLoss(leaving, d, p, -d[p])

LEMMA CostFacts == \A v \in WDL : Costs(v) \in 1 .. Rule50 + 1 /\ (v \in {-2, 2} => Costs(v) = 1) /\ (v \in {-1, 0, 1} => Costs(v) = Rule50 + 1)
BY Bounds DEF WDL, Costs

LEMMA LeavingFacts ==
  ASSUME NEW leaving, IsLeaving(leaving), NEW p \in Positions, NEW z \in leaving[p]
  PROVE  z.value \in WDL /\ z.value \in Int /\ Costs(z.value) \in 1 .. Rule50 + 1
<1>1. z \in Zeroing
  BY DEF IsLeaving
<1>2. z.value \in WDL
  BY <1>1 DEF Zeroing
<1>3. QED
  BY <1>2, CostFacts DEF WDL

\* What Retrograde says of one position.
LEMMA RetrogradeOf ==
  ASSUME NEW leaving, IsLeaving(leaving), NEW d, Retrograde(leaving, d), NEW p \in Positions
  PROVE  /\ d[p] \in -MaxDistance .. MaxDistance /\ d[p] \in Int
         /\ MateAt(leaving, p) => d[p] = -1
         /\ \A n \in 1 .. MaxDistance : ~MateAt(leaving, p) /\ (d[p] = 0 \/ Plies(d[p]) >= n) =>
              /\ d[p] = n <=> Wins(leaving, p, LostBy(leaving, d, n - 1), n)
              /\ d[p] = -n <=> Loses(leaving, p, WonBy(d, n - 1), n)
<1>1. MaxDistance \in Nat
  BY Bounds
<1>2. d[p] \in -MaxDistance .. MaxDistance
  BY DEF Retrograde
<1>3. d[p] \in Int
  BY <1>1, <1>2
<1>4. QED
  BY <1>2, <1>3 DEF Retrograde

LEMMA LossFacts ==
  ASSUME NEW leaving, IsLeaving(leaving), quiet \in [Positions -> SUBSET Positions],
         NEW d, Retrograde(leaving, d), NEW p \in Positions, d[p] < 0
  PROVE  AllLost(leaving, d, p) /\ MostLoss(leaving, d, p, -d[p]) /\ SomeLoss(leaving, d, p, -d[p])
<1> DEFINE n == -d[p]
<1>0. MaxDistance \in Nat /\ d[p] \in Int /\ n \in Int /\ n >= 1 /\ d[p] \in -MaxDistance .. MaxDistance
  BY Bounds, RetrogradeOf
<1>10. n \in 1 .. MaxDistance /\ Plies(d[p]) = n /\ d[p] = -n
  BY <1>0 DEF Plies
<1> HIDE DEF n
<1>1. CASE MateAt(leaving, p)
  <2>1. quiet[p] = {} /\ leaving[p] = {} /\ check[p]
    BY <1>1 DEF MateAt, NoMoves
  <2>2. n = 1
    BY <1>0, <1>10, <1>1, RetrogradeOf
  <2>3. QED
    BY <1>1, <2>1, <2>2 DEF AllLost, MostLoss, SomeLoss, n
<1>2. CASE ~MateAt(leaving, p)
  <2>1. Loses(leaving, p, WonBy(d, n - 1), n)
    BY <1>0, <1>10, <1>2, RetrogradeOf
  <2>2. ~NoMoves(leaving, p) /\ quiet[p] \subseteq WonBy(d, n - 1) /\ \A z \in leaving[p] : z.value < 0 /\ Costs(z.value) <= n
    BY <2>1 DEF Loses
  <2>3. \A q \in quiet[p] : q \in Positions /\ 0 < d[q] /\ d[q] <= n - 1 /\ d[q] \in Int
    BY <2>2, RetrogradeOf DEF WonBy
  <2>4. AllLost(leaving, d, p)
    BY <2>2, <2>3 DEF AllLost
  <2>5. MostLoss(leaving, d, p, n)
    BY <1>0, <2>2, <2>3 DEF MostLoss
  <2>6. SomeLoss(leaving, d, p, n)
    <3>1. ASSUME \A z \in leaving[p] : n # Costs(z.value), \A q \in quiet[p] : n # d[q] + 1 PROVE FALSE
      <4>1. \A z \in leaving[p] : z.value < 0 /\ Costs(z.value) <= n - 1 /\ Costs(z.value) >= 1
        <5>1. \A z \in leaving[p] : Costs(z.value) \in 1 .. Rule50 + 1 /\ Rule50 \in Nat
          BY LeavingFacts, Bounds
        <5>2. QED
          BY <1>0, <2>2, <3>1, <5>1
      <4>2. \A q \in quiet[p] : q \in Positions /\ 0 < d[q] /\ d[q] <= n - 1 - 1
        BY <1>0, <2>3, <3>1
      <4>3. n # 1
        <5>1. ASSUME n = 1 PROVE FALSE
          <6>1. leaving[p] = {}
            <7>1. ASSUME NEW z \in leaving[p] PROVE FALSE
              <8>1. Costs(z.value) <= 0 /\ Costs(z.value) >= 1 /\ Costs(z.value) \in 1 .. Rule50 + 1 /\ Rule50 \in Nat
                BY <4>1, <5>1, LeavingFacts, Bounds
              <8>2. QED
                BY <8>1
            <7>2. QED
              BY <7>1
          <6>2. quiet[p] = {}
            BY <2>3, <4>2, <5>1
          <6>3. QED
            BY <2>2, <6>1, <6>2 DEF NoMoves
        <5>2. QED
          BY <5>1
      <4>4. n - 1 \in 1 .. MaxDistance /\ Plies(d[p]) >= n - 1
        BY <1>0, <1>10, <4>3
      <4>5. Loses(leaving, p, WonBy(d, n - 1 - 1), n - 1)
        BY <2>2, <4>1, <4>2 DEF Loses, WonBy
      <4>6. d[p] = -(n - 1)
        BY <1>2, <4>4, <4>5, RetrogradeOf
      <4>7. QED
        BY <1>0, <1>10, <4>6
    <3>2. QED
      BY <3>1 DEF SomeLoss
  <2>7. QED
    BY <2>4, <2>5, <2>6 DEF n
<1>3. QED
  BY <1>1, <1>2

\* No position with a move that wins is lost.
LEMMA WinnersNotLost ==
  ASSUME NEW leaving, IsLeaving(leaving), quiet \in [Positions -> SUBSET Positions],
         NEW d, Retrograde(leaving, d), NEW p \in Positions,
         (\E z \in leaving[p] : z.value > 0) \/ (\E q \in quiet[p] : d[q] < 0)
  PROVE  d[p] >= 0 /\ ~MateAt(leaving, p)
<1>1. d[p] \in Int /\ \A q \in quiet[p] : q \in Positions /\ d[q] \in Int
  BY RetrogradeOf
<1>2. ~AllLost(leaving, d, p)
  BY <1>1, LeavingFacts DEF AllLost
<1>3. QED
  BY <1>1, <1>2, LossFacts DEF MateAt, NoMoves

LEMMA WinFacts ==
  ASSUME NEW leaving, IsLeaving(leaving), quiet \in [Positions -> SUBSET Positions],
         NEW d, Retrograde(leaving, d), NEW p \in Positions, d[p] > 0
  PROVE  LeastWin(leaving, d, p, d[p]) /\ SomeWin(leaving, d, p, d[p])
<1>0. MaxDistance \in Nat /\ MaxDistance >= Rule50 + 1 /\ Rule50 \in Nat /\ d[p] \in Int /\ d[p] \in 1 .. MaxDistance /\ Plies(d[p]) = d[p]
  BY Bounds, RetrogradeOf DEF Plies
<1>1. ~MateAt(leaving, p)
  BY <1>0, RetrogradeOf
<1>2. ASSUME NEW c \in 1 .. MaxDistance, Wins(leaving, p, LostBy(leaving, d, c - 1), c) PROVE d[p] <= c
  <2>1. d[p] >= c => d[p] = c
    BY <1>0, <1>1, <1>2, RetrogradeOf
  <2>2. QED
    BY <1>0, <2>1
<1>3. ASSUME NEW z \in leaving[p], z.value > 0 PROVE d[p] <= Costs(z.value)
  <2>1. Costs(z.value) \in 1 .. Rule50 + 1
    BY LeavingFacts
  <2>2. Costs(z.value) \in 1 .. MaxDistance /\ Costs(z.value) <= Costs(z.value)
    BY <1>0, <2>1
  <2>3. Wins(leaving, p, LostBy(leaving, d, Costs(z.value) - 1), Costs(z.value))
    BY <1>3, <2>2 DEF Wins
  <2>4. QED
    BY <1>2, <2>2, <2>3
<1>4. ASSUME NEW q \in quiet[p], d[q] < 0 PROVE d[p] <= IF MateAt(leaving, q) THEN 1 ELSE 1 - d[q]
  <2> DEFINE c == IF MateAt(leaving, q) THEN 1 ELSE 1 - d[q]
  <2>1. q \in Positions /\ d[q] \in Int
    BY RetrogradeOf
  <2>2. c \in Int /\ c >= 1
    BY <1>4, <2>1
  <2>3. q \in LostBy(leaving, d, c - 1)
    BY <1>4, <2>1 DEF LostBy
  <2> HIDE DEF c
  <2>4. CASE c <= MaxDistance
    <3>1. Wins(leaving, p, LostBy(leaving, d, c - 1), c)
      BY <2>3 DEF Wins
    <3>2. c \in 1 .. MaxDistance
      BY <1>0, <2>2, <2>4
    <3>3. d[p] <= c
      BY <1>2, <3>1, <3>2
    <3>4. QED
      BY <3>3 DEF c
  <2>5. CASE c > MaxDistance
    <3>1. d[p] <= c
      BY <1>0, <2>2, <2>5
    <3>2. QED
      BY <3>1 DEF c
  <2>6. QED
    BY <1>0, <2>2, <2>4, <2>5
<1>5. LeastWin(leaving, d, p, d[p])
  BY <1>3, <1>4 DEF LeastWin
<1>6. Wins(leaving, p, LostBy(leaving, d, d[p] - 1), d[p])
  <2>1. d[p] \in 1 .. MaxDistance /\ Plies(d[p]) >= d[p] /\ d[p] = d[p]
    BY <1>0
  <2>2. QED
    BY <1>1, <2>1, RetrogradeOf
<1>7. CASE \E z \in leaving[p] : z.value > 0 /\ Costs(z.value) <= d[p]
  <2>1. PICK z \in leaving[p] : z.value > 0 /\ Costs(z.value) <= d[p]
    BY <1>7
  <2>2. d[p] <= Costs(z.value) /\ Costs(z.value) \in 1 .. Rule50 + 1
    BY <1>3, <2>1, LeavingFacts
  <2>3. d[p] = Costs(z.value)
    BY <1>0, <2>1, <2>2
  <2>4. QED
    BY <1>5, <2>1, <2>3 DEF SomeWin
<1>8. CASE quiet[p] \cap LostBy(leaving, d, d[p] - 1) # {}
  <2>1. PICK q \in quiet[p] : q \in LostBy(leaving, d, d[p] - 1)
    BY <1>8
  <2>2. q \in Positions /\ d[q] < 0 /\ (MateAt(leaving, q) \/ -d[q] <= d[p] - 1) /\ d[q] \in Int
    BY <2>1, RetrogradeOf DEF LostBy
  <2>3. d[p] <= IF MateAt(leaving, q) THEN 1 ELSE 1 - d[q]
    BY <1>4, <2>2
  <2>4. d[p] = IF MateAt(leaving, q) THEN 1 ELSE 1 - d[q]
    BY <1>0, <2>2, <2>3
  <2>5. QED
    BY <1>5, <2>2, <2>4 DEF SomeWin
<1>9. QED
  BY <1>6, <1>7, <1>8 DEF Wins

\* A position is left without a value only if some number of plies is no position's.
LEMMA GapExists ==
  ASSUME NEW d, d \in [Positions -> Int], NEW p \in Positions, d[p] = 0
  PROVE  \E m \in Rule50 + 2 .. MaxDistance : \A q \in Positions : Plies(d[q]) # m
<1> DEFINE N == Rule50 + 2 .. MaxDistance
           f == [m \in N |-> CHOOSE q \in Positions : Plies(d[q]) = m]
<1>1. ASSUME \A m \in N : \E q \in Positions : Plies(d[q]) = m PROVE FALSE
  <2>1. \A m \in N : f[m] \in Positions /\ Plies(d[f[m]]) = m
    BY <1>1
  <2>2. f \in [N -> Positions]
    BY <1>1
  <2> HIDE DEF f
  <2>3. f \in Injection(N, Positions)
    BY <2>1, <2>2 DEF Injection, IsInjective
  <2>4. Cardinality(N) = Cardinality(Positions)
    <3>1. Rule50 + 2 \in Int /\ MaxDistance \in Int
      BY Bounds
    <3>2. Cardinality(N) = IF Rule50 + 2 > MaxDistance THEN 0 ELSE MaxDistance - (Rule50 + 2) + 1
      BY <3>1, FS_Interval
    <3> HIDE DEF N
    <3>3. QED
      BY <3>2, Bounds
  <2>5. f \in Surjection(N, Positions)
    <3>1. IsFiniteSet(Positions)
      BY Bounds
    <3> HIDE DEF N
    <3>2. QED
      BY <2>3, <2>4, <3>1, FS_Injection
  <2>6. PICK m \in N : f[m] = p
    BY <2>5 DEF Surjection
  <2>7. Plies(d[p]) = m /\ Plies(d[p]) = 0 /\ m \in N
    BY <2>1, <2>6 DEF Plies
  <2>8. QED
    BY <2>7, Bounds
<1>2. QED
  BY <1>1

LEMMA NoneBeyondGap ==
  ASSUME NEW leaving, IsLeaving(leaving), NEW d, Retrograde(leaving, d),
         NEW m \in Rule50 + 2 .. MaxDistance, \A q \in Positions : Plies(d[q]) # m
  PROVE  \A q \in Positions : Plies(d[q]) < m
<1> DEFINE B == {n \in m .. MaxDistance : \E q \in Positions : Plies(d[q]) = n}
<1>0. /\ MaxDistance \in Nat /\ Rule50 \in Nat /\ Rule50 >= 2 /\ m \in Int /\ m >= Rule50 + 2 /\ m <= MaxDistance
      /\ \A q \in Positions : d[q] \in Int /\ d[q] \in -MaxDistance .. MaxDistance
      /\ \A q \in Positions : Plies(d[q]) \in 0 .. MaxDistance
  BY Bounds, RetrogradeOf DEF Plies
<1>1. B = {}
  <2>1. ASSUME B # {} PROVE FALSE
    <3>1. B \subseteq Nat
      BY <1>0
    <3>2. PICK n \in B : \A k \in B : n <= k
      <4> HIDE DEF B
      <4> QED BY <2>1, <3>1, LeastNumber
    <3>3. PICK q \in Positions : Plies(d[q]) = n
      OBVIOUS
    <3>4. n \in m .. MaxDistance /\ n # m
      BY <3>3
    <3>5. n \in Int /\ n > m /\ n \in 1 .. MaxDistance /\ m \in 1 .. MaxDistance /\ Plies(d[q]) >= n /\ Plies(d[q]) >= m
      BY <1>0, <3>3, <3>4
    <3>6. ~MateAt(leaving, q)
      <4>1. ASSUME MateAt(leaving, q) PROVE FALSE
        <5>1. d[q] = -1
          BY <4>1, RetrogradeOf
        <5>2. Plies(d[q]) <= 1
          <6>1. d[q] \in Int /\ d[q] < 0 /\ -d[q] <= 1
            BY <1>0, <5>1
          <6>2. QED
            BY <6>1 DEF Plies
        <5>3. QED
          BY <1>0, <3>5, <5>2
      <4>2. QED
        BY <4>1
    <3>7. ASSUME NEW r \in Positions PROVE ~ (Plies(d[r]) >= m /\ Plies(d[r]) <= n - 1)
      <4>1. ASSUME Plies(d[r]) >= m, Plies(d[r]) <= n - 1 PROVE FALSE
        <5>1. Plies(d[r]) \in m .. MaxDistance
          BY <1>0, <4>1
        <5>2. Plies(d[r]) \in B
          BY <5>1
        <5>3. n <= Plies(d[r])
          BY <3>2, <5>2
        <5>4. QED
          BY <1>0, <3>5, <4>1, <5>3
      <4>2. QED
        BY <4>1
    <3> HIDE DEF B
    <3>8. LostBy(leaving, d, n - 1) \subseteq LostBy(leaving, d, m - 1) /\ WonBy(d, n - 1) \subseteq WonBy(d, m - 1)
      <4>1. ASSUME NEW r \in Positions PROVE Plies(d[r]) <= n - 1 => Plies(d[r]) <= m - 1
        <5>1. Plies(d[r]) \in Int
          BY <1>0
        <5>2. QED
          BY <1>0, <3>5, <3>7, <5>1
      <4>2. \A r \in Positions : d[r] \in Int /\ (d[r] < 0 => Plies(d[r]) = -d[r]) /\ (0 < d[r] => Plies(d[r]) = d[r])
        BY <1>0 DEF Plies
      <4>3. QED
        BY <4>1, <4>2 DEF LostBy, WonBy
    <3>9. \A z \in leaving[q] : Costs(z.value) <= m /\ Costs(z.value) \in Int
      <4>1. \A z \in leaving[q] : Costs(z.value) \in 1 .. Rule50 + 1
        BY LeavingFacts
      <4>2. QED
        BY <1>0, <4>1
    <3>10. d[q] # n
      <4>1. ASSUME d[q] = n PROVE FALSE
        <5>1. Wins(leaving, q, LostBy(leaving, d, n - 1), n)
          BY <3>5, <3>6, <4>1, RetrogradeOf
        <5>2. Wins(leaving, q, LostBy(leaving, d, m - 1), m)
          BY <3>8, <3>9, <5>1 DEF Wins
        <5>3. d[q] = m
          BY <3>5, <3>6, <5>2, RetrogradeOf
        <5>4. QED
          BY <3>5, <4>1, <5>3
      <4>2. QED
        BY <4>1
    <3>11. d[q] # -n
      <4>1. ASSUME d[q] = -n PROVE FALSE
        <5>1. Loses(leaving, q, WonBy(d, n - 1), n)
          BY <3>5, <3>6, <4>1, RetrogradeOf
        <5>2. Loses(leaving, q, WonBy(d, m - 1), m)
          BY <3>8, <3>9, <5>1 DEF Loses
        <5>3. d[q] = -m
          BY <3>5, <3>6, <5>2, RetrogradeOf
        <5>4. QED
          BY <3>5, <4>1, <5>3
      <4>2. QED
        BY <4>1
    <3>12. QED
      BY <1>0, <3>3, <3>10, <3>11 DEF Plies
  <2>2. QED
    BY <2>1
<1>2. ASSUME NEW q \in Positions PROVE Plies(d[q]) < m
  <2>1. Plies(d[q]) \in Int /\ Plies(d[q]) <= MaxDistance
    BY <1>0
  <2>2. Plies(d[q]) >= m => Plies(d[q]) \in B
    BY <1>0, <2>1
  <2>3. QED
    BY <1>0, <1>1, <2>1, <2>2
<1>3. QED
  BY <1>2

\* A draw has no move that wins, and one that does not lose.
LEMMA DrawFacts ==
  ASSUME NEW leaving, IsLeaving(leaving), quiet \in [Positions -> SUBSET Positions],
         NEW d, Retrograde(leaving, d), NEW p \in Positions, d[p] = 0
  PROVE  /\ \A z \in leaving[p] : ~(z.value > 0)
         /\ \A q \in quiet[p] : ~(d[q] < 0)
         /\ ~AllLost(leaving, d, p)
<1>0. \A q \in Positions : d[q] \in Int
  BY RetrogradeOf
<1>1. d \in [Positions -> Int]
  <2>1. d = [q \in Positions |-> d[q]]
    BY DEF Retrograde
  <2>2. QED
    BY <1>0, <2>1
<1>2. PICK m \in Rule50 + 2 .. MaxDistance : \A q \in Positions : Plies(d[q]) # m
  BY <1>1, GapExists
<1>3. \A q \in Positions : Plies(d[q]) < m
  BY <1>2, NoneBeyondGap
<1>4. Rule50 \in Nat /\ m \in Int /\ m \in 1 .. MaxDistance /\ m > Rule50 + 1
  BY Bounds
<1>5. ~MateAt(leaving, p)
  BY RetrogradeOf
<1>6. ~Wins(leaving, p, LostBy(leaving, d, m - 1), m) /\ ~Loses(leaving, p, WonBy(d, m - 1), m)
  BY <1>4, <1>5, RetrogradeOf
<1>7. \A z \in leaving[p] : Costs(z.value) <= m
  <2>1. \A z \in leaving[p] : Costs(z.value) \in 1 .. Rule50 + 1
    BY LeavingFacts
  <2>2. QED
    BY <1>4, <2>1
<1>8. \A q \in Positions : /\ d[q] < 0 => q \in LostBy(leaving, d, m - 1)
                           /\ 0 < d[q] => q \in WonBy(d, m - 1)
  <2>1. ASSUME NEW q \in Positions PROVE /\ d[q] < 0 => -d[q] <= m - 1
                                         /\ 0 < d[q] => d[q] <= m - 1
    <3>1. Plies(d[q]) < m /\ d[q] \in Int
      BY <1>0, <1>3
    <3>2. QED
      BY <1>4, <3>1 DEF Plies
  <2>2. QED
    BY <2>1 DEF LostBy, WonBy
<1>9. \A q \in quiet[p] : q \in Positions
  OBVIOUS
<1>10. ~AllLost(leaving, d, p)
  <2>1. ASSUME AllLost(leaving, d, p) PROVE FALSE
    <3>1. ~NoMoves(leaving, p)
      BY <1>5, <2>1 DEF AllLost, MateAt
    <3>2. quiet[p] \subseteq WonBy(d, m - 1)
      BY <1>0, <1>8, <1>9, <2>1 DEF AllLost
    <3>3. QED
      BY <1>6, <1>7, <2>1, <3>1, <3>2 DEF AllLost, Loses
  <2>2. QED
    BY <2>1
<1>11. QED
  BY <1>6, <1>7, <1>8, <1>9, <1>10 DEF Wins

LEMMA RetrogradeIsWellPlayed ==
  ASSUME NEW leaving, IsLeaving(leaving), quiet \in [Positions -> SUBSET Positions], NEW d, Retrograde(leaving, d)
  PROVE  WellPlayed(leaving, d)
<1>1. d \in [Positions -> -MaxDistance .. MaxDistance]
  BY DEF Retrograde
<1>2. ASSUME NEW p \in Positions
      PROVE  /\ (\E z \in leaving[p] : z.value > 0) \/ (\E q \in quiet[p] : d[q] < 0) => d[p] > 0
             /\ d[p] > 0 => LeastWin(leaving, d, p, d[p]) /\ SomeWin(leaving, d, p, d[p])
             /\ AllLost(leaving, d, p) <=> d[p] < 0
             /\ d[p] < 0 => MostLoss(leaving, d, p, -d[p]) /\ SomeLoss(leaving, d, p, -d[p])
  <2>1. d[p] \in Int
    BY RetrogradeOf
  <2>2. (\E z \in leaving[p] : z.value > 0) \/ (\E q \in quiet[p] : d[q] < 0) => d[p] >= 0 /\ d[p] # 0
    BY DrawFacts, WinnersNotLost
  <2>3. AllLost(leaving, d, p) => ~(d[p] > 0)
    <3>1. ASSUME AllLost(leaving, d, p), d[p] > 0 PROVE FALSE
      <4>1. SomeWin(leaving, d, p, d[p])
        BY <3>1, WinFacts
      <4>2. \A q \in quiet[p] : q \in Positions /\ d[q] \in Int
        BY RetrogradeOf
      <4>3. \A z \in leaving[p] : z.value \in Int
        BY LeavingFacts
      <4>4. QED
        BY <3>1, <4>1, <4>2, <4>3 DEF AllLost, SomeWin
    <3>2. QED
      BY <3>1
  <2>4. QED
    BY <2>1, <2>2, <2>3, DrawFacts, WinFacts, LossFacts
<1>3. QED
  BY <1>1, <1>2 DEF WellPlayed

\* The positions of S and their moves are the same in two analyses.
SameMoves(S, a, b) == S \subseteq Positions /\ \A p \in S : a[p] = b[p] /\ quiet[p] \subseteq S
SameIn(S, d, e, k) == \A p \in S : (d[p] = k <=> e[p] = k) /\ (d[p] = -k <=> e[p] = -k)

LEMMA PliesFacts == \A x \in Int : /\ Plies(x) \in Nat /\ (x = Plies(x) \/ x = -Plies(x)) /\ (Plies(x) = 0 <=> x = 0)
                                   /\ (x < 0 => Plies(x) = -x) /\ (x >= 0 => Plies(x) = x)
BY DEF Plies

LEMMA NextSame ==
  ASSUME NEW a, NEW b, IsLeaving(a), IsLeaving(b), NEW d, NEW e, Retrograde(a, d), Retrograde(b, e),
         NEW S, SameMoves(S, a, b), NEW n \in 1 .. MaxDistance, \A k \in 1 .. n - 1 : SameIn(S, d, e, k),
         NEW p \in S
  PROVE  (d[p] = n => e[p] = n) /\ (d[p] = -n => e[p] = -n)
<1>0. /\ MaxDistance \in Nat /\ n \in Int /\ n >= 1 /\ n - 1 \in Int
      /\ \A q \in S : q \in Positions /\ d[q] \in Int /\ e[q] \in Int /\ (MateAt(a, q) <=> MateAt(b, q))
  BY Bounds, RetrogradeOf DEF SameMoves, MateAt, NoMoves
<1>1. CASE MateAt(a, p)
  <2>1. MateAt(b, p)
    BY <1>0, <1>1
  <2>2. d[p] = -1 /\ e[p] = -1
    BY <1>0, <1>1, <2>1, RetrogradeOf
  <2>3. QED
    BY <2>2
<1>2. CASE ~MateAt(a, p)
  <2>1. ~MateAt(b, p)
    BY <1>0, <1>2
  <2>2. ASSUME NEW q \in S, NEW k \in 1 .. n - 1 PROVE (d[q] = k <=> e[q] = k) /\ (d[q] = -k <=> e[q] = -k)
    BY DEF SameIn
  <2>3. ASSUME d[p] = n \/ d[p] = -n PROVE e[p] = 0 \/ Plies(e[p]) >= n
    <3>1. ASSUME e[p] # 0, Plies(e[p]) < n PROVE FALSE
      <4>1. Plies(e[p]) \in 1 .. n - 1
        BY <1>0, <3>1, PliesFacts
      <4>2. d[p] = Plies(e[p]) \/ d[p] = -Plies(e[p])
        BY <1>0, <2>2, <4>1, PliesFacts
      <4>3. QED
        BY <1>0, <2>3, <4>1, <4>2
    <3>2. Plies(e[p]) \in Int
      BY <1>0, PliesFacts
    <3>3. QED
      BY <1>0, <3>1, <3>2
  <2>4. ASSUME NEW q \in S
        PROVE  /\ q \in LostBy(a, d, n - 1) => q \in LostBy(b, e, n - 1)
               /\ q \in WonBy(d, n - 1) => q \in WonBy(e, n - 1)
    <3>0. q \in Positions /\ d[q] \in Int /\ e[q] \in Int /\ (MateAt(a, q) <=> MateAt(b, q))
      BY <1>0
    <3>1. CASE MateAt(a, q)
      <4>1. MateAt(b, q) /\ d[q] = -1 /\ e[q] = -1
        BY <3>0, <3>1, RetrogradeOf
      <4>2. QED
        BY <3>0, <4>1 DEF LostBy, WonBy
    <3>2. CASE ~MateAt(a, q) /\ d[q] < 0
      <4>1. ASSUME -d[q] <= n - 1 PROVE e[q] = d[q]
        <5>1. -d[q] \in 1 .. n - 1 /\ d[q] = -(-d[q])
          BY <1>0, <3>0, <3>2, <4>1
        <5>2. e[q] = -(-d[q])
          BY <2>2, <5>1
        <5>3. QED
          BY <5>1, <5>2
      <4>2. QED
        BY <3>0, <3>2, <4>1 DEF LostBy, WonBy
    <3>3. CASE ~MateAt(a, q) /\ d[q] >= 0
      <4>1. ASSUME 0 < d[q], d[q] <= n - 1 PROVE e[q] = d[q]
        <5>1. d[q] \in 1 .. n - 1
          BY <1>0, <3>0, <4>1
        <5>2. QED
          BY <2>2, <5>1
      <4>2. QED
        BY <3>0, <3>3, <4>1 DEF LostBy, WonBy
    <3>4. QED
      BY <3>0, <3>1, <3>2, <3>3
  <2>5. quiet[p] \subseteq S /\ a[p] = b[p]
    BY DEF SameMoves
  <2>6. ASSUME d[p] = n PROVE e[p] = n
    <3>1. Plies(d[p]) >= n
      BY <1>0, <2>6, PliesFacts
    <3>2. Wins(a, p, LostBy(a, d, n - 1), n)
      BY <1>0, <1>2, <2>6, <3>1, RetrogradeOf
    <3>3. Wins(b, p, LostBy(b, e, n - 1), n)
      BY <2>4, <2>5, <3>2 DEF Wins
    <3>4. QED
      BY <1>0, <2>1, <2>3, <2>6, <3>3, RetrogradeOf
  <2>7. ASSUME d[p] = -n PROVE e[p] = -n
    <3>1. Plies(d[p]) >= n
      BY <1>0, <2>7, PliesFacts
    <3>2. Loses(a, p, WonBy(d, n - 1), n)
      BY <1>0, <1>2, <2>7, <3>1, RetrogradeOf
    <3>3. Loses(b, p, WonBy(e, n - 1), n)
      BY <2>4, <2>5, <3>2 DEF Loses, NoMoves
    <3>4. QED
      BY <1>0, <2>1, <2>3, <2>7, <3>3, RetrogradeOf
  <2>8. QED
    BY <2>6, <2>7
<1>3. QED
  BY <1>1, <1>2

LEMMA AnalysesAgree ==
  ASSUME NEW a, NEW b, IsLeaving(a), IsLeaving(b), NEW d, NEW e, Retrograde(a, d), Retrograde(b, e),
         NEW S, SameMoves(S, a, b)
  PROVE  \A p \in S : d[p] = e[p]
<1> DEFINE T == {n \in 0 .. MaxDistance : \A k \in 1 .. n : SameIn(S, d, e, k)}
<1>0. 0 \in Int /\ MaxDistance \in Int /\ 0 <= MaxDistance /\ 0 \in 0 .. MaxDistance
  BY Bounds
<1>1. 0 \in T
  BY <1>0
<1>2. SameMoves(S, b, a)
  BY DEF SameMoves
<1>3. ASSUME NEW n \in 0 + 1 .. MaxDistance, n - 1 \in T PROVE n \in T
  <2>1. n \in 1 .. MaxDistance /\ n \in 0 .. MaxDistance
    BY <1>3
  <2>2. \A k \in 1 .. n - 1 : SameIn(S, d, e, k) /\ SameIn(S, e, d, k)
    BY <1>3 DEF SameIn
  <2>3. \A p \in S : (d[p] = n => e[p] = n) /\ (d[p] = -n => e[p] = -n)
    BY <2>1, <2>2, NextSame
  <2>4. \A p \in S : (e[p] = n => d[p] = n) /\ (e[p] = -n => d[p] = -n)
    BY <1>2, <2>1, <2>2, NextSame
  <2>5. SameIn(S, d, e, n)
    BY <2>3, <2>4 DEF SameIn
  <2>6. \A k \in 1 .. n : k = n \/ k \in 1 .. n - 1
    BY <2>1
  <2>7. QED
    BY <2>1, <2>2, <2>5, <2>6
<1> HIDE DEF T
<1>4. MaxDistance \in T
  <2>1. \A n \in 0 .. MaxDistance : n \in T
    BY <1>0, <1>1, <1>3, Ascends
  <2>2. QED
    BY <1>0, <2>1
<1>5. ASSUME NEW p \in S PROVE d[p] = e[p]
  <2>1. p \in Positions
    BY DEF SameMoves
  <2>2. d[p] \in Int /\ e[p] \in Int /\ d[p] \in -MaxDistance .. MaxDistance /\ e[p] \in -MaxDistance .. MaxDistance
    BY <2>1, RetrogradeOf
  <2>3. \A k \in 1 .. MaxDistance : (d[p] = k <=> e[p] = k) /\ (d[p] = -k <=> e[p] = -k)
    BY <1>4 DEF T, SameIn
  <2>4. \A x \in Int : x \in -MaxDistance .. MaxDistance /\ x # 0 => Plies(x) \in 1 .. MaxDistance
    BY <1>0 DEF Plies
  <2>5. d[p] # 0 => e[p] = d[p]
    BY <2>2, <2>3, <2>4, PliesFacts
  <2>6. e[p] # 0 => e[p] = d[p]
    BY <2>2, <2>3, <2>4, PliesFacts
  <2>7. QED
    BY <2>2, <2>5, <2>6
<1>6. QED
  BY <1>5

-----------------------------------------------------------------------------
(* The tables are right.                                                   *)

NoEp(p) == \A z \in zeroing[p] : z.kind # "ep"
OnlyEp(p) == quiet[p] = {} /\ zeroing[p] # {} /\ \A z \in zeroing[p] : z.kind = "ep"

\* The game is one of those considered.
GameRight ==
  /\ quiet \in [Positions -> SUBSET Positions] /\ zeroing \in [Positions -> SUBSET Zeroing]
  /\ \A p \in Positions : quiet[p] \subseteq (IF p \in Stored THEN Other ELSE Stored)
  /\ \A p, q \in Positions : q \in quiet[p] => NoEp(q)
  /\ \A p \in Positions : check[p] => NoMoves(zeroing, p)

\* What the WDL table may say of a position.
TableRight ==
  \A p \in Positions :
    LET value == ValueOf(distances[p]) IN
    /\ wdlTable[p] \in WDL
    /\ \/ wdlTable[p] <= value \/ OnlyEp(p)
       \/ \E z \in zeroing[p] : z.kind # "pawn" /\ z.value = 2
    /\ \/ wdlTable[p] = value \/ OnlyEp(p)
       \/ \E z \in zeroing[p] : z.kind # "pawn" /\ z.value >= value
EdgeInPlies == \A p \in Positions : NoEp(p) /\ distances[p] \in {Rule50, -Rule50} => inPlies

\* The entries of the DTZ table are true where en passant is out of the question.
DistancesRight == \A p \in Positions : NoEp(p) => dtzTable[p] = distances[p]

\* Longer distances have no tables.
Supported == \A p \in Positions : distances[p] \in -Longest .. Longest

TablesAreRight == WellPlayed(zeroing, distances) /\ TableRight /\ EdgeInPlies /\ DistancesRight /\ Supported

LEMMA MaxOf ==
  ASSUME NEW S, S \subseteq Int, S # {}, NEW B \in Int, \A x \in S : x <= B
  PROVE  Max(S) \in S /\ Max(S) \in Int /\ \A x \in S : x <= Max(S)
<1> DEFINE T == {n \in Nat : B - n \in S}
<1>1. T # {}
  <2>1. PICK x \in S : TRUE
    OBVIOUS
  <2>2. x \in Int /\ x <= B
    BY <2>1
  <2>3. B - x \in Nat /\ B - (B - x) = x
    BY <2>2
  <2>4. B - x \in T
    BY <2>1, <2>3
  <2>5. QED
    BY <2>4
<1>2. PICK n \in T : \A m \in T : n <= m
  <2>1. T \subseteq Nat
    OBVIOUS
  <2> HIDE DEF T
  <2>2. QED
    BY <1>1, <2>1, LeastNumber
<1>3. n \in Nat /\ B - n \in S
  OBVIOUS
<1>4. ASSUME NEW x \in S PROVE B - n >= x
  <2>1. x \in Int /\ x <= B
    OBVIOUS
  <2>2. B - x \in Nat /\ B - (B - x) = x
    BY <2>1
  <2>3. B - x \in T
    BY <2>2
  <2>4. n <= B - x
    BY <1>2, <2>3
  <2>5. QED
    BY <1>3, <2>1, <2>2, <2>4
<1> HIDE DEF T
<1>5. \E x \in S : \A y \in S : x >= y
  BY <1>3, <1>4
<1>6. Max(S) \in S /\ \A y \in S : Max(S) >= y
  BY <1>5, Zenon DEF Max
<1>7. QED
  BY <1>6

LEMMA MinOf ==
  ASSUME NEW S, S \subseteq Int, S # {}, NEW B \in Int, \A x \in S : B <= x
  PROVE  Min(S) \in S /\ Min(S) \in Int /\ \A x \in S : Min(S) <= x
<1> DEFINE T == {n \in Nat : B + n \in S}
<1>1. T # {}
  <2>1. PICK x \in S : TRUE
    OBVIOUS
  <2>2. x \in Int /\ B <= x
    BY <2>1
  <2>3. x - B \in Nat /\ B + (x - B) = x
    BY <2>2
  <2>4. x - B \in T
    BY <2>1, <2>3
  <2>5. QED
    BY <2>4
<1>2. PICK n \in T : \A m \in T : n <= m
  <2>1. T \subseteq Nat
    OBVIOUS
  <2> HIDE DEF T
  <2>2. QED
    BY <1>1, <2>1, LeastNumber
<1>3. n \in Nat /\ B + n \in S
  OBVIOUS
<1>4. ASSUME NEW x \in S PROVE B + n <= x
  <2>1. x \in Int /\ B <= x
    OBVIOUS
  <2>2. x - B \in Nat /\ B + (x - B) = x
    BY <2>1
  <2>3. x - B \in T
    BY <2>2
  <2>4. n <= x - B
    BY <1>2, <2>3
  <2>5. QED
    BY <1>3, <2>1, <2>2, <2>4
<1> HIDE DEF T
<1>5. \E x \in S : \A y \in S : x <= y
  BY <1>3, <1>4
<1>6. Min(S) \in S /\ \A y \in S : Min(S) <= y
  BY <1>5, Zenon DEF Min
<1>7. QED
  BY <1>6

LEMMA ValueFacts ==
  \A x \in Int : /\ ValueOf(x) \in WDL /\ ValueOf(x) \in Int
                 /\ ValueOf(x) = 2 <=> 0 < x /\ x <= Rule50
                 /\ ValueOf(x) = 1 <=> Rule50 < x
                 /\ ValueOf(x) = 0 <=> x = 0
                 /\ ValueOf(x) = -1 <=> x < -Rule50
                 /\ ValueOf(x) = -2 <=> -Rule50 <= x /\ x < 0
BY Bounds DEF ValueOf, sign_of, WDL

LEMMA CostValues ==
  \A v \in WDL, x \in Int : /\ v > 0 /\ x = Costs(v) => ValueOf(x) = v
                            /\ v < 0 /\ -x = Costs(v) => ValueOf(x) = v
                            /\ v > 0 /\ 0 < x /\ x <= Costs(v) => v <= ValueOf(x)
                            /\ v < 0 /\ x < 0 /\ Costs(v) <= -x => v <= ValueOf(x)
<1>1. Rule50 \in Int /\ Rule50 >= 2
  BY Bounds
<1>2. QED
  BY <1>1 DEF ValueOf, sign_of, WDL, Costs

LEMMA ValuesDescend ==
  \A x, y \in Int : /\ 0 < x /\ x <= y => ValueOf(y) <= ValueOf(x)
                    /\ y <= x /\ x < 0 => ValueOf(x) <= ValueOf(y)
                    /\ x <= 0 /\ 0 <= y => ValueOf(x) <= ValueOf(y)
                    /\ x < 0 /\ 0 <= y => ValueOf(x) < ValueOf(y)
<1>1. Rule50 \in Int /\ Rule50 >= 2
  BY Bounds
<1>2. QED
  BY <1>1 DEF ValueOf, sign_of

Playable(leaving, d) == IsLeaving(leaving) /\ quiet \in [Positions -> SUBSET Positions] /\ WellPlayed(leaving, d)

\* WellPlayed, of one position.
LEMMA WellPlayedOf ==
  ASSUME NEW leaving, NEW d, Playable(leaving, d), NEW p \in Positions
  PROVE  /\ d[p] \in Int /\ d[p] \in -MaxDistance .. MaxDistance
         /\ \A q \in quiet[p] : q \in Positions /\ d[q] \in Int
         /\ \A z \in leaving[p] : z.value \in WDL /\ z.value \in Int /\ Costs(z.value) \in Int
         /\ (\E z \in leaving[p] : z.value > 0) \/ (\E q \in quiet[p] : d[q] < 0) => d[p] > 0
         /\ d[p] > 0 => LeastWin(leaving, d, p, d[p]) /\ SomeWin(leaving, d, p, d[p])
         /\ AllLost(leaving, d, p) <=> d[p] < 0
         /\ d[p] < 0 => MostLoss(leaving, d, p, -d[p]) /\ SomeLoss(leaving, d, p, -d[p])
<1>1. MaxDistance \in Nat /\ Rule50 \in Nat
  BY Bounds
<1>2. \A x \in -MaxDistance .. MaxDistance : x \in Int
  BY <1>1
<1>3. \A q \in Positions : d[q] \in -MaxDistance .. MaxDistance
  BY DEF Playable, WellPlayed
<1>4. \A q \in quiet[p] : q \in Positions
  BY DEF Playable
<1>5. \A z \in leaving[p] : z.value \in WDL /\ z.value \in Int /\ Costs(z.value) \in Int
  <2>1. IsLeaving(leaving)
    BY DEF Playable
  <2>2. \A z \in leaving[p] : z.value \in WDL /\ z.value \in Int /\ Costs(z.value) \in 1 .. Rule50 + 1
    BY <2>1, LeavingFacts
  <2>3. QED
    BY <1>1, <2>2
<1>6. QED
  BY <1>2, <1>3, <1>4, <1>5 DEF Playable, WellPlayed

\* No zeroing move is better than the position.
LEMMA ZeroingBounded ==
  ASSUME NEW leaving, NEW d, Playable(leaving, d), NEW p \in Positions, NEW z \in leaving[p]
  PROVE  z.value <= ValueOf(d[p])
<1>1. d[p] \in Int /\ z.value \in WDL /\ z.value \in Int /\ ValueOf(d[p]) \in WDL
  BY WellPlayedOf, ValueFacts
<1>2. CASE z.value > 0
  <2>1. d[p] > 0 /\ d[p] <= Costs(z.value)
    BY <1>2, WellPlayedOf DEF LeastWin
  <2>2. QED
    BY <1>1, <1>2, <2>1, CostValues
<1>3. CASE z.value = 0
  <2>1. ~(d[p] < 0)
    BY <1>3, WellPlayedOf DEF AllLost
  <2>2. QED
    BY <1>1, <1>3, <2>1, ValuesDescend, ValueFacts
<1>4. CASE z.value < 0 /\ d[p] < 0
  <2>1. Costs(z.value) <= -d[p]
    BY <1>4, WellPlayedOf DEF MostLoss
  <2>2. QED
    BY <1>1, <1>4, <2>1, CostValues
<1>5. CASE z.value < 0 /\ ~(d[p] < 0)
  <2>1. ValueOf(d[p]) >= 0
    <3>1. ValueOf(0) = 0 /\ ValueOf(0) <= ValueOf(d[p])
      BY <1>1, <1>5, ValuesDescend, ValueFacts
    <3>2. QED
      BY <1>1, <3>1 DEF WDL
  <2>2. QED
    BY <1>1, <1>5, <2>1 DEF WDL
<1>6. QED
  BY <1>1, <1>2, <1>3, <1>4, <1>5

\* Where every move zeroes, the best of them is the value of the position.
LEMMA OnlyZeroing ==
  ASSUME NEW leaving, NEW d, Playable(leaving, d), NEW p \in Positions, quiet[p] = {}, leaving[p] # {}
  PROVE  \E z \in leaving[p] : z.value = ValueOf(d[p])
<1>1. d[p] \in Int /\ \A z \in leaving[p] : z.value \in WDL /\ z.value \in Int
  BY WellPlayedOf
<1>2. ~NoMoves(leaving, p) /\ ~MateAt(leaving, p)
  BY DEF MateAt, NoMoves
<1>3. CASE d[p] > 0
  <2>1. PICK z \in leaving[p] : z.value > 0 /\ d[p] = Costs(z.value)
    BY <1>3, WellPlayedOf DEF SomeWin
  <2>2. QED
    BY <1>1, <2>1, CostValues
<1>4. CASE d[p] = 0
  <2>1. ~AllLost(leaving, d, p) /\ \A z \in leaving[p] : ~(z.value > 0)
    BY <1>4, WellPlayedOf
  <2>2. PICK z \in leaving[p] : ~(z.value < 0)
    BY <1>2, <2>1 DEF AllLost
  <2>3. z.value = 0
    BY <1>1, <2>1, <2>2
  <2>4. QED
    BY <1>1, <1>4, <2>3, ValueFacts
<1>5. CASE d[p] < 0
  <2>1. AllLost(leaving, d, p) /\ SomeLoss(leaving, d, p, -d[p])
    BY <1>5, WellPlayedOf
  <2>2. PICK z \in leaving[p] : -d[p] = Costs(z.value)
    BY <1>2, <2>1 DEF SomeLoss
  <2>3. z.value < 0
    BY <2>1 DEF AllLost
  <2>4. QED
    BY <1>1, <2>2, <2>3, CostValues
<1>6. QED
  BY <1>1, <1>3, <1>4, <1>5

\* What en passant captures, which the generator does not know, can change.
LEMMA WithEnPassant ==
  ASSUME NEW a, NEW b, NEW d, NEW e, Playable(a, d), Playable(b, e), NEW p \in Positions, NEW Ep,
         \A z : z \in b[p] <=> z \in a[p] /\ z \notin Ep,
         \A q \in quiet[p] : d[q] = e[q] /\ (MateAt(a, q) <=> MateAt(b, q)),
         NoMoves(b, p) => NoMoves(a, p)
  PROVE  /\ ValueOf(e[p]) <= ValueOf(d[p])
         /\ ValueOf(d[p]) = ValueOf(e[p]) \/ \E z \in a[p] : z \in Ep /\ z.value = ValueOf(d[p])
<1> DEFINE x == d[p]  y == e[p]
           same == ValueOf(x) = ValueOf(y)
           byEp == \E z \in a[p] : z \in Ep /\ z.value = ValueOf(x)
           less == ValueOf(y) <= ValueOf(x)
<1>1. x \in Int /\ y \in Int /\ ValueOf(x) \in Int /\ ValueOf(y) \in Int
  BY WellPlayedOf, ValueFacts
<1>2. /\ \A z \in a[p] : z.value \in WDL /\ z.value \in Int /\ Costs(z.value) \in Int
      /\ \A q \in quiet[p] : q \in Positions /\ d[q] \in Int
  BY WellPlayedOf
<1>3. /\ (\E z \in a[p] : z.value > 0) \/ (\E q \in quiet[p] : d[q] < 0) => x > 0
      /\ x > 0 => LeastWin(a, d, p, x) /\ SomeWin(a, d, p, x)
      /\ AllLost(a, d, p) <=> x < 0
      /\ x < 0 => MostLoss(a, d, p, -x) /\ SomeLoss(a, d, p, -x)
  BY WellPlayedOf
<1>4. /\ (\E z \in b[p] : z.value > 0) \/ (\E q \in quiet[p] : e[q] < 0) => y > 0
      /\ y > 0 => LeastWin(b, e, p, y) /\ SomeWin(b, e, p, y)
      /\ AllLost(b, e, p) <=> y < 0
      /\ y < 0 => MostLoss(b, e, p, -y) /\ SomeLoss(b, e, p, -y)
  BY WellPlayedOf
<1> HIDE DEF x, y
<1>5. ASSUME y > 0 PROVE x > 0 /\ x <= y
  <2>1. SomeWin(b, e, p, y)
    BY <1>4, <1>5
  <2>2. x > 0
    BY <1>3, <2>1 DEF SomeWin
  <2>3. LeastWin(a, d, p, x)
    BY <1>3, <2>2
  <2>4. x <= y
    BY <2>1, <2>3 DEF LeastWin, SomeWin
  <2>5. QED
    BY <2>2, <2>4
<1>6. CASE x > 0
  <2>1. less
    BY <1>1, <1>5, <1>6, ValuesDescend
  <2>2. CASE \E z \in a[p] : z \in Ep /\ z.value > 0 /\ x = Costs(z.value)
    <3>1. PICK z \in a[p] : z \in Ep /\ z.value > 0 /\ x = Costs(z.value)
      BY <2>2
    <3>2. z.value = ValueOf(x)
      BY <1>1, <1>2, <3>1, CostValues
    <3>3. byEp
      BY <3>1, <3>2
    <3>4. QED
      BY <2>1, <3>3 DEF x, y
  <2>3. CASE ~ \E z \in a[p] : z \in Ep /\ z.value > 0 /\ x = Costs(z.value)
    <3>1. SomeWin(a, d, p, x)
      BY <1>3, <1>6
    <3>2. SomeWin(b, e, p, x)
      BY <2>3, <3>1 DEF SomeWin
    <3>3. y > 0
      BY <1>4, <3>2 DEF SomeWin
    <3>4. LeastWin(b, e, p, y)
      BY <1>4, <3>3
    <3>5. y <= x
      BY <3>2, <3>4 DEF LeastWin, SomeWin
    <3>6. y = x
      BY <1>1, <1>5, <3>3, <3>5
    <3>7. QED
      BY <2>1, <3>6 DEF x, y
  <2>4. QED
    BY <2>2, <2>3
<1>7. CASE x = 0
  <2>1. ~(y > 0)
    BY <1>1, <1>5, <1>7
  <2>2. less /\ ValueOf(x) = 0
    BY <1>1, <1>7, <2>1, ValuesDescend, ValueFacts
  <2>3. CASE y = 0
    BY <1>7, <2>2, <2>3 DEF x, y
  <2>4. CASE y < 0
    <3>1. AllLost(b, e, p) /\ ~AllLost(a, d, p)
      BY <1>1, <1>3, <1>4, <1>7, <2>4
    <3>2. \E z \in a[p] : ~(z.value < 0)
      <4>1. \A q \in quiet[p] : d[q] > 0
        BY <3>1 DEF AllLost
      <4>2. NoMoves(a, p) => check[p]
        BY <3>1 DEF AllLost, NoMoves
      <4>3. QED
        BY <3>1, <4>1, <4>2 DEF AllLost
    <3>3. PICK z \in a[p] : ~(z.value < 0)
      BY <3>2
    <3>4. z.value = 0
      BY <1>1, <1>2, <1>3, <1>7, <3>3
    <3>5. z \in Ep
      BY <3>1, <3>3 DEF AllLost
    <3>6. byEp
      BY <2>2, <3>4, <3>5
    <3>7. QED
      BY <2>2, <3>6 DEF x, y
  <2>5. QED
    BY <1>1, <2>1, <2>3, <2>4
<1>8. CASE x < 0
  <2>1. AllLost(a, d, p) /\ MostLoss(a, d, p, -x) /\ SomeLoss(a, d, p, -x)
    BY <1>3, <1>8
  <2>2. AllLost(b, e, p)
    BY <2>1 DEF AllLost
  <2>3. y < 0 /\ SomeLoss(b, e, p, -y) /\ MostLoss(b, e, p, -y)
    BY <1>4, <2>2
  <2>4. MateAt(a, p) <=> MateAt(b, p)
    BY DEF MateAt, NoMoves
  <2>5. CASE MateAt(b, p)
    <3>1. a[p] = {} /\ quiet[p] = {} /\ b[p] = {}
      BY <2>4, <2>5 DEF MateAt, NoMoves
    <3>2. -x = 1 /\ -y = 1
      BY <2>1, <2>3, <3>1 DEF SomeLoss
    <3>3. x = y
      BY <1>1, <3>2
    <3>4. QED
      BY <1>1, <3>3 DEF x, y
  <2>6. CASE ~MateAt(b, p)
    <3>1. -y <= -x
      BY <2>1, <2>3, <2>6 DEF MostLoss, SomeLoss
    <3>2. less
      <4>1. x <= y /\ y < 0
        BY <1>1, <2>3, <3>1
      <4>2. QED
        BY <1>1, <4>1, ValuesDescend
    <3>3. CASE \E z \in a[p] : z \in Ep /\ -x = Costs(z.value)
      <4>1. PICK z \in a[p] : z \in Ep /\ -x = Costs(z.value)
        BY <3>3
      <4>2. z.value < 0
        BY <2>1 DEF AllLost
      <4>3. z.value = ValueOf(x)
        BY <1>1, <1>2, <4>1, <4>2, CostValues
      <4>4. byEp
        BY <4>1, <4>3
      <4>5. QED
        BY <3>2, <4>4 DEF x, y
    <3>4. CASE ~ \E z \in a[p] : z \in Ep /\ -x = Costs(z.value)
      <4>1. SomeLoss(b, e, p, -x)
        BY <2>1, <2>4, <3>4 DEF SomeLoss
      <4>2. -x <= -y
        BY <2>3, <2>6, <4>1 DEF MostLoss, SomeLoss
      <4>3. x = y
        BY <1>1, <3>1, <4>2
      <4>4. QED
        BY <3>2, <4>3 DEF x, y
    <3>5. QED
      BY <3>3, <3>4
  <2>7. QED
    BY <2>5, <2>6
<1>9. QED
  BY <1>1, <1>6, <1>7, <1>8

\* What the table may say of a position, from what may be stored.
LEMMA StorableIsRight ==
  ASSUME NEW p \in Positions, zeroing \in [Positions -> SUBSET Zeroing], NEW v \in WDL, NEW t \in WDL,
         NEW w, w \in Storable(p, t) \cup {t},
         \A z \in zeroing[p] : z.value <= v,
         \/ OnlyEp(p)
         \/ t <= v /\ (v = t \/ \E z \in zeroing[p] : z.kind = "ep" /\ z.value = v)
  PROVE  /\ w \in WDL
         /\ w <= v \/ OnlyEp(p) \/ \E z \in zeroing[p] : z.kind # "pawn" /\ z.value = 2
         /\ w = v \/ OnlyEp(p) \/ \E z \in zeroing[p] : z.kind # "pawn" /\ z.value >= v
<1> DEFINE S == {-3} \cup Captures(p)
           best == Max(S)
<1>1. \A z \in zeroing[p] : z.value \in WDL
  BY DEF Zeroing
<1>2. S \subseteq Int /\ S # {} /\ (\A x \in S : x <= 2) /\ 2 \in Int
  BY <1>1 DEF Captures, WDL
<1>3. best \in S /\ best \in Int
  <2> HIDE DEF S
  <2> QED BY <1>2, MaxOf
<1>4. best = -3 \/ \E z \in zeroing[p] : z.kind = "capture" /\ z.value = best
  <2> HIDE DEF best
  <2> QED BY <1>3 DEF Captures
<1>5. Storable(p, t) = CASE best = 2 -> WDL [] best >= t /\ best # 2 -> {x \in WDL : x <= best} [] OTHER -> {t}
  BY DEF Storable
<1> HIDE DEF best, S
<1>6. t \in Int /\ v \in Int /\ v <= 2 /\ t >= -2
  BY DEF WDL
<1>7. CASE best = 2
  <2>1. PICK z \in zeroing[p] : z.kind = "capture" /\ z.value = 2
    BY <1>4, <1>7
  <2>2. z.kind # "pawn" /\ z.value >= v
    BY <1>6, <2>1
  <2>3. w \in WDL
    BY <1>5, <1>7
  <2>4. QED
    BY <2>1, <2>2, <2>3
<1>8. CASE best # 2 /\ best >= t
  <2>1. w \in WDL /\ w <= best
    <3>1. w \in {x \in WDL : x <= best} \cup {t}
      BY <1>5, <1>8
    <3>2. QED
      BY <1>8, <3>1
  <2>2. PICK z \in zeroing[p] : z.kind = "capture" /\ z.value = best
    BY <1>3, <1>4, <1>6, <1>8
  <2>3. best <= v /\ z.kind # "pawn"
    BY <2>2
  <2>4. w <= v
    BY <1>3, <1>6, <2>1, <2>3 DEF WDL
  <2>5. CASE OnlyEp(p)
    BY <2>1, <2>5
  <2>6. CASE v = t
    <3>1. z.value >= v
      BY <1>8, <2>2, <2>6
    <3>2. QED
      BY <2>1, <2>3, <2>4, <3>1
  <2>7. CASE \E y \in zeroing[p] : y.kind = "ep" /\ y.value = v
    <3>1. PICK y \in zeroing[p] : y.kind = "ep" /\ y.value = v
      BY <2>7
    <3>2. y.kind # "pawn" /\ y.value >= v
      BY <1>6, <3>1
    <3>3. QED
      BY <2>1, <2>4, <3>2
  <2>8. QED
    BY <2>5, <2>6, <2>7
<1>9. CASE best # 2 /\ ~(best >= t)
  <2>1. w = t
    BY <1>5, <1>9
  <2>2. CASE OnlyEp(p)
    BY <2>1, <2>2
  <2>3. CASE t <= v /\ v = t
    BY <2>1, <2>3
  <2>4. CASE t <= v /\ \E y \in zeroing[p] : y.kind = "ep" /\ y.value = v
    <3>1. PICK y \in zeroing[p] : y.kind = "ep" /\ y.value = v
      BY <2>4
    <3>2. y.kind # "pawn" /\ y.value >= v
      BY <1>6, <3>1
    <3>3. QED
      BY <2>1, <2>4, <3>2
  <2>5. QED
    BY <2>2, <2>3, <2>4
<1>10. QED
  BY <1>7, <1>8, <1>9

\* The generator makes right tables, though it knows nothing of en passant.
LEMMA GenerateIsRight ==
  ASSUME GameRight, Generate
  PROVE  TablesAreRight'
<1> DEFINE a == zeroing  b == WithoutEp  d == Analysis(a)  e == Analysis(b)
           v(p) == ValueOf(d[p])  t(p) == ValueOf(e[p])
<1>1. /\ quiet \in [Positions -> SUBSET Positions] /\ zeroing \in [Positions -> SUBSET Zeroing]
      /\ \A p, q \in Positions : q \in quiet[p] => NoEp(q)
  BY DEF GameRight
<1>2. /\ distances' = d /\ UNCHANGED <<quiet, zeroing, check>>
      /\ \E filler \in WDL : wdlTable' = [p \in Positions |-> IF filler \in Storable(p, t(p)) THEN filler ELSE t(p)]
      /\ dtzTable' = e
      /\ inPlies' \in {f \in BOOLEAN : (\E p \in Positions : e[p] \in {Rule50, -Rule50}) => f}
  BY DEF Generate
<1>3. IsLeaving(a) /\ IsLeaving(b) /\ \A p \in Positions : b[p] = {z \in a[p] : z.kind # "ep"}
  BY <1>1 DEF IsLeaving, WithoutEp
<1>4. \A p \in Positions : b[p] \in SUBSET a[p] /\ (NoEp(p) => a[p] = b[p])
  BY <1>3 DEF NoEp
<1> HIDE DEF b, d, e
<1>5. Retrograde(a, d) /\ Retrograde(b, e) /\ Playable(a, d) /\ Playable(b, e)
  BY <1>1, <1>3, AnalysisIsRetrograde, RetrogradeIsWellPlayed DEF Playable, d, e
<1>6. \A p \in Positions : NoEp(p) => d[p] = e[p] /\ (MateAt(a, p) <=> MateAt(b, p))
  <2> DEFINE S == {p \in Positions : NoEp(p)}
  <2>1. SameMoves(S, a, b)
    <3>1. \A p \in S : quiet[p] \subseteq S
      BY <1>1
    <3>2. QED
      BY <1>4, <3>1 DEF SameMoves
  <2> HIDE DEF a
  <2>2. \A p \in S : d[p] = e[p]
    <3> HIDE DEF S
    <3> QED BY <1>3, <1>5, <2>1, AnalysesAgree
  <2>3. QED
    BY <1>4, <2>2 DEF MateAt, NoMoves
<1>7. \A p \in Positions : d[p] \in Int /\ e[p] \in Int /\ v(p) \in WDL /\ t(p) \in WDL
  <2>1. \A p \in Positions : d[p] \in Int /\ e[p] \in Int
    BY <1>5, WellPlayedOf
  <2>2. QED
    BY <2>1, ValueFacts
<1>8. ASSUME NEW p \in Positions, ~OnlyEp(p)
      PROVE  t(p) <= v(p) /\ (v(p) = t(p) \/ \E z \in a[p] : z.kind = "ep" /\ z.value = v(p))
  <2> DEFINE Ep == {z \in a[p] : z.kind = "ep"}
  <2>1. \A z : z \in b[p] <=> z \in a[p] /\ z \notin Ep
    BY <1>3
  <2>2. \A q \in quiet[p] : d[q] = e[q] /\ (MateAt(a, q) <=> MateAt(b, q))
    BY <1>1, <1>6
  <2>3. NoMoves(b, p) => NoMoves(a, p)
    BY <1>3, <1>8 DEF NoMoves, OnlyEp
  <2>5. \A z \in Ep : z.kind = "ep"
    OBVIOUS
  <2> HIDE DEF Ep, a
  <2>4. QED
    BY <1>5, <2>1, <2>2, <2>3, <2>5, WithEnPassant
<1>9. \A p \in Positions : \A z \in a[p] : z.value <= v(p)
  BY <1>5, ZeroingBounded
<1>10. \A p \in Positions :
         /\ wdlTable'[p] \in WDL
         /\ wdlTable'[p] <= v(p) \/ OnlyEp(p) \/ \E z \in zeroing[p] : z.kind # "pawn" /\ z.value = 2
         /\ wdlTable'[p] = v(p) \/ OnlyEp(p) \/ \E z \in zeroing[p] : z.kind # "pawn" /\ z.value >= v(p)
  <2>1. ASSUME NEW p \in Positions PROVE wdlTable'[p] \in Storable(p, t(p)) \cup {t(p)}
    BY <1>2
  <2>2. QED
    BY <1>1, <1>7, <1>8, <1>9, <2>1, StorableIsRight
<1>11. TableRight'
  <2>1. \A p \in Positions : OnlyEp(p)' = OnlyEp(p)
    BY <1>2 DEF OnlyEp
  <2>2. QED
    BY <1>2, <1>10, <2>1 DEF TableRight
<1>12. EdgeInPlies'
  <2>1. \A p \in Positions : NoEp(p)' = NoEp(p)
    BY <1>2 DEF NoEp
  <2>2. ASSUME NEW p \in Positions, NoEp(p), d[p] \in {Rule50, -Rule50} PROVE inPlies'
    BY <1>2, <1>6, <2>2
  <2>3. QED
    BY <1>2, <2>1, <2>2 DEF EdgeInPlies
<1>16. DistancesRight'
  <2>1. \A p \in Positions : NoEp(p)' = NoEp(p)
    BY <1>2 DEF NoEp
  <2>2. QED
    BY <1>2, <1>6, <2>1 DEF DistancesRight
<1>13. WellPlayed(zeroing, distances)'
  <2>1. WellPlayed(zeroing, d)
    BY <1>5 DEF Playable
  <2>2. QED
    BY <1>2, <2>1 DEF WellPlayed, LeastWin, SomeWin, AllLost, MostLoss, SomeLoss, MateAt, NoMoves
<1>14. Supported'
  BY DEF Generate, Supported
<1>15. QED
  BY <1>11, <1>12, <1>13, <1>14, <1>16 DEF TablesAreRight

-----------------------------------------------------------------------------
(* What search finds.                                                      *)

LEMMA ZeroingFinite == IsFiniteSet(Zeroing)
<1> DEFINE K == {"capture", "ep", "pawn"}
           f == [x \in K \X WDL |-> [kind |-> x[1], value |-> x[2]]]
<1>1. IsFiniteSet(K)
  <2>1. IsFiniteSet({"capture"})
    BY FS_Singleton
  <2>2. IsFiniteSet({"capture"} \cup {"ep"})
    BY <2>1, FS_AddElement
  <2>3. IsFiniteSet(({"capture"} \cup {"ep"}) \cup {"pawn"})
    BY <2>2, FS_AddElement
  <2>4. K = ({"capture"} \cup {"ep"}) \cup {"pawn"}
    OBVIOUS
  <2> HIDE DEF K
  <2>5. QED
    BY <2>3, <2>4
<1>2. IsFiniteSet(WDL)
  <2> DEFINE a == -2  b == 2
  <2>1. a \in Int /\ b \in Int /\ WDL = a .. b
    BY DEF WDL
  <2> HIDE DEF a, b
  <2>2. IsFiniteSet(a .. b)
    BY <2>1, FS_Interval
  <2>3. QED
    BY <2>1, <2>2
<1>3. IsFiniteSet(K \X WDL)
  <2> HIDE DEF K
  <2> QED BY <1>1, <1>2, FS_Product
<1>4. f \in Surjection(K \X WDL, Zeroing)
  <2>1. f \in [K \X WDL -> Zeroing]
    BY DEF Zeroing
  <2>2. ASSUME NEW z \in Zeroing PROVE \E x \in K \X WDL : f[x] = z
    <3>1. z.kind \in K /\ z.value \in WDL /\ z = [kind |-> z.kind, value |-> z.value]
      BY DEF Zeroing
    <3>2. <<z.kind, z.value>> \in K \X WDL /\ f[<<z.kind, z.value>>] = z
      BY <3>1
    <3>3. QED
      BY <3>2
  <2>3. QED
    BY <2>1, <2>2 DEF Surjection
<1> HIDE DEF f, K
<1>5. QED
  BY <1>3, <1>4, FS_Surjection

LEMMA LegalFacts ==
  ASSUME quiet \in [Positions -> SUBSET Positions], zeroing \in [Positions -> SUBSET Zeroing], NEW p \in Positions
  PROVE  /\ \A looked \in SUBSET zeroing[p] : Cardinality(looked) = Legal(p) <=> quiet[p] = {} /\ looked = zeroing[p]
         /\ Legal(p) = 0 <=> NoMoves(zeroing, p)
         /\ Mated(p) <=> MateAt(zeroing, p)
<1>1. IsFiniteSet(quiet[p]) /\ IsFiniteSet(zeroing[p])
  <2>1. quiet[p] \in SUBSET Positions /\ zeroing[p] \in SUBSET Zeroing
    OBVIOUS
  <2>2. QED
    BY <2>1, Bounds, ZeroingFinite, FS_Subset
<1>2. Cardinality(quiet[p]) \in Nat /\ Cardinality(zeroing[p]) \in Nat /\ (Cardinality(quiet[p]) = 0 <=> quiet[p] = {})
      /\ (Cardinality(zeroing[p]) = 0 <=> zeroing[p] = {})
  BY <1>1, FS_CardinalityType, FS_EmptySet
<1>3. ASSUME NEW looked \in SUBSET zeroing[p]
      PROVE  Cardinality(looked) = Legal(p) <=> quiet[p] = {} /\ looked = zeroing[p]
  <2>1. IsFiniteSet(looked) /\ Cardinality(looked) <= Cardinality(zeroing[p])
        /\ (Cardinality(zeroing[p]) = Cardinality(looked) => zeroing[p] = looked)
    BY <1>1, FS_Subset
  <2>2. Cardinality(looked) \in Nat
    BY <2>1, FS_CardinalityType
  <2>3. QED
    BY <1>2, <2>1, <2>2 DEF Legal
<1>4. Legal(p) = 0 <=> NoMoves(zeroing, p)
  BY <1>2 DEF Legal, NoMoves
<1>5. QED
  BY <1>3, <1>4 DEF Mated, MateAt

\* The locals of search.
Looked(p, checkZeroing) == {z \in zeroing[p] : checkZeroing \/ z.kind # "pawn"}
BestOf(p, checkZeroing) == Max({-2} \cup {z.value : z \in Looked(p, checkZeroing)})
NoMore(p, checkZeroing) == Looked(p, checkZeroing) # {} /\ quiet[p] = {} /\ Looked(p, checkZeroing) = zeroing[p]
Found(p, checkZeroing) == IF NoMore(p, checkZeroing) THEN BestOf(p, checkZeroing) ELSE wdlTable[p]

\* search, by what it looked at.
LEMMA SearchIs ==
  ASSUME quiet \in [Positions -> SUBSET Positions], zeroing \in [Positions -> SUBSET Zeroing], NEW p \in Positions, NEW c
  PROVE  Search(p, c) =
           CASE BestOf(p, c) >= 2 -> [value |-> BestOf(p, c), best |-> "zeroing"]
             [] BestOf(p, c) < 2 /\ BestOf(p, c) >= Found(p, c) ->
                  [value |-> BestOf(p, c), best |-> IF BestOf(p, c) > 0 \/ NoMore(p, c) THEN "zeroing" ELSE "ok"]
             [] OTHER -> [value |-> Found(p, c), best |-> "ok"]
<1>1. Looked(p, c) \in SUBSET zeroing[p]
  BY DEF Looked
<1>2. (Looked(p, c) # {} /\ Cardinality(Looked(p, c)) = Legal(p)) <=> NoMore(p, c)
  BY <1>1, LegalFacts DEF NoMore
<1>3. QED
  BY <1>2 DEF Search, Looked, BestOf, Found

TablesRight == GameRight /\ TablesAreRight

LEMMA BestFacts ==
  ASSUME TablesRight, NEW p \in Positions, NEW c \in BOOLEAN
  PROVE  /\ BestOf(p, c) \in WDL /\ BestOf(p, c) \in Int
         /\ \A z \in Looked(p, c) : z \in zeroing[p] /\ z.value \in WDL /\ z.value <= BestOf(p, c)
         /\ BestOf(p, c) = -2 \/ \E z \in Looked(p, c) : z.value = BestOf(p, c)
<1> DEFINE S == {-2} \cup {z.value : z \in Looked(p, c)}
<1>1. \A z \in Looked(p, c) : z \in zeroing[p] /\ z.value \in WDL
  BY DEF Looked, TablesRight, GameRight, Zeroing
<1>2. S \subseteq WDL /\ S # {}
  BY <1>1 DEF WDL
<1>3. BestOf(p, c) \in S /\ BestOf(p, c) \in Int /\ \A x \in S : x <= BestOf(p, c)
  <2>1. S \subseteq Int /\ 2 \in Int /\ \A x \in S : x <= 2
    <3> HIDE DEF S
    <3> QED BY <1>2 DEF WDL
  <2>2. Max(S) \in S /\ Max(S) \in Int /\ \A x \in S : x <= Max(S)
    <3> HIDE DEF S
    <3> QED BY <1>2, <2>1, MaxOf
  <2>3. BestOf(p, c) = Max(S)
    BY DEF BestOf
  <2> HIDE DEF S
  <2>4. QED
    BY <2>2, <2>3
<1>4. QED
  BY <1>1, <1>2, <1>3

LEMMA TableOf ==
  ASSUME TablesRight, NEW p \in Positions
  PROVE  /\ quiet \in [Positions -> SUBSET Positions] /\ zeroing \in [Positions -> SUBSET Zeroing]
         /\ Playable(zeroing, distances)
         /\ distances[p] \in Int /\ ValueOf(distances[p]) \in WDL /\ ValueOf(distances[p]) \in Int
         /\ \A z \in zeroing[p] : z.value <= ValueOf(distances[p]) /\ z.value \in WDL /\ z.value \in Int
         /\ wdlTable[p] \in WDL /\ wdlTable[p] \in Int
         /\ \/ wdlTable[p] <= ValueOf(distances[p]) \/ OnlyEp(p)
            \/ \E z \in zeroing[p] : z.kind # "pawn" /\ z.value = 2
         /\ \/ wdlTable[p] = ValueOf(distances[p]) \/ OnlyEp(p)
            \/ \E z \in zeroing[p] : z.kind # "pawn" /\ z.value >= ValueOf(distances[p])
<1>1. quiet \in [Positions -> SUBSET Positions] /\ zeroing \in [Positions -> SUBSET Zeroing] /\ Playable(zeroing, distances)
  BY DEF TablesRight, GameRight, TablesAreRight, Playable, IsLeaving
<1>2. distances[p] \in Int /\ \A z \in zeroing[p] : z.value <= ValueOf(distances[p]) /\ z.value \in WDL /\ z.value \in Int
  BY <1>1, WellPlayedOf, ZeroingBounded
<1>3. ValueOf(distances[p]) \in WDL /\ ValueOf(distances[p]) \in Int
  BY <1>2, ValueFacts
<1>4. TableRight
  BY DEF TablesRight, TablesAreRight
<1>5. wdlTable[p] \in WDL
  BY <1>4 DEF TableRight
<1>6. wdlTable[p] \in Int
  BY <1>5 DEF WDL
<1>7. QED
  BY <1>1, <1>2, <1>3, <1>4, <1>5, <1>6 DEF TableRight

\* search finds the value of a position, with the pawn moves looked at or not.
LEMMA SearchFinds ==
  ASSUME TablesRight, NEW p \in Positions, NEW c \in BOOLEAN
  PROVE  Search(p, c).value = ValueOf(distances[p])
<1> DEFINE v == ValueOf(distances[p])  best == BestOf(p, c)  found == Found(p, c)
<1>1. best \in Int /\ best <= 2 /\ best >= -2 /\ v \in Int /\ v <= 2 /\ v >= -2
  BY BestFacts, TableOf DEF WDL
<1>2. best <= v
  BY <1>1, BestFacts, TableOf
<1>3. CASE NoMore(p, c)
  <2>1. PICK z \in zeroing[p] : z.value = v
    BY <1>3, TableOf, OnlyZeroing DEF NoMore
  <2>2. z \in Looked(p, c)
    BY <1>3, <2>1 DEF NoMore
  <2>3. best = v
    BY <1>1, <1>2, <2>1, <2>2, BestFacts
  <2>4. found = best
    BY <1>3 DEF Found
  <2>5. Search(p, c).value = best
    <3>1. CASE best >= 2
      BY <3>1, SearchIs, TableOf
    <3>2. CASE best < 2 /\ best >= found
      BY <1>1, <3>2, SearchIs, TableOf
    <3>3. QED
      BY <1>1, <2>4, <3>1, <3>2
  <2>6. QED
    BY <2>3, <2>5
<1>4. CASE ~NoMore(p, c)
  <2>0. found = wdlTable[p] /\ found \in Int
    BY <1>4, TableOf DEF Found
  <2>1. ~OnlyEp(p)
    <3>1. ASSUME OnlyEp(p) PROVE FALSE
      <4>1. Looked(p, c) = zeroing[p]
        BY <3>1 DEF OnlyEp, Looked
      <4>2. QED
        BY <1>4, <3>1, <4>1 DEF OnlyEp, NoMore
    <3>2. QED
      BY <3>1
  <2>2. \A z \in zeroing[p] : z.kind # "pawn" => z \in Looked(p, c)
    BY DEF Looked
  <2>3. found = v \/ best >= v
    <3>1. CASE \E z \in zeroing[p] : z.kind # "pawn" /\ z.value >= v
      <4>1. PICK z \in zeroing[p] : z.kind # "pawn" /\ z.value >= v
        BY <3>1
      <4>2. z.value <= best /\ z.value \in Int
        BY <2>2, <4>1, BestFacts, TableOf
      <4>3. QED
        BY <1>1, <4>1, <4>2
    <3>2. QED
      BY <2>0, <2>1, <3>1, TableOf
  <2>4. CASE best >= 2
    <3>1. Search(p, c).value = best
      BY <2>4, SearchIs, TableOf
    <3>2. QED
      BY <1>1, <1>2, <2>4, <3>1
  <2>5. CASE best < 2
    <3>1. found <= v
      <4>1. ~ \E z \in zeroing[p] : z.kind # "pawn" /\ z.value = 2
        BY <1>1, <2>2, <2>5, BestFacts
      <4>2. QED
        BY <2>0, <2>1, <4>1, TableOf
    <3>2. CASE best >= found
      <4>1. Search(p, c).value = best
        BY <1>1, <2>5, <3>2, SearchIs, TableOf
      <4>2. best = v
        BY <1>1, <1>2, <2>0, <2>3, <3>1, <3>2
      <4>3. QED
        BY <4>1, <4>2
    <3>3. CASE ~(best >= found)
      <4>1. Search(p, c).value = found
        BY <1>1, <2>5, <3>3, SearchIs, TableOf
      <4>2. found = v
        BY <1>1, <2>0, <2>3, <3>1, <3>3
      <4>3. QED
        BY <4>1, <4>2
    <3>4. QED
      BY <3>2, <3>3
  <2>6. QED
    BY <1>1, <2>4, <2>5
<1>5. QED
  BY <1>3, <1>4

\* When search says that a zeroing move is best, one is.
LEMMA SearchKindsOf ==
  ASSUME TablesRight, NEW p \in Positions, NEW c \in BOOLEAN, Looked(p, c) = zeroing[p]
  PROVE  /\ Search(p, c).best \in {"zeroing", "ok"}
         /\ Search(p, c).best = "zeroing" =>
              \E z \in zeroing[p] : z.value = ValueOf(distances[p]) /\ (z.value > 0 \/ quiet[p] = {})
         /\ Search(p, c).best = "ok" /\ ValueOf(distances[p]) > 0 => \A z \in zeroing[p] : z.value < ValueOf(distances[p])
         /\ Search(p, c).best = "ok" => zeroing[p] = {} \/ quiet[p] # {}
<1> DEFINE v == ValueOf(distances[p])  best == BestOf(p, c)  found == Found(p, c)
<1>1. best \in Int /\ best <= 2 /\ best >= -2 /\ v \in Int /\ v <= 2 /\ v >= -2
  BY BestFacts, TableOf DEF WDL
<1>2. Looked(p, c) = zeroing[p]
  OBVIOUS
<1>3. Search(p, c).value = v
  BY SearchFinds
<1>4. found \in Int
  BY <1>1, TableOf DEF Found
<1>5. \A z \in zeroing[p] : z.value <= best /\ z.value \in Int
  BY <1>2, BestFacts, TableOf
<1>6. best > 0 => \E z \in zeroing[p] : z.value = best
  BY <1>1, <1>2, BestFacts
<1>7. NoMore(p, c) <=> zeroing[p] # {} /\ quiet[p] = {}
  BY <1>2 DEF NoMore
<1>8. NoMore(p, c) => found = best /\ \E z \in zeroing[p] : z.value = v
  BY <1>7, OnlyZeroing, TableOf DEF Found
<1>9. CASE best >= 2
  <2>1. Search(p, c) = [value |-> best, best |-> "zeroing"]
    BY <1>1, <1>9, SearchIs, TableOf
  <2>2. v = best /\ Search(p, c).best = "zeroing"
    BY <1>3, <2>1
  <2>3. QED
    BY <1>1, <1>6, <1>9, <2>2
<1>10. CASE best < 2 /\ best >= found
  <2>1. Search(p, c) = [value |-> best, best |-> IF best > 0 \/ NoMore(p, c) THEN "zeroing" ELSE "ok"]
    BY <1>1, <1>10, SearchIs, TableOf
  <2>2. v = best /\ Search(p, c).best = IF best > 0 \/ NoMore(p, c) THEN "zeroing" ELSE "ok"
    BY <1>3, <2>1
  <2>3. QED
    BY <1>1, <1>6, <1>7, <1>8, <2>2
<1>11. CASE best < 2 /\ ~(best >= found)
  <2>1. Search(p, c) = [value |-> found, best |-> "ok"]
    BY <1>1, <1>11, SearchIs, TableOf
  <2>2. v = found /\ Search(p, c).best = "ok"
    BY <1>3, <2>1
  <2>3. ~NoMore(p, c)
    BY <1>1, <1>8, <1>11
  <2>4. \A z \in zeroing[p] : z.value < v
    BY <1>1, <1>4, <1>5, <1>11, <2>2
  <2>5. QED
    BY <1>7, <2>2, <2>3, <2>4
<1>12. QED
  BY <1>1, <1>4, <1>9, <1>10, <1>11

LEMMA SearchKinds ==
  ASSUME TablesRight, NEW p \in Positions
  PROVE  /\ Search(p, TRUE).best \in {"zeroing", "ok"}
         /\ Search(p, TRUE).best = "zeroing" =>
              \E z \in zeroing[p] : z.value = ValueOf(distances[p]) /\ (z.value > 0 \/ quiet[p] = {})
         /\ Search(p, TRUE).best = "ok" /\ ValueOf(distances[p]) > 0 => \A z \in zeroing[p] : z.value < ValueOf(distances[p])
         /\ Search(p, TRUE).best = "ok" => zeroing[p] = {} \/ quiet[p] # {}
<1>1. Looked(p, TRUE) = zeroing[p]
  BY DEF Looked
<1>2. QED
  BY <1>1, SearchKindsOf, Zenon

-----------------------------------------------------------------------------
(* What probe_dtz finds.                                                   *)

\* Distances as the table of the stored side rounds them, and as they are shown.
OddOf(x) == 2 * ((x - 1) \div 2) + 1
StoredOf(x) == IF x > Rule50 THEN Rule50 + OddOf(x - Rule50) ELSE IF inPlies THEN x ELSE OddOf(x)
Shown(p, x) ==
  IF p \in Stored THEN StoredOf(x)
  ELSE IF x \in {1, Rule50 + 1} THEN x ELSE StoredOf(x - 1) + 1

LEMMA OddFacts ==
  \A x \in Int : OddOf(x) \in Int /\ (OddOf(x) = x \/ OddOf(x) = x - 1) /\ \E k \in Int : OddOf(x) = 2 * k + 1
<1>1. ASSUME NEW x \in Int PROVE (x - 1) \div 2 \in Int /\ (2 * ((x - 1) \div 2) = x - 1 \/ 2 * ((x - 1) \div 2) = x - 2)
  OBVIOUS
<1>2. QED
  BY <1>1 DEF OddOf

LEMMA OddAscends == \A x, y \in Int : x <= y => OddOf(x) <= OddOf(y)
BY OddFacts

LEMMA StoredFacts ==
  ASSUME NEW x \in Int, x >= 1
  PROVE  /\ StoredOf(x) \in Int /\ (StoredOf(x) = x \/ StoredOf(x) = x - 1) /\ StoredOf(x) >= 1
         /\ x <= Rule50 <=> StoredOf(x) <= Rule50
         /\ x \in {1, Rule50 + 1} => StoredOf(x) = x
         /\ inPlies /\ x <= Rule50 => StoredOf(x) = x
<1>1. Rule50 \in Int /\ Rule50 >= 2
  BY Bounds
<1>2. OddOf(x) \in Int /\ (OddOf(x) = x \/ OddOf(x) = x - 1) /\ \E k \in Int : OddOf(x) = 2 * k + 1
  BY OddFacts
<1>3. OddOf(x - Rule50) \in Int /\ (OddOf(x - Rule50) = x - Rule50 \/ OddOf(x - Rule50) = x - Rule50 - 1)
      /\ \E k \in Int : OddOf(x - Rule50) = 2 * k + 1
  <2>1. x - Rule50 \in Int
    BY <1>1
  <2>2. QED
    BY <2>1, OddFacts
<1>4. x > Rule50 => OddOf(x - Rule50) >= 1
  BY <1>1, <1>3
<1>5. x <= Rule50 => OddOf(x) >= 1
  BY <1>1, <1>2
<1>6. CASE x > Rule50
  <2>1. StoredOf(x) = Rule50 + OddOf(x - Rule50)
    BY <1>6 DEF StoredOf
  <2>2. QED
    BY <1>1, <1>3, <1>4, <1>6, <2>1
<1>7. CASE ~(x > Rule50)
  <2>1. StoredOf(x) = x \/ (~inPlies /\ StoredOf(x) = OddOf(x))
    BY <1>7 DEF StoredOf
  <2>2. inPlies => StoredOf(x) = x
    BY <1>7 DEF StoredOf
  <2>3. x = 1 => OddOf(x) = 1
    BY <1>2
  <2>4. QED
    BY <1>1, <1>2, <1>5, <1>7, <2>1, <2>2, <2>3
<1>8. QED
  BY <1>6, <1>7

LEMMA StoredAscends == \A x, y \in Int : 1 <= x /\ x <= y => StoredOf(x) <= StoredOf(y)
<1>1. Rule50 \in Int /\ Rule50 >= 2
  BY Bounds
<1>2. ASSUME NEW x \in Int, NEW y \in Int, 1 <= x, x <= y PROVE StoredOf(x) <= StoredOf(y)
  <2>1. y >= 1 /\ StoredOf(x) \in Int /\ StoredOf(y) \in Int /\ (x <= Rule50 <=> StoredOf(x) <= Rule50) /\ (y <= Rule50 <=> StoredOf(y) <= Rule50)
    BY <1>2, StoredFacts
  <2>2. CASE x > Rule50
    <3>1. y > Rule50 /\ x - Rule50 \in Int /\ y - Rule50 \in Int /\ x - Rule50 <= y - Rule50
      BY <1>1, <1>2, <2>2
    <3>2. StoredOf(x) = Rule50 + OddOf(x - Rule50) /\ StoredOf(y) = Rule50 + OddOf(y - Rule50)
      BY <2>2, <3>1 DEF StoredOf
    <3>3. OddOf(x - Rule50) <= OddOf(y - Rule50) /\ OddOf(x - Rule50) \in Int /\ OddOf(y - Rule50) \in Int
      BY <3>1, OddAscends, OddFacts
    <3>4. QED
      BY <1>1, <3>2, <3>3
  <2>3. CASE y <= Rule50
    <3>1. ~(x > Rule50) /\ ~(y > Rule50)
      BY <1>1, <1>2, <2>3
    <3>2. (StoredOf(x) = x /\ StoredOf(y) = y) \/ (StoredOf(x) = OddOf(x) /\ StoredOf(y) = OddOf(y))
      BY <3>1 DEF StoredOf
    <3>3. QED
      BY <1>2, <3>2, OddAscends
  <2>4. CASE x <= Rule50 /\ y > Rule50
    BY <1>1, <2>1, <2>4
  <2>5. QED
    BY <1>1, <1>2, <2>2, <2>3, <2>4
<1>3. QED
  BY <1>2

LEMMA ShownFacts ==
  ASSUME NEW p \in Positions, NEW x \in Int, x >= 1
  PROVE  /\ Shown(p, x) \in Int /\ (Shown(p, x) = x \/ Shown(p, x) = x - 1) /\ Shown(p, x) >= 1
         /\ x <= Rule50 <=> Shown(p, x) <= Rule50
         /\ x \in {1, Rule50 + 1} => Shown(p, x) = x
<1>1. Rule50 \in Int /\ Rule50 >= 2
  BY Bounds
<1>2. CASE p \in Stored
  BY <1>2, StoredFacts DEF Shown
<1>3. CASE p \notin Stored /\ x \in {1, Rule50 + 1}
  BY <1>1, <1>3 DEF Shown
<1>4. CASE p \notin Stored /\ x \notin {1, Rule50 + 1}
  <2>1. x - 1 \in Int /\ x - 1 >= 1
    BY <1>4
  <2>2. /\ StoredOf(x - 1) \in Int /\ (StoredOf(x - 1) = x - 1 \/ StoredOf(x - 1) = x - 1 - 1) /\ StoredOf(x - 1) >= 1
        /\ x - 1 <= Rule50 <=> StoredOf(x - 1) <= Rule50
    BY <2>1, StoredFacts
  <2>3. Shown(p, x) = StoredOf(x - 1) + 1
    BY <1>4 DEF Shown
  <2>4. QED
    BY <1>1, <1>4, <2>2, <2>3
<1>5. QED
  BY <1>2, <1>3, <1>4

LEMMA SignFacts == \A x \in Int : /\ sign_of(x) \in {-1, 0, 1} /\ (x > 0 <=> sign_of(x) = 1)
                                  /\ (x < 0 <=> sign_of(x) = -1) /\ (x = 0 <=> sign_of(x) = 0)
BY DEF sign_of

\* What is read for the side that has its distances stored.
LEMMA ReadShown ==
  ASSUME NEW x \in Int
  PROVE  /\ x > 0 => ReadDTZ(x, ValueOf(x)) = StoredOf(x)
         /\ x < 0 => ReadDTZ(x, ValueOf(x)) = -StoredOf(-x)
<1>1. Rule50 \in Int /\ Rule50 >= 2
  BY Bounds
<1> DEFINE wdl == ValueOf(x)  y == AtLeast(x, -x)
           plies == IF inPlies /\ wdl \in {-2, 2} THEN Kept(x) ELSE 2 * Kept(x)
           beyond == IF wdl \in {-1, 1} THEN Rule50 ELSE 0
<1>2. /\ x > 0 => y = x /\ sign_of(wdl) = 1
      /\ x < 0 => y = -x /\ sign_of(wdl) = -1
      /\ x # 0 => y \in Int /\ y >= 1 /\ (wdl \in {-2, 2} <=> ~(y > Rule50)) /\ (wdl \in {-1, 1} <=> y > Rule50)
  BY <1>1 DEF AtLeast, ValueOf, sign_of
<1>3. Kept(x) = IF inPlies /\ y <= Rule50 THEN (IF y > Rule50 THEN y - Rule50 ELSE y) - 1
                ELSE ((IF y > Rule50 THEN y - Rule50 ELSE y) - 1) \div 2
  BY DEF Kept
<1>4. ReadDTZ(x, wdl) = (plies + 1 + beyond) * sign_of(wdl)
  BY DEF ReadDTZ
<1>0. \A u \in Int : 2 * ((u - 1) \div 2) \in Int /\ 2 * ((u - 1) \div 2) + 1 = OddOf(u)
  BY DEF OddOf
<1> HIDE DEF wdl, y
<1>5. x # 0 => plies + 1 + beyond = StoredOf(y) /\ StoredOf(y) \in Int
  <2> SUFFICES ASSUME x # 0 PROVE plies + 1 + beyond = StoredOf(y) /\ StoredOf(y) \in Int
    OBVIOUS
  <2>1. CASE y > Rule50
    <3>1. plies = 2 * ((y - Rule50 - 1) \div 2) /\ beyond = Rule50 /\ StoredOf(y) = Rule50 + OddOf(y - Rule50)
      BY <1>1, <1>2, <1>3, <2>1 DEF StoredOf
    <3>2. y - Rule50 \in Int
      BY <1>1, <1>2
    <3> HIDE DEF plies, beyond
    <3>3. QED
      BY <1>0, <1>1, <3>1, <3>2
  <2>2. CASE ~(y > Rule50) /\ inPlies
    <3>1. plies = y - 1 /\ beyond = 0 /\ StoredOf(y) = y
      BY <1>1, <1>2, <1>3, <2>2 DEF StoredOf
    <3> HIDE DEF plies, beyond
    <3>2. QED
      BY <1>2, <3>1
  <2>3. CASE ~(y > Rule50) /\ ~inPlies
    <3>1. plies = 2 * ((y - 1) \div 2) /\ beyond = 0 /\ StoredOf(y) = OddOf(y)
      BY <1>1, <1>2, <1>3, <2>3 DEF StoredOf
    <3> HIDE DEF plies, beyond
    <3>2. QED
      BY <1>0, <1>2, <3>1
  <2>4. QED
    BY <2>1, <2>2, <2>3
<1> HIDE DEF plies, beyond
<1>6. ASSUME x > 0 PROVE ReadDTZ(x, wdl) = StoredOf(x)
  BY <1>2, <1>4, <1>5, <1>6
<1>7. ASSUME x < 0 PROVE ReadDTZ(x, wdl) = -StoredOf(-x)
  BY <1>2, <1>4, <1>5, <1>7
<1>8. QED
  BY <1>6, <1>7 DEF wdl

\* probe_dtz, from what it finds of the positions that quiet moves lead to.
Afters(f, p) == {Earlier(-f[q]) : q \in quiet[p]}
OfSign(after, p) ==
  {d \in after \cup {dtz_before_zeroing(z.value) : z \in zeroing[p]} : sign_of(d) = sign_of(Search(p, TRUE).value)}
ProbeFrom(after, p) ==
  LET found == Search(p, TRUE) IN
  CASE found.value = 0 -> 0
    [] found.value # 0 /\ found.best = "zeroing" -> dtz_before_zeroing(found.value)
    [] found.value # 0 /\ found.best = "ok" /\ p \in Stored -> ReadDTZ(dtzTable[p], found.value)
    [] OTHER -> IF \E q \in quiet[p] : Mated(q) THEN Min(OfSign(after, p) \cup {1})
                ELSE IF OfSign(after, p) = {} THEN -1 ELSE Min(OfSign(after, p))

LEMMA ProbeOfStored ==
  ASSUME NEW p, p \in Stored, Search(p, TRUE).best \in {"zeroing", "ok"}, NEW a, NEW b
  PROVE  ProbeFrom(a, p) = ProbeFrom(b, p)
<1>1. CASE Search(p, TRUE).value = 0
  BY <1>1 DEF ProbeFrom
<1>2. CASE Search(p, TRUE).value # 0 /\ Search(p, TRUE).best = "zeroing"
  BY <1>2 DEF ProbeFrom
<1>3. CASE Search(p, TRUE).value # 0 /\ Search(p, TRUE).best # "zeroing"
  BY <1>3 DEF ProbeFrom
<1>4. QED
  BY <1>1, <1>2, <1>3

\* probe_dtz is defined: it asks one ply on, where the distance is stored.
LEMMA ProbeIs ==
  ASSUME TablesRight, NEW p \in Positions
  PROVE  ProbeDTZ[p] = ProbeFrom(Afters(ProbeDTZ, p), p)
<1> DEFINE g == [q \in Positions |-> ProbeFrom({}, q)]
           f == [q \in Positions |-> ProbeFrom(Afters(g, q), q)]
<1>1. ASSUME NEW q \in Positions PROVE Search(q, TRUE).best \in {"zeroing", "ok"}
  BY SearchKinds
<1>2. ASSUME NEW q \in Positions, q \in Stored PROVE f[q] = g[q]
  <2>1. f[q] = ProbeFrom(Afters(g, q), q) /\ g[q] = ProbeFrom({}, q)
    OBVIOUS
  <2> HIDE DEF f, g
  <2>2. QED
    BY <1>1, <1>2, <2>1, ProbeOfStored
<1>3. ASSUME NEW q \in Positions PROVE f[q] = ProbeFrom(Afters(f, q), q)
  <2>1. f[q] = ProbeFrom(Afters(g, q), q)
    OBVIOUS
  <2> HIDE DEF f, g
  <2>2. CASE q \in Stored
    BY <1>1, <2>1, <2>2, ProbeOfStored
  <2>3. CASE q \notin Stored
    <3>1. \A r \in quiet[q] : r \in Positions /\ r \in Stored
      BY <2>3 DEF TablesRight, GameRight, Positions
    <3>2. \A r \in quiet[q] : f[r] = g[r]
      BY <1>2, <3>1
    <3>3. Afters(f, q) = Afters(g, q)
      BY <3>2 DEF Afters
    <3>4. QED
      BY <2>1, <3>3
  <2>4. QED
    BY <2>2, <2>3
<1>4. f = [q \in Positions |-> ProbeFrom(Afters(f, q), q)]
  <2>1. f = [q \in Positions |-> f[q]]
    OBVIOUS
  <2> HIDE DEF f
  <2>2. QED
    BY <1>3, <2>1
<1>5. ProbeDTZ = CHOOSE h : h = [q \in Positions |-> ProbeFrom(Afters(h, q), q)]
  BY Zenon DEF ProbeDTZ, ProbeFrom, Afters, OfSign
<1> HIDE DEF f
<1>6. ProbeDTZ = [q \in Positions |-> ProbeFrom(Afters(ProbeDTZ, q), q)]
  BY <1>4, <1>5
<1>7. QED
  BY <1>6

LEMMA MinIs == ASSUME NEW S, S \subseteq Int, NEW m \in S, \A x \in S : m <= x PROVE Min(S) = m
<1>1. m \in Int
  OBVIOUS
<1>2. Min(S) \in S /\ Min(S) \in Int /\ \A x \in S : Min(S) <= x
  BY <1>1, MinOf
<1>3. Min(S) <= m /\ m <= Min(S)
  BY <1>2
<1>4. QED
  BY <1>1, <1>2, <1>3

\* The distance that is shown of a true one.
ShownOf(p, x) == IF x = 0 THEN 0 ELSE IF x > 0 THEN Shown(p, x) ELSE -Shown(p, -x)
AllShown == \A p \in Positions : ~ReadsPastEp(p) => ProbeDTZ[p] = ShownOf(p, distances[p])

LEMMA BeforeZeroing ==
  \A v \in WDL : /\ v > 0 => dtz_before_zeroing(v) = Costs(v)
                 /\ v < 0 => dtz_before_zeroing(v) = -Costs(v)
                 /\ v = 0 => dtz_before_zeroing(v) = 0
                 /\ dtz_before_zeroing(v) \in Int /\ Costs(v) \in {1, Rule50 + 1} /\ Costs(v) \in Int
                 /\ (v > 0 <=> sign_of(dtz_before_zeroing(v)) = 1) /\ (v < 0 <=> sign_of(dtz_before_zeroing(v)) = -1)
<1>1. Rule50 \in Int /\ Rule50 >= 2
  BY Bounds
<1>2. QED
  BY <1>1 DEF dtz_before_zeroing, Costs, WDL, sign_of

\* A zeroing move that is as good as any is the distance.
LEMMA ZeroingShown ==
  ASSUME TablesRight, NEW p \in Positions, ValueOf(distances[p]) # 0, Search(p, TRUE).best = "zeroing"
  PROVE  dtz_before_zeroing(ValueOf(distances[p])) = ShownOf(p, distances[p])
<1> DEFINE D == distances[p]  v == ValueOf(D)
<1>0. Rule50 \in Int /\ Rule50 >= 2 /\ D \in Int /\ v \in WDL /\ v \in Int /\ Playable(zeroing, distances)
  BY Bounds, TableOf
<1>1. PICK z \in zeroing[p] : z.value = v /\ (z.value > 0 \/ quiet[p] = {})
  BY SearchKinds
<1>2. CASE v > 0
  <2>1. D > 0
    BY <1>0, <1>1, <1>2, WellPlayedOf
  <2>2. D <= Costs(v)
    BY <1>0, <1>1, <1>2, <2>1, WellPlayedOf DEF LeastWin
  <2>3. D = Costs(v)
    <3>1. Costs(v) = IF v = 2 THEN 1 ELSE Rule50 + 1
      BY <1>0, <1>2 DEF Costs, WDL
    <3>2. v = 2 \/ (v = 1 /\ D > Rule50)
      BY <1>0, <1>2, ValueFacts DEF WDL
    <3>3. QED
      BY <1>0, <2>1, <2>2, <3>1, <3>2
  <2>4. Shown(p, D) = D
    BY <1>0, <2>1, <2>3, BeforeZeroing, ShownFacts
  <2>5. QED
    BY <1>0, <1>2, <2>1, <2>3, <2>4, BeforeZeroing DEF ShownOf
<1>3. CASE ~(v > 0)
  <2>1. quiet[p] = {} /\ v < 0
    BY <1>0, <1>1, <1>3
  <2>2. D < 0
    <3>1. v \in {-1, -2}
      BY <1>0, <2>1 DEF WDL
    <3>2. QED
      BY <1>0, <3>1, ValueFacts
  <2>3. ~MateAt(zeroing, p)
    BY <1>1 DEF MateAt, NoMoves
  <2>4. SomeLoss(zeroing, distances, p, -D)
    BY <1>0, <2>2, WellPlayedOf
  <2>5. PICK y \in zeroing[p] : -D = Costs(y.value)
    BY <2>1, <2>3, <2>4 DEF SomeLoss
  <2>6. -D \in {1, Rule50 + 1}
    BY <2>5, TableOf, BeforeZeroing
  <2>7. -D = Costs(v)
    <3>1. Costs(v) = IF v = -2 THEN 1 ELSE Rule50 + 1
      BY <1>0, <2>1 DEF Costs, WDL
    <3>2. (v = -2 /\ -D <= Rule50) \/ (v = -1 /\ -D > Rule50)
      <4>1. v = -2 \/ v = -1
        BY <1>0, <2>1 DEF WDL
      <4>2. (v = -2 => -Rule50 <= D) /\ (v = -1 => D < -Rule50)
        BY <1>0, ValueFacts
      <4>3. QED
        BY <1>0, <4>1, <4>2
    <3>3. QED
      BY <1>0, <2>6, <3>1, <3>2
  <2>8. Shown(p, -D) = -D /\ -D \in Int
    <3>1. -D \in Int /\ -D >= 1
      BY <1>0, <2>2
    <3>2. QED
      BY <2>6, <3>1, ShownFacts
  <2>9. ShownOf(p, D) = -(-D)
    BY <1>0, <2>2, <2>8 DEF ShownOf
  <2>10. dtz_before_zeroing(v) = -(-D)
    BY <1>0, <2>1, <2>7, BeforeZeroing
  <2>11. QED
    BY <2>9, <2>10
<1>4. QED
  BY <1>2, <1>3

LEMMA ShownOfStored ==
  ASSUME TablesRight, NEW p \in Stored, ~ReadsPastEp(p)
  PROVE  ProbeDTZ[p] = ShownOf(p, distances[p])
<1>0. p \in Positions
  BY DEF Positions
<1>1. ProbeDTZ[p] = ProbeFrom(Afters(ProbeDTZ, p), p)
  BY <1>0, ProbeIs
<1>2. Search(p, TRUE).value = ValueOf(distances[p]) /\ distances[p] \in Int
  BY <1>0, SearchFinds, TableOf, Zenon
<1>3. Search(p, TRUE).best \in {"zeroing", "ok"}
  BY <1>0, SearchKinds
<1>4. CASE ValueOf(distances[p]) = 0
  <2>1. distances[p] = 0
    BY <1>2, <1>4, ValueFacts
  <2>2. QED
    BY <1>1, <1>2, <1>4, <2>1 DEF ProbeFrom, ShownOf
<1>5. CASE ValueOf(distances[p]) # 0 /\ Search(p, TRUE).best = "zeroing"
  <2>1. ProbeFrom(Afters(ProbeDTZ, p), p) = dtz_before_zeroing(ValueOf(distances[p]))
    BY <1>2, <1>5 DEF ProbeFrom
  <2>2. QED
    BY <1>0, <1>1, <1>5, <2>1, ZeroingShown
<1>6. CASE ValueOf(distances[p]) # 0 /\ Search(p, TRUE).best = "ok"
  <2>1. ProbeFrom(Afters(ProbeDTZ, p), p) = ReadDTZ(distances[p], ValueOf(distances[p]))
    <3>1. dtzTable[p] = distances[p]
      BY <1>6 DEF ReadsPastEp
    <3>2. QED
      BY <1>2, <1>6, <3>1 DEF ProbeFrom
  <2>2. distances[p] # 0
    BY <1>2, <1>6, ValueFacts
  <2>3. \A x : Shown(p, x) = StoredOf(x)
    BY DEF Shown
  <2>4. QED
    BY <1>1, <1>2, <2>1, <2>2, <2>3, ReadShown DEF ShownOf
<1>7. QED
  BY <1>3, <1>4, <1>5, <1>6

LEMMA EarlierFacts == \A x \in Int : /\ x > 0 => Earlier(x) = x + 1
                                     /\ x < 0 => Earlier(x) = x - 1
                                     /\ x = 0 => Earlier(x) = 0
BY DEF Earlier, sign_of

\* No quiet move leads to a position whose entry is wrong.
LEMMA NotPastEp == ASSUME TablesRight, NEW q \in Positions, NoEp(q) PROVE ~ReadsPastEp(q)
BY DEF TablesRight, TablesAreRight, DistancesRight, ReadsPastEp

\* What the other side finds of a quiet move.
LEMMA AfterStored ==
  ASSUME TablesRight, NEW q \in Stored, NoEp(q)
  PROVE  /\ distances[q] \in Int
         /\ distances[q] < 0 => Earlier(-ProbeDTZ[q]) = StoredOf(-distances[q]) + 1 /\ StoredOf(-distances[q]) \in Int /\ StoredOf(-distances[q]) >= 1
         /\ distances[q] > 0 => Earlier(-ProbeDTZ[q]) = -(StoredOf(distances[q]) + 1) /\ StoredOf(distances[q]) \in Int /\ StoredOf(distances[q]) >= 1
         /\ distances[q] = 0 => Earlier(-ProbeDTZ[q]) = 0
<1> DEFINE d == distances[q]
<1>1. d \in Int /\ ProbeDTZ[q] = ShownOf(q, d) /\ \A x : Shown(q, x) = StoredOf(x)
  BY TableOf, ShownOfStored, NotPastEp DEF Positions, Shown
<1>2. CASE d < 0
  <2>1. -d \in Int /\ -d >= 1
    BY <1>1, <1>2
  <2>2. StoredOf(-d) \in Int /\ StoredOf(-d) >= 1
    BY <2>1, StoredFacts
  <2>3. ProbeDTZ[q] = -StoredOf(-d)
    BY <1>1, <1>2 DEF ShownOf
  <2>4. -ProbeDTZ[q] = StoredOf(-d) /\ -ProbeDTZ[q] \in Int
    BY <2>2, <2>3
  <2>5. QED
    BY <1>1, <1>2, <2>2, <2>4, EarlierFacts
<1>3. CASE d > 0
  <2>1. StoredOf(d) \in Int /\ StoredOf(d) >= 1
    BY <1>1, <1>3, StoredFacts
  <2>2. ProbeDTZ[q] = StoredOf(d)
    BY <1>1, <1>3 DEF ShownOf
  <2>3. -ProbeDTZ[q] \in Int /\ -ProbeDTZ[q] < 0
    BY <2>1, <2>2
  <2>4. Earlier(-ProbeDTZ[q]) = -ProbeDTZ[q] - 1
    BY <2>3, EarlierFacts
  <2>5. QED
    BY <1>1, <1>3, <2>1, <2>2, <2>4
<1>4. CASE d = 0
  <2>3. ProbeDTZ[q] = 0
    BY <1>1, <1>4 DEF ShownOf
  <2>1. \A x \in Int : x <= 0 /\ x >= 0 => Earlier(-x) = 0
    BY DEF Earlier, sign_of
  <2>2. Earlier(-ProbeDTZ[q]) = 0
    BY <2>1, <2>3
  <2>4. QED
    BY <1>1, <1>4, <2>2
<1>5. QED
  BY <1>1, <1>2, <1>3, <1>4

\* Where the other side is one ply before a stored distance.
LEMMA OtherShown ==
  ASSUME NEW p \in Positions, p \notin Stored, NEW x \in Int, x >= 2
  PROVE  /\ Shown(p, x) \in Int
         /\ Shown(p, x) = StoredOf(x - 1) + 1 \/ (x = Rule50 + 1 /\ Shown(p, x) = Rule50 + 1)
         /\ StoredOf(x - 1) \in Int /\ StoredOf(x - 1) + 1 <= Shown(p, x)
         /\ (x = Rule50 + 1 => inPlies) => Shown(p, x) = StoredOf(x - 1) + 1
<1>1. Rule50 \in Int /\ Rule50 >= 2
  BY Bounds
<1>2. /\ StoredOf(x - 1) \in Int /\ (StoredOf(x - 1) = x - 1 \/ StoredOf(x - 1) = x - 1 - 1)
      /\ inPlies /\ x - 1 <= Rule50 => StoredOf(x - 1) = x - 1
  <2>1. x - 1 \in Int /\ x - 1 >= 1
    OBVIOUS
  <2>2. QED
    BY <2>1, StoredFacts
<1>3. CASE x = Rule50 + 1
  <2>1. Shown(p, x) = x
    BY <1>3 DEF Shown
  <2>2. QED
    BY <1>1, <1>2, <1>3, <2>1
<1>4. CASE x # Rule50 + 1
  <2>1. Shown(p, x) = StoredOf(x - 1) + 1
    BY <1>4 DEF Shown
  <2>2. QED
    BY <1>2, <1>4, <2>1
<1>5. QED
  BY <1>3, <1>4

\* What probe_dtz puts together for a side that has no distances stored.
LEMMA ShownOfOther ==
  ASSUME TablesRight, NEW p \in Positions, p \notin Stored
  PROVE  ProbeDTZ[p] = ShownOf(p, distances[p])
<1> DEFINE D == distances[p]  v == ValueOf(D)  after == Afters(ProbeDTZ, p)  S == OfSign(after, p)
<1>0. /\ Rule50 \in Int /\ Rule50 >= 2 /\ D \in Int /\ v \in WDL /\ v \in Int /\ Playable(zeroing, distances)
      /\ \A z \in zeroing[p] : z.value \in WDL /\ z.value \in Int
      /\ quiet \in [Positions -> SUBSET Positions] /\ zeroing \in [Positions -> SUBSET Zeroing]
  BY Bounds, TableOf
<1>1. ProbeDTZ[p] = ProbeFrom(after, p)
  BY ProbeIs
<1>2. Search(p, TRUE).value = v
  BY SearchFinds, Zenon
<1>3. Search(p, TRUE).best \in {"zeroing", "ok"}
  BY SearchKinds
<1>4. ASSUME NEW q \in quiet[p]
      PROVE  /\ q \in Stored /\ q \in Positions /\ distances[q] \in Int
             /\ distances[q] < 0 => Earlier(-ProbeDTZ[q]) = StoredOf(-distances[q]) + 1 /\ StoredOf(-distances[q]) \in Int /\ StoredOf(-distances[q]) >= 1
             /\ distances[q] > 0 => Earlier(-ProbeDTZ[q]) = -(StoredOf(distances[q]) + 1) /\ StoredOf(distances[q]) \in Int /\ StoredOf(distances[q]) >= 1
             /\ distances[q] = 0 => Earlier(-ProbeDTZ[q]) = 0
             /\ distances[q] \in {Rule50, -Rule50} => inPlies
             /\ Mated(q) <=> MateAt(zeroing, q)
  <2>1. q \in Stored /\ q \in Positions /\ NoEp(q)
    BY DEF TablesRight, GameRight, Positions
  <2>2. distances[q] \in {Rule50, -Rule50} => inPlies
    BY <2>1 DEF TablesRight, TablesAreRight, EdgeInPlies
  <2>3. Mated(q) <=> MateAt(zeroing, q)
    BY <1>0, <2>1, LegalFacts
  <2>4. QED
    BY <2>1, <2>2, <2>3, AfterStored
<1>5. \A d : d \in S <=> /\ (\E q \in quiet[p] : d = Earlier(-ProbeDTZ[q])) \/ (\E z \in zeroing[p] : d = dtz_before_zeroing(z.value))
                         /\ sign_of(d) = sign_of(v)
  BY <1>2 DEF OfSign, Afters
<1> HIDE DEF D, v, S, after
<1>6. CASE v = 0
  <2>1. D = 0
    BY <1>0, <1>6, ValueFacts DEF v
  <2>2. ProbeFrom(after, p) = 0
    BY <1>2, <1>6 DEF ProbeFrom
  <2>3. QED
    BY <1>1, <2>1, <2>2 DEF ShownOf, D
<1>7. CASE v # 0 /\ Search(p, TRUE).best = "zeroing"
  <2>1. ProbeFrom(after, p) = dtz_before_zeroing(v)
    BY <1>2, <1>7 DEF ProbeFrom
  <2>2. QED
    BY <1>1, <1>7, <2>1, ZeroingShown DEF v, D
<1>8. ASSUME v # 0, Search(p, TRUE).best = "ok"
      PROVE  ProbeDTZ[p] = IF \E q \in quiet[p] : Mated(q) THEN Min(S \cup {1}) ELSE IF S = {} THEN -1 ELSE Min(S)
  BY <1>1, <1>2, <1>8 DEF ProbeFrom, S
<1>9. CASE v > 0 /\ Search(p, TRUE).best = "ok"
  <2>0. ProbeDTZ[p] = IF \E q \in quiet[p] : Mated(q) THEN Min(S \cup {1}) ELSE IF S = {} THEN -1 ELSE Min(S)
    <3>1. v # 0
      BY <1>0, <1>9
    <3>2. QED
      BY <1>8, <1>9, <3>1
  <2>1. D > 0 /\ (D <= Rule50 <=> v = 2) /\ sign_of(v) = 1
    <3>1. v = 1 \/ v = 2
      BY <1>0, <1>9 DEF WDL
    <3>2. (v = 2 <=> 0 < D /\ D <= Rule50) /\ (v = 1 <=> Rule50 < D)
      BY <1>0, ValueFacts DEF v
    <3>3. QED
      BY <1>0, <3>1, <3>2, SignFacts
  <2>2. LeastWin(zeroing, distances, p, D) /\ SomeWin(zeroing, distances, p, D)
    BY <1>0, <2>1, WellPlayedOf DEF D
  <2>3. \A z \in zeroing[p] : z.value < v
    BY <1>9, SearchKinds DEF v, D
  <2>4. ASSUME NEW z \in zeroing[p], z.value > 0 PROVE v = 2 /\ z.value = 1 /\ Costs(z.value) = Rule50 + 1 /\ D <= Rule50
    <3>1. v = 2 /\ z.value = 1
      BY <1>0, <2>3, <2>4 DEF WDL
    <3>2. QED
      BY <2>1, <3>1 DEF Costs
  <2>5. ASSUME NEW d \in S
        PROVE  \/ \E q \in quiet[p] : distances[q] < 0 /\ d = StoredOf(-distances[q]) + 1
               \/ d = Rule50 + 1 /\ D <= Rule50
    <3>1. sign_of(d) = 1
      BY <1>5, <2>1
    <3>2. CASE \E q \in quiet[p] : d = Earlier(-ProbeDTZ[q])
      <4>1. PICK q \in quiet[p] : d = Earlier(-ProbeDTZ[q])
        BY <3>2
      <4>2. distances[q] < 0
        <5>1. distances[q] > 0 => d \in Int /\ d < 0
          BY <1>4, <4>1
        <5>2. distances[q] = 0 => d = 0
          BY <1>4, <4>1
        <5>3. QED
          BY <1>4, <3>1, <5>1, <5>2, SignFacts
      <4>3. QED
        BY <1>4, <4>1, <4>2
    <3>3. CASE \E z \in zeroing[p] : d = dtz_before_zeroing(z.value)
      <4>1. PICK z \in zeroing[p] : d = dtz_before_zeroing(z.value)
        BY <3>3
      <4>2. z.value > 0
        BY <1>0, <3>1, <4>1, BeforeZeroing
      <4>3. QED
        BY <1>0, <2>4, <4>1, <4>2, BeforeZeroing
    <3>4. QED
      BY <1>5, <3>2, <3>3
  <2>6. \A d \in S : d \in Int /\ d >= 1
    <3>1. \A q \in quiet[p] : distances[q] < 0 => StoredOf(-distances[q]) \in Int /\ StoredOf(-distances[q]) >= 1
      BY <1>4
    <3>2. QED
      BY <1>0, <2>5, <3>1
  <2>7. CASE \E q \in quiet[p] : Mated(q)
    <3>1. PICK q \in quiet[p] : Mated(q)
      BY <2>7
    <3>2. distances[q] < 0
      <4>1. AllLost(zeroing, distances, q)
        BY <1>4, <3>1 DEF AllLost, MateAt, NoMoves
      <4>2. QED
        BY <1>0, <1>4, <4>1, WellPlayedOf
    <3>3. D = 1
      <4>1. D <= 1
        BY <1>4, <2>2, <3>1, <3>2 DEF LeastWin
      <4>2. QED
        BY <1>0, <2>1, <4>1
    <3>4. Min(S \cup {1}) = 1
      <4>1. S \cup {1} \subseteq Int /\ 1 \in S \cup {1} /\ \A x \in S \cup {1} : 1 <= x
        BY <2>6
      <4>2. QED
        BY <4>1, MinIs
    <3>5. Shown(p, D) = 1
      BY <3>3 DEF Shown
    <3>6. ProbeDTZ[p] = 1
      BY <2>0, <2>7, <3>4
    <3>7. QED
      BY <3>3, <3>5, <3>6 DEF ShownOf, D
  <2>8. CASE ~ \E q \in quiet[p] : Mated(q)
    <3>1. ~ \E z \in zeroing[p] : z.value > 0 /\ D = Costs(z.value)
      BY <1>0, <2>4
    <3>2. PICK q \in quiet[p] : distances[q] < 0 /\ D = 1 - distances[q]
      BY <1>4, <2>2, <2>8, <3>1 DEF SomeWin
    <3>3. D >= 2 /\ -distances[q] = D - 1
      BY <1>0, <1>4, <3>2
    <3>4. D = Rule50 + 1 => inPlies
      <4>1. D = Rule50 + 1 => distances[q] = -Rule50
        BY <1>0, <1>4, <3>2
      <4>2. QED
        BY <1>4, <4>1
    <3>5. Shown(p, D) = StoredOf(D - 1) + 1 /\ Shown(p, D) \in Int
      BY <1>0, <3>3, <3>4, OtherShown
    <3>6. Shown(p, D) \in S
      <4>1. Shown(p, D) = Earlier(-ProbeDTZ[q])
        BY <1>4, <3>2, <3>3, <3>5
      <4>2. Shown(p, D) >= 1
        BY <1>0, <2>1, ShownFacts
      <4>3. sign_of(Shown(p, D)) = 1
        BY <3>5, <4>2, SignFacts
      <4>4. QED
        BY <1>5, <2>1, <4>1, <4>3
    <3>7. ASSUME NEW d \in S PROVE Shown(p, D) <= d
      <4>1. CASE \E r \in quiet[p] : distances[r] < 0 /\ d = StoredOf(-distances[r]) + 1
        <5>1. PICK r \in quiet[p] : distances[r] < 0 /\ d = StoredOf(-distances[r]) + 1
          BY <4>1
        <5>2. D <= 1 - distances[r]
          BY <1>4, <2>2, <2>8, <5>1 DEF LeastWin
        <5>3. D - 1 \in Int /\ -distances[r] \in Int /\ 1 <= D - 1 /\ D - 1 <= -distances[r]
          BY <1>0, <1>4, <3>3, <5>2
        <5>4. StoredOf(D - 1) <= StoredOf(-distances[r]) /\ StoredOf(D - 1) \in Int /\ StoredOf(-distances[r]) \in Int
          BY <1>4, <5>1, <5>3, StoredAscends, StoredFacts
        <5>5. QED
          BY <3>5, <5>1, <5>4
      <4>2. CASE d = Rule50 + 1 /\ D <= Rule50
        <5>1. Shown(p, D) <= Rule50
          BY <1>0, <2>1, <4>2, ShownFacts
        <5>2. QED
          BY <1>0, <3>5, <4>2, <5>1
      <4>3. QED
        BY <2>5, <4>1, <4>2
    <3>8. Min(S) = Shown(p, D)
      <4>1. S \subseteq Int
        BY <2>6
      <4>2. QED
        BY <3>6, <3>7, <4>1, MinIs
    <3>9. S # {}
      BY <3>6
    <3>10. ProbeDTZ[p] = Shown(p, D)
      BY <2>0, <2>8, <3>8, <3>9
    <3>11. QED
      BY <1>0, <2>1, <3>10 DEF ShownOf, D
  <2>9. QED
    BY <2>7, <2>8
<1>10. CASE v < 0 /\ Search(p, TRUE).best = "ok"
  <2>0. ProbeDTZ[p] = IF \E q \in quiet[p] : Mated(q) THEN Min(S \cup {1}) ELSE IF S = {} THEN -1 ELSE Min(S)
    <3>1. v # 0
      BY <1>0, <1>10
    <3>2. QED
      BY <1>8, <1>10, <3>1
  <2>1. D < 0 /\ sign_of(v) = -1 /\ -D \in Int /\ -D >= 1
    <3>1. v = -1 \/ v = -2
      BY <1>0, <1>10 DEF WDL
    <3>2. D < 0
      BY <1>0, <3>1, ValueFacts DEF v
    <3>3. QED
      BY <1>0, <1>10, <3>2, SignFacts
  <2>2. AllLost(zeroing, distances, p) /\ MostLoss(zeroing, distances, p, -D) /\ SomeLoss(zeroing, distances, p, -D)
    BY <1>0, <2>1, WellPlayedOf DEF D
  <2>3. ~ \E q \in quiet[p] : Mated(q)
    <3>1. ASSUME NEW q \in quiet[p], Mated(q) PROVE FALSE
      <4>1. AllLost(zeroing, distances, q)
        BY <1>4, <3>1 DEF AllLost, MateAt, NoMoves
      <4>2. distances[q] < 0
        BY <1>0, <1>4, <4>1, WellPlayedOf
      <4>3. distances[q] > 0
        BY <2>2 DEF AllLost
      <4>4. QED
        BY <1>4, <4>2, <4>3
    <3>2. QED
      BY <3>1
  <2>4. ShownOf(p, D) = -Shown(p, -D) /\ Shown(p, -D) \in Int /\ Shown(p, -D) >= 1
    BY <1>0, <2>1, ShownFacts DEF ShownOf
  <2>5. ProbeDTZ[p] = IF S = {} THEN -1 ELSE Min(S)
    BY <2>0, <2>3
  <2>6. CASE NoMoves(zeroing, p)
    <3>1. quiet[p] = {} /\ zeroing[p] = {}
      BY <2>6 DEF NoMoves
    <3>2. S = {}
      BY <1>5, <3>1
    <3>3. -D = 1
      BY <2>2, <3>1 DEF SomeLoss
    <3>4. Shown(p, -D) = 1
      BY <3>3 DEF Shown
    <3>5. QED
      BY <2>4, <2>5, <3>2, <3>4 DEF D
  <2>7. CASE ~NoMoves(zeroing, p)
    <3>1. quiet[p] # {}
      BY <1>10, <2>7, SearchKinds DEF NoMoves
    <3>2. \A q \in quiet[p] : distances[q] > 0 /\ distances[q] + 1 <= -D
      BY <2>2 DEF AllLost, MostLoss
    <3>3. -D >= 2
      <4>1. PICK q \in quiet[p] : TRUE
        BY <3>1
      <4>2. distances[q] \in Int /\ distances[q] > 0 /\ distances[q] + 1 <= -D
        BY <1>4, <3>2
      <4>3. QED
        BY <2>1, <4>2
    <3>4. /\ Shown(p, -D) = StoredOf(-D - 1) + 1 \/ (-D = Rule50 + 1 /\ Shown(p, -D) = Rule50 + 1)
          /\ StoredOf(-D - 1) \in Int /\ StoredOf(-D - 1) + 1 <= Shown(p, -D)
          /\ (-D = Rule50 + 1 => inPlies) => Shown(p, -D) = StoredOf(-D - 1) + 1
      BY <2>1, <3>3, OtherShown
    <3>5. ASSUME NEW d \in S PROVE d \in Int /\ -Shown(p, -D) <= d
      <4>1. CASE \E q \in quiet[p] : d = Earlier(-ProbeDTZ[q])
        <5>1. PICK q \in quiet[p] : d = Earlier(-ProbeDTZ[q])
          BY <4>1
        <5>2. d = -(StoredOf(distances[q]) + 1) /\ StoredOf(distances[q]) \in Int
          BY <1>4, <3>2, <5>1
        <5>3. distances[q] \in Int /\ -D - 1 \in Int /\ 1 <= distances[q] /\ distances[q] <= -D - 1
          BY <1>4, <2>1, <3>2
        <5>4. StoredOf(distances[q]) <= StoredOf(-D - 1)
          BY <5>3, StoredAscends
        <5>5. QED
          BY <2>4, <3>4, <5>2, <5>4
      <4>2. CASE \E z \in zeroing[p] : d = dtz_before_zeroing(z.value)
        <5>1. PICK z \in zeroing[p] : d = dtz_before_zeroing(z.value)
          BY <4>2
        <5>2. z.value < 0 /\ Costs(z.value) <= -D /\ z.value \in WDL
          BY <1>0, <2>2 DEF AllLost, MostLoss
        <5>3. d = -Costs(z.value) /\ Costs(z.value) \in {1, Rule50 + 1}
          BY <5>1, <5>2, BeforeZeroing
        <5>4. Costs(z.value) <= Shown(p, -D)
          <6>1. -D <= Rule50 <=> Shown(p, -D) <= Rule50
            BY <2>1, ShownFacts
          <6>2. CASE Costs(z.value) = 1
            BY <2>4, <6>2
          <6>3. CASE Costs(z.value) = Rule50 + 1
            BY <1>0, <2>1, <2>4, <5>2, <6>1, <6>3
          <6>4. QED
            BY <5>3, <6>2, <6>3
        <5>5. QED
          BY <1>0, <2>4, <5>3, <5>4
      <4>3. QED
        BY <1>5, <4>1, <4>2
    <3>6. -Shown(p, -D) \in S
      <4>0. sign_of(-Shown(p, -D)) = -1
        BY <2>4, SignFacts
      <4>1. ~MateAt(zeroing, p)
        BY <2>7 DEF MateAt
      <4>2. CASE \E z \in zeroing[p] : -D = Costs(z.value)
        <5>1. PICK z \in zeroing[p] : -D = Costs(z.value)
          BY <4>2
        <5>2. z.value < 0 /\ z.value \in WDL
          BY <1>0, <2>2 DEF AllLost
        <5>3. Shown(p, -D) = -D
          BY <2>1, <5>1, <5>2, BeforeZeroing, ShownFacts
        <5>4. dtz_before_zeroing(z.value) = -Shown(p, -D)
          BY <5>1, <5>2, <5>3, BeforeZeroing
        <5>5. QED
          BY <1>5, <2>1, <4>0, <5>4
      <4>3. CASE \E q \in quiet[p] : -D = distances[q] + 1
        <5>1. PICK q \in quiet[p] : -D = distances[q] + 1
          BY <4>3
        <5>2. distances[q] = -D - 1 /\ distances[q] > 0 /\ distances[q] \in Int
          BY <1>4, <2>1, <3>2, <5>1
        <5>3. -D = Rule50 + 1 => inPlies
          <6>1. -D = Rule50 + 1 => distances[q] = Rule50
            BY <1>0, <2>1, <5>2
          <6>2. QED
            BY <1>4, <6>1
        <5>4. Shown(p, -D) = StoredOf(-D - 1) + 1
          BY <3>4, <5>3
        <5>5. Earlier(-ProbeDTZ[q]) = -(StoredOf(distances[q]) + 1)
          BY <1>4, <5>2
        <5>6. Earlier(-ProbeDTZ[q]) = -Shown(p, -D)
          BY <5>2, <5>4, <5>5
        <5>7. QED
          BY <1>5, <2>1, <4>0, <5>6
      <4>4. QED
        BY <2>2, <4>1, <4>2, <4>3 DEF SomeLoss
    <3>7. Min(S) = -Shown(p, -D)
      <4>1. S \subseteq Int
        BY <3>5
      <4>2. \A d \in S : -Shown(p, -D) <= d
        BY <3>5
      <4>3. QED
        BY <3>6, <4>1, <4>2, MinIs
    <3>8. S # {}
      BY <3>6
    <3>9. QED
      BY <2>4, <2>5, <3>7, <3>8 DEF D
  <2>8. QED
    BY <2>6, <2>7
<1>11. v = 0 \/ v > 0 \/ v < 0
  BY <1>0
<1>12. v = 0 \/ (v # 0 /\ Search(p, TRUE).best = "zeroing") \/ (v > 0 /\ Search(p, TRUE).best = "ok")
       \/ (v < 0 /\ Search(p, TRUE).best = "ok")
  BY <1>3, <1>11
<1>13. QED
  BY <1>6, <1>7, <1>9, <1>10, <1>12

\* probe_dtz returns what is shown of the true distance.
LEMMA ProbesAreShown == TablesRight => AllShown
<1>1. ASSUME TablesRight, NEW p \in Positions, ~ReadsPastEp(p) PROVE ProbeDTZ[p] = ShownOf(p, distances[p])
  BY <1>1, ShownOfStored, ShownOfOther
<1>2. QED
  BY <1>1 DEF AllShown

-----------------------------------------------------------------------------
(* The play.                                                               *)

\* The plies a win in x plies may take, since what is shown may be a ply too few.
Needs(p, x) == IF inPlies THEN x ELSE IF p \in Stored THEN OddOf(x) + 1 ELSE OddOf(x + 1)

\* The winner is in time, and what may not be visited again lies behind.
WinnerAt(p, cnt, seen) ==
  /\ distances[p] > 0 /\ Needs(p, distances[p]) + cnt <= Rule50
  /\ \A q \in Positions : seen[q] <= 2 /\ (seen[q] = 2 => q = p \/ Plies(distances[q]) > distances[p])
LoserAt(p, cnt, seen) ==
  /\ distances[p] < 0
  /\ ~Mated(p) =>
       /\ -distances[p] + cnt <= Rule50
       /\ -distances[p] > 1 => \A q \in quiet[p] : Needs(q, -distances[p] - 1) + cnt + 1 <= Rule50
       /\ \A q \in Positions :
            /\ seen[q] <= 2
            /\ seen[q] = 2 => q = p \/ Plies(distances[q]) > -distances[p] \/ distances[q] = -distances[p]

LEMMA OddSteps == \A x \in Int : OddOf(x + 2) = OddOf(x) + 2 /\ OddOf(x - 2) = OddOf(x) - 2
<1>1. ASSUME NEW x \in Int PROVE OddOf(x + 2) = OddOf(x) + 2
  <2>1. x + 2 - 1 = (x - 1) + 2 /\ \A y \in Int : (y + 2) \div 2 = y \div 2 + 1 /\ y \div 2 \in Int
    OBVIOUS
  <2>2. x - 1 \in Int
    OBVIOUS
  <2>3. QED
    BY <2>1, <2>2 DEF OddOf
<1>2. ASSUME NEW x \in Int PROVE OddOf(x - 2) = OddOf(x) - 2
  <2>1. x - 2 \in Int /\ (x - 2) + 2 = x
    OBVIOUS
  <2>2. OddOf(x) = OddOf(x - 2) + 2
    BY <1>1, <2>1
  <2>3. OddOf(x - 2) \in Int /\ OddOf(x) \in Int
    BY <2>1, OddFacts
  <2>4. QED
    BY <2>2, <2>3
<1>3. QED
  BY <1>1, <1>2

LEMMA NeedsFacts ==
  ASSUME NEW p \in Positions, NEW x \in Int, x >= 1
  PROVE  Needs(p, x) \in Int /\ x <= Needs(p, x) /\ Needs(p, x) <= x + 1
<1>1. x + 1 \in Int /\ OddOf(x) \in Int /\ (OddOf(x) = x \/ OddOf(x) = x - 1)
  BY OddFacts
<1>2. OddOf(x + 1) \in Int /\ (OddOf(x + 1) = x + 1 \/ OddOf(x + 1) = x)
  <2>1. x + 1 \in Int
    OBVIOUS
  <2>2. OddOf(x + 1) \in Int /\ (OddOf(x + 1) = x + 1 \/ OddOf(x + 1) = x + 1 - 1)
    BY <2>1, OddFacts
  <2>3. QED
    BY <2>2
<1>3. Needs(p, x) = x \/ Needs(p, x) = OddOf(x) + 1 \/ Needs(p, x) = OddOf(x + 1)
  BY DEF Needs
<1>4. QED
  BY <1>1, <1>2, <1>3

LEMMA NeedsAscend ==
  ASSUME NEW p \in Positions, NEW x \in Int, NEW y \in Int, x <= y
  PROVE  Needs(p, x) <= Needs(p, y)
<1>1. x + 1 \in Int /\ y + 1 \in Int /\ x + 1 <= y + 1
  OBVIOUS
<1>2. OddOf(x) <= OddOf(y) /\ OddOf(x + 1) <= OddOf(y + 1)
  BY <1>1, OddAscends
<1>3. OddOf(x) \in Int /\ OddOf(y) \in Int /\ OddOf(x + 1) \in Int /\ OddOf(y + 1) \in Int
  BY <1>1, OddFacts
<1>4. CASE inPlies
  BY <1>4 DEF Needs
<1>5. CASE ~inPlies
  BY <1>2, <1>3, <1>5 DEF Needs
<1>6. QED
  BY <1>4, <1>5

\* Within the 50-move rule, what is shown of a loss is what the winner needs after it.
LEMMA ShownIsNeeded ==
  ASSUME NEW q \in Positions, NEW r \in Positions, q \in Stored <=> r \notin Stored, NEW x \in Int, x >= 2, x <= Rule50
  PROVE  /\ Needs(r, x - 1) <= Shown(q, x)
         /\ ~inPlies => Shown(q, x) = IF q \in Stored THEN OddOf(x) ELSE OddOf(x - 1) + 1
         /\ inPlies => Shown(q, x) = x
<1>1. Rule50 \in Int /\ Rule50 >= 2 /\ x - 1 \in Int /\ x # 1 /\ x # Rule50 + 1 /\ ~(x > Rule50) /\ ~(x - 1 > Rule50)
      /\ x - 1 + 1 = x
  BY Bounds
<1>2. Shown(q, x) = IF q \in Stored THEN StoredOf(x) ELSE StoredOf(x - 1) + 1
  BY <1>1 DEF Shown
<1>3. StoredOf(x) = (IF inPlies THEN x ELSE OddOf(x)) /\ StoredOf(x - 1) = IF inPlies THEN x - 1 ELSE OddOf(x - 1)
  BY <1>1 DEF StoredOf
<1>4. OddOf(x) \in Int /\ OddOf(x - 1) \in Int
  BY <1>1, OddFacts
<1>5. CASE inPlies
  BY <1>1, <1>2, <1>3, <1>5 DEF Needs
<1>6. CASE ~inPlies
  <2>1. Shown(q, x) = IF q \in Stored THEN OddOf(x) ELSE OddOf(x - 1) + 1
    BY <1>2, <1>3, <1>6
  <2>2. Needs(r, x - 1) = IF r \in Stored THEN OddOf(x - 1) + 1 ELSE OddOf(x)
    BY <1>1, <1>6 DEF Needs
  <2>3. QED
    BY <1>4, <1>6, <2>1, <2>2
<1>7. QED
  BY <1>5, <1>6

\* A loss that is shown to be no longer than the best costs the winner nothing.
LEMMA ShortEnough ==
  ASSUME NEW h \in Positions, NEW q \in Positions, NEW s \in Positions, NEW r \in Positions,
         q \in Stored <=> h \notin Stored, s \in Stored <=> q \in Stored, r \in Stored <=> h \in Stored,
         NEW d \in Int, d >= 2, d <= Rule50, NEW x \in Int, x >= d - 1, x >= 1, Shown(q, x) <= Shown(s, d - 1)
  PROVE  /\ x <= d /\ x + 1 <= Needs(h, d)
         /\ x > 1 => Needs(r, x - 1) <= Needs(h, d) - 2
<1>0. Rule50 \in Int /\ Rule50 >= 2 /\ d - 1 \in Int /\ d - 2 \in Int /\ x - 1 \in Int /\ d + 1 \in Int /\ d - 1 >= 1
  BY Bounds
<1>1. Shown(q, x) \in Int /\ Shown(s, d - 1) \in Int /\ Shown(s, d - 1) <= d - 1 /\ (x <= Rule50 <=> Shown(q, x) <= Rule50)
  <2>1. Shown(q, x) \in Int /\ (x <= Rule50 <=> Shown(q, x) <= Rule50)
    BY ShownFacts
  <2>2. Shown(s, d - 1) \in Int /\ (Shown(s, d - 1) = d - 1 \/ Shown(s, d - 1) = d - 1 - 1)
    BY <1>0, ShownFacts
  <2>3. QED
    BY <1>0, <2>1, <2>2
<1>2. x <= Rule50
  BY <1>0, <1>1
<1>3. Shown(q, d - 1) = Shown(s, d - 1)
  BY DEF Shown
<1>4. \A u \in Int : u >= 2 /\ u <= Rule50 =>
        /\ ~inPlies => Shown(q, u) = IF q \in Stored THEN OddOf(u) ELSE OddOf(u - 1) + 1
        /\ inPlies => Shown(q, u) = u
  BY ShownIsNeeded
<1>5. Shown(q, 1) = 1
  <2>1. 1 \in Int /\ 1 >= 1 /\ 1 \in {1, Rule50 + 1}
    OBVIOUS
  <2>2. QED
    BY <2>1, ShownFacts
<1>6. CASE inPlies
  <2>1. Shown(q, x) = x
    BY <1>2, <1>4, <1>5, <1>6
  <2>2. Shown(q, d - 1) = d - 1
    <3>1. d - 1 <= Rule50
      BY <1>0
    <3>2. QED
      BY <1>0, <1>4, <1>5, <1>6, <3>1
  <2>3. x = d - 1
    BY <1>0, <1>3, <2>1, <2>2
  <2>4. Needs(h, d) = d /\ Needs(r, x - 1) = x - 1
    BY <1>6 DEF Needs
  <2>5. QED
    BY <1>0, <2>3, <2>4
<1>7. CASE ~inPlies /\ q \in Stored
  <2>1. \A u \in Int : u >= 1 /\ u <= Rule50 => Shown(q, u) = OddOf(u)
    BY <1>0, <1>7 DEF Shown, StoredOf
  <2>2. OddOf(x) <= OddOf(d - 1)
    BY <1>0, <1>2, <1>3, <2>1
  <2>3. OddOf(d - 1) <= OddOf(x)
    BY <1>0, OddAscends
  <2>4. OddOf(d + 1) = OddOf(d - 1) + 2
    <3>1. d - 1 + 2 = d + 1
      OBVIOUS
    <3>2. QED
      BY <1>0, <3>1, OddSteps
  <2>5. x \in Int /\ OddOf(x) \in Int /\ OddOf(d - 1) \in Int /\ (OddOf(x) = x \/ OddOf(x) = x - 1)
    BY <1>0, OddFacts
  <2>6. OddOf(x) = OddOf(d - 1)
    BY <2>2, <2>3, <2>5
  <2>7. x <= d
    <3>1. ASSUME x >= d + 1 PROVE FALSE
      <4>1. OddOf(d + 1) <= OddOf(x)
        BY <1>0, <3>1, OddAscends
      <4>2. QED
        BY <2>4, <2>5, <2>6, <4>1
    <3>2. QED
      BY <3>1
  <2>8. Needs(h, d) = OddOf(d - 1) + 2
    BY <1>7, <2>4 DEF Needs
  <2>9. Needs(r, x - 1) = OddOf(x)
    <3>1. x - 1 + 1 = x
      OBVIOUS
    <3>2. QED
      BY <1>7, <3>1 DEF Needs
  <2>10. QED
    BY <2>5, <2>6, <2>7, <2>8, <2>9
<1>8. CASE ~inPlies /\ q \notin Stored
  <2>1. \A u \in Int : u >= 2 /\ u <= Rule50 => Shown(q, u) = OddOf(u - 1) + 1
    BY <1>4, <1>8
  <2>2. \A u \in Int : u - 1 \in Int /\ OddOf(u) \in Int /\ OddOf(u - 1) \in Int /\ (OddOf(u) = u \/ OddOf(u) = u - 1)
    <3>1. \A u \in Int : u - 1 \in Int
      OBVIOUS
    <3>2. QED
      BY <3>1, OddFacts
  <2>3. Needs(h, d) = OddOf(d) + 1 /\ Needs(r, x - 1) = OddOf(x - 1) + 1
    BY <1>8 DEF Needs
  <2>4. CASE d = 2
    <3>1. Shown(q, d - 1) = 1
      BY <1>5, <2>4
    <3>2. x = 1
      <4>1. ASSUME x >= 2 PROVE FALSE
        <5>1. Shown(q, x) = OddOf(x - 1) + 1
          BY <1>2, <2>1, <4>1
        <5>2. OddOf(x - 1) >= 1
          <6>1. 1 \in Int /\ 1 <= x - 1
            BY <4>1
          <6>2. OddOf(1) <= OddOf(x - 1)
            BY <1>0, <6>1, OddAscends
          <6>3. OddOf(1) = 1
            <7>1. OddOf(1) \in Int /\ (OddOf(1) = 1 \/ OddOf(1) = 1 - 1) /\ \E k \in Int : OddOf(1) = 2 * k + 1
              BY OddFacts
            <7>2. QED
              BY <7>1
          <6>4. QED
            BY <6>2, <6>3
        <5>3. QED
          BY <1>0, <1>1, <1>3, <2>2, <3>1, <5>1, <5>2
      <4>2. QED
        BY <4>1
    <3>3. OddOf(d) >= 1
      BY <2>2, <2>4
    <3>4. QED
      BY <2>2, <2>3, <2>4, <3>2, <3>3
  <2>5. CASE d >= 3
    <3>1. d - 1 >= 2 /\ d - 1 <= Rule50 /\ x >= 2 /\ d - 1 - 1 = d - 2 /\ d - 2 <= x - 1
      BY <1>0, <2>5
    <3>2. OddOf(x - 1) <= OddOf(d - 2)
      <4>1. Shown(q, x) = OddOf(x - 1) + 1
        BY <1>2, <2>1, <3>1
      <4>2. Shown(q, d - 1) = OddOf(d - 2) + 1
        BY <1>0, <2>1, <3>1
      <4>3. QED
        BY <1>0, <1>3, <2>2, <4>1, <4>2
    <3>3. OddOf(d - 2) <= OddOf(x - 1)
      BY <1>0, <3>1, OddAscends
    <3>4. OddOf(d - 2) = OddOf(d) - 2
      BY OddSteps
    <3>5. OddOf(x - 1) \in Int /\ OddOf(d) \in Int /\ (OddOf(x - 1) = x - 1 \/ OddOf(x - 1) = x - 1 - 1)
      BY <1>0, OddFacts
    <3>6. OddOf(x - 1) = OddOf(d) - 2
      BY <3>2, <3>3, <3>4, <3>5
    <3>7. x <= d
      <4>1. ASSUME x - 1 >= d PROVE FALSE
        <5>1. OddOf(d) <= OddOf(x - 1)
          BY <1>0, <4>1, OddAscends
        <5>2. QED
          BY <3>5, <3>6, <5>1
      <4>2. QED
        BY <4>1
    <3>8. QED
      BY <2>3, <3>5, <3>6, <3>7
  <2>6. QED
    BY <2>4, <2>5
<1>9. QED
  BY <1>6, <1>7, <1>8

-----------------------------------------------------------------------------
(* Ranks.                                                                  *)

\* Every distance that is ranked stays below half of MAX_DTZ.
LEMMA Limits == /\ Rule50 \in Int /\ Rule50 >= 2 /\ Longest \in Int /\ Longest >= Rule50 + 1
                /\ MAX_DTZ = 262144 /\ MAX_DTZ \div 2 = 131072 /\ Longest + Rule50 + 1 < 131072
<1>1. MAX_DTZ = 262144 /\ MAX_DTZ \div 2 = 131072
  BY DEF MAX_DTZ
<1>2. QED
  BY <1>1, Bounds, DistancesAssumption DEF Longest

\* Distances that moves can have.
Near(x) == x \in Int /\ -(Longest + 1) <= x /\ x <= Longest + 1

\* Wins are ranked above draws, certain wins above others, and these by their distance.
LEMMA RankFacts ==
  ASSUME NEW x, Near(x), NEW cnt \in Int, 0 <= cnt, cnt <= Rule50, NEW rep \in BOOLEAN, NEW byDTZ \in BOOLEAN
  PROVE  /\ Rank(x, cnt, rep, byDTZ) \in Int /\ Rank(x, cnt, rep, byDTZ) <= MAX_DTZ
         /\ x <= 0 => Rank(x, cnt, rep, byDTZ) <= 0
         /\ x > 0 /\ x + cnt <= Rule50 - 1 /\ ~rep => Rank(x, cnt, rep, byDTZ) >= MAX_DTZ - x
         /\ x > 0 /\ ~(x + cnt <= Rule50 - 1 /\ ~rep) => Rank(x, cnt, rep, byDTZ) = 131072 - (x + cnt)
<1>0. x \in Int /\ -(Longest + 1) <= x /\ x <= Longest + 1
  BY DEF Near
<1>1. CASE x > 0 /\ x + cnt <= Rule50 - 1 /\ ~rep
  <2>1. Rank(x, cnt, rep, byDTZ) = MAX_DTZ - (IF byDTZ THEN x ELSE 0)
    BY <1>0, <1>1, Limits DEF Rank
  <2>2. QED
    BY <1>0, <1>1, <2>1, Limits
<1>2. CASE x > 0 /\ ~(x + cnt <= Rule50 - 1 /\ ~rep)
  <2>1. Rank(x, cnt, rep, byDTZ) = MAX_DTZ \div 2 - (x + cnt)
    BY <1>0, <1>2, Limits DEF Rank
  <2>2. QED
    BY <1>0, <1>2, <2>1, Limits
<1>3. CASE x < 0 /\ (-x) * 2 + cnt < Rule50
  <2>1. Rank(x, cnt, rep, byDTZ) = -MAX_DTZ - (IF byDTZ THEN x ELSE 0)
    BY <1>0, <1>3 DEF Rank
  <2>2. QED
    BY <1>0, <1>3, <2>1, Limits
<1>4. CASE x < 0 /\ ~((-x) * 2 + cnt < Rule50)
  <2>1. Rank(x, cnt, rep, byDTZ) = -(MAX_DTZ \div 2) + (-x + cnt)
    BY <1>0, <1>4 DEF Rank
  <2>2. QED
    BY <1>0, <1>4, <2>1, Limits
<1>5. CASE x = 0
  <2>1. Rank(x, cnt, rep, byDTZ) = 0
    BY <1>5 DEF Rank
  <2>2. QED
    BY <1>5, <2>1, Limits
<1>6. QED
  BY <1>0, <1>1, <1>2, <1>3, <1>4, <1>5

\* A move ranked no lower than a winning one wins for certain or as fast.
LEMMA RankedAsHigh ==
  ASSUME NEW a \in Int, 0 < a, a <= Rule50, NEW b, Near(b), NEW cnt \in Int, 0 <= cnt, cnt <= Rule50,
         NEW rep \in BOOLEAN, NEW byDTZ \in BOOLEAN, Rank(b, cnt, rep, byDTZ) >= Rank(a, cnt, rep, byDTZ)
  PROVE  b > 0 /\ ((b + cnt <= Rule50 - 1 /\ ~rep) \/ b <= a)
<1> DEFINE ra == Rank(a, cnt, rep, byDTZ)  rb == Rank(b, cnt, rep, byDTZ)
<1>1. Near(a)
  BY Limits DEF Near
<1>2. b \in Int /\ b <= Longest + 1
  BY DEF Near
<1>3. ra \in Int /\ rb \in Int /\ rb >= ra
  BY <1>1, RankFacts
<1>4. CASE a + cnt <= Rule50 - 1 /\ ~rep
  <2>1. ra >= MAX_DTZ - a
    BY <1>1, <1>4, RankFacts
  <2>2. b <= 0 => rb <= 0
    BY RankFacts
  <2>3. b > 0 /\ ~(b + cnt <= Rule50 - 1 /\ ~rep) => rb = 131072 - (b + cnt)
    BY RankFacts
  <2> HIDE DEF ra, rb
  <2>4. b > 0
    BY <1>2, <1>3, <2>1, <2>2, Limits
  <2>5. b + cnt <= Rule50 - 1 /\ ~rep
    BY <1>2, <1>3, <2>1, <2>3, <2>4, Limits
  <2>6. QED
    BY <2>4, <2>5
<1>5. CASE ~(a + cnt <= Rule50 - 1 /\ ~rep)
  <2>1. ra = 131072 - (a + cnt)
    BY <1>1, <1>5, RankFacts
  <2>2. b <= 0 => rb <= 0
    BY RankFacts
  <2>3. b > 0 /\ ~(b + cnt <= Rule50 - 1 /\ ~rep) => rb = 131072 - (b + cnt)
    BY RankFacts
  <2> HIDE DEF ra, rb
  <2>4. b > 0
    BY <1>2, <1>3, <2>1, <2>2, Limits
  <2>5. ~(b + cnt <= Rule50 - 1 /\ ~rep) => b <= a
    BY <1>2, <1>3, <2>1, <2>3, <2>4
  <2>6. QED
    BY <2>4, <2>5
<1>6. QED
  BY <1>4, <1>5

PlayRight == /\ TablesRight /\ cnt50 \in 0 .. Rule50 /\ visits \in [Positions -> 0 .. 3] /\ here \in Positions
             /\ rankDTZ \in BOOLEAN

LEMMA PlayFacts == PlayRight => /\ cnt50 \in Int /\ 0 <= cnt50 /\ cnt50 <= Rule50 /\ Repeated \in BOOLEAN
                                /\ \A p \in Positions : visits[p] \in Int /\ 0 <= visits[p] /\ visits[p] <= 3
BY Limits DEF PlayRight, Repeated

\* What is ranked is near.
LEMMA ShownNear ==
  ASSUME TablesRight, NEW q \in Positions, NoEp(q)
  PROVE  Near(Earlier(-ProbeDTZ[q])) /\ ProbeDTZ[q] = ShownOf(q, distances[q])
<1> DEFINE d == distances[q]
<1>1. ProbeDTZ[q] = ShownOf(q, d)
  BY ProbesAreShown, NotPastEp DEF AllShown
<1>2. d \in Int /\ d \in -Longest .. Longest
  BY TableOf DEF TablesRight, TablesAreRight, Supported
<1> HIDE DEF d
<1>3. CASE d = 0
  <2>1. ProbeDTZ[q] = 0
    BY <1>1, <1>3 DEF ShownOf
  <2>2. \A x \in Int : x <= 0 /\ x >= 0 => Earlier(-x) = 0
    BY DEF Earlier, sign_of
  <2>3. Earlier(-ProbeDTZ[q]) = 0
    BY <2>1, <2>2
  <2>4. QED
    BY <1>1, <2>3, Limits DEF Near, d
<1>4. CASE d > 0
  <2>1. Shown(q, d) \in Int /\ Shown(q, d) >= 1 /\ Shown(q, d) <= d
    BY <1>2, <1>4, ShownFacts
  <2>2. ProbeDTZ[q] = Shown(q, d)
    BY <1>1, <1>4 DEF ShownOf
  <2>3. -ProbeDTZ[q] \in Int /\ -ProbeDTZ[q] < 0
    BY <2>1, <2>2
  <2>4. Earlier(-ProbeDTZ[q]) = -ProbeDTZ[q] - 1
    BY <2>3, EarlierFacts
  <2>5. QED
    BY <1>1, <1>2, <2>1, <2>2, <2>4, Limits DEF Near, d
<1>5. CASE d < 0
  <2>1. Shown(q, -d) \in Int /\ Shown(q, -d) >= 1 /\ Shown(q, -d) <= -d
    <3>1. -d \in Int /\ -d >= 1
      BY <1>2, <1>5
    <3>2. QED
      BY <3>1, ShownFacts
  <2>2. ProbeDTZ[q] = -Shown(q, -d)
    BY <1>1, <1>2, <1>5 DEF ShownOf
  <2>3. -ProbeDTZ[q] = Shown(q, -d)
    BY <2>1, <2>2
  <2>4. Earlier(-ProbeDTZ[q]) = Shown(q, -d) + 1
    BY <2>1, <2>3, EarlierFacts
  <2>5. QED
    BY <1>1, <1>2, <2>1, <2>4, Limits DEF Near, d
<1>6. QED
  BY <1>2, <1>3, <1>4, <1>5

\* What root_probe makes of a quiet move.
LEMMA QuietMoves ==
  ASSUME PlayRight, NEW q \in quiet[here]
  PROVE  /\ q \in Positions /\ distances[q] \in Int /\ Near(DtzOfQuiet(q)) /\ RankOfQuiet(q) \in Int /\ RankOfQuiet(q) <= MAX_DTZ
         /\ Mated(q) <=> MateAt(zeroing, q)
         /\ q \in Stored <=> here \notin Stored
         /\ DtzOfQuiet(q) > 0 =>
              /\ visits[q] < 2
              /\ \/ Mated(q) /\ DtzOfQuiet(q) = 1
                 \/ ~Mated(q) /\ distances[q] < 0 /\ DtzOfQuiet(q) = Shown(q, -distances[q]) + 1
         /\ visits[q] < 2 /\ Mated(q) => DtzOfQuiet(q) = 1
         /\ visits[q] < 2 /\ ~Mated(q) /\ cnt50 + 1 < Rule50 /\ distances[q] < 0 =>
              DtzOfQuiet(q) = Shown(q, -distances[q]) + 1
<1>0. TablesRight /\ here \in Positions
  BY DEF PlayRight
<1>1. q \in Positions /\ (q \in Stored <=> here \notin Stored) /\ NoEp(q)
  BY <1>0, PositionsAssumption DEF TablesRight, GameRight, Positions
<1>2. distances[q] \in Int /\ (Mated(q) <=> MateAt(zeroing, q))
  BY <1>0, <1>1, TableOf, LegalFacts
<1>3. Near(Earlier(-ProbeDTZ[q])) /\ ProbeDTZ[q] = ShownOf(q, distances[q])
  BY <1>0, <1>1, ShownNear
<1>4. Rule50 \in Int /\ cnt50 \in Int /\ visits[q] \in Int
  BY <1>1, PlayFacts, Limits
<1>5. DtzOfQuiet(q) = IF (cnt50 + 1 >= Rule50 /\ ~Mated(q)) \/ visits[q] >= 2 THEN 0
                      ELSE IF Mated(q) THEN 1 ELSE Earlier(-ProbeDTZ[q])
  BY DEF DtzOfQuiet
<1>6. Near(0) /\ Near(1)
  BY Limits DEF Near
<1>7. Near(DtzOfQuiet(q))
  BY <1>3, <1>5, <1>6
<1>8. RankOfQuiet(q) \in Int /\ RankOfQuiet(q) <= MAX_DTZ
  BY <1>7, PlayFacts, RankFacts DEF RankOfQuiet, RankOf, PlayRight
<1>9. distances[q] < 0 => Earlier(-ProbeDTZ[q]) = Shown(q, -distances[q]) + 1
  <2>1. ASSUME distances[q] < 0 PROVE Earlier(-ProbeDTZ[q]) = Shown(q, -distances[q]) + 1
    <3>1. -distances[q] \in Int /\ -distances[q] >= 1
      BY <1>2, <2>1
    <3>2. Shown(q, -distances[q]) \in Int /\ Shown(q, -distances[q]) >= 1
      BY <1>1, <3>1, ShownFacts
    <3>3. ProbeDTZ[q] = -Shown(q, -distances[q])
      BY <1>2, <1>3, <2>1 DEF ShownOf
    <3>4. -ProbeDTZ[q] = Shown(q, -distances[q])
      BY <3>2, <3>3
    <3>5. QED
      BY <3>2, <3>4, EarlierFacts
  <2>2. QED
    BY <2>1
<1>10. distances[q] >= 0 => ~(Earlier(-ProbeDTZ[q]) > 0)
  <2>1. CASE distances[q] > 0
    <3>1. Shown(q, distances[q]) \in Int /\ Shown(q, distances[q]) >= 1
      BY <1>1, <1>2, <2>1, ShownFacts
    <3>2. ProbeDTZ[q] = Shown(q, distances[q])
      BY <1>3, <2>1 DEF ShownOf
    <3>3. -ProbeDTZ[q] \in Int /\ -ProbeDTZ[q] < 0
      BY <3>1, <3>2
    <3>4. Earlier(-ProbeDTZ[q]) = -ProbeDTZ[q] - 1
      BY <3>3, EarlierFacts
    <3>5. QED
      BY <3>3, <3>4
  <2>2. CASE distances[q] = 0
    <3>1. ProbeDTZ[q] = 0
      BY <1>3, <2>2 DEF ShownOf
    <3>2. \A x \in Int : x <= 0 /\ x >= 0 => Earlier(-x) = 0
      BY DEF Earlier, sign_of
    <3>3. Earlier(-ProbeDTZ[q]) = 0
      BY <3>1, <3>2
    <3>4. QED
      BY <3>3
  <2>3. QED
    BY <1>2, <2>1, <2>2
<1>11. DtzOfQuiet(q) > 0 =>
         /\ visits[q] < 2
         /\ \/ Mated(q) /\ DtzOfQuiet(q) = 1
            \/ ~Mated(q) /\ distances[q] < 0 /\ DtzOfQuiet(q) = Shown(q, -distances[q]) + 1
  <2>1. ASSUME DtzOfQuiet(q) > 0 PROVE ~((cnt50 + 1 >= Rule50 /\ ~Mated(q)) \/ visits[q] >= 2)
    BY <1>5, <2>1
  <2>2. ASSUME DtzOfQuiet(q) > 0, ~Mated(q) PROVE distances[q] < 0
    <3>1. DtzOfQuiet(q) = Earlier(-ProbeDTZ[q])
      BY <1>5, <2>1, <2>2
    <3>2. QED
      BY <1>2, <1>10, <2>2, <3>1
  <2>3. QED
    BY <1>4, <1>5, <1>9, <2>1, <2>2
<1>12. QED
  BY <1>1, <1>2, <1>4, <1>5, <1>7, <1>8, <1>9, <1>11

LEMMA ZeroingMoves ==
  ASSUME PlayRight, NEW z \in zeroing[here]
  PROVE  /\ z.value \in WDL /\ z.value \in Int /\ Near(dtz_before_zeroing(z.value))
         /\ RankOfZeroing(z) \in Int /\ RankOfZeroing(z) <= MAX_DTZ
<1>1. z.value \in WDL /\ z.value \in Int
  BY TableOf DEF PlayRight
<1>2. Near(dtz_before_zeroing(z.value))
  BY <1>1, BeforeZeroing, Limits DEF Near, WDL, dtz_before_zeroing
<1>3. QED
  BY <1>1, <1>2, PlayFacts, RankFacts DEF RankOfZeroing, RankOf, PlayRight

\* No move is ranked above the highest rank.
LEMMA Highest ==
  ASSUME PlayRight
  PROVE  /\ \A q \in quiet[here] : RankOfQuiet(q) <= HighestRank
         /\ \A z \in zeroing[here] : RankOfZeroing(z) <= HighestRank
<1> DEFINE S == {RankOfQuiet(q) : q \in quiet[here]} \cup {RankOfZeroing(z) : z \in zeroing[here]}
<1>1. HighestRank = Max(S)
  BY DEF HighestRank
<1>2. \A x \in S : x \in Int /\ x <= MAX_DTZ
  BY QuietMoves, ZeroingMoves
<1>3. \A q \in quiet[here] : RankOfQuiet(q) \in S
  OBVIOUS
<1>4. \A z \in zeroing[here] : RankOfZeroing(z) \in S
  OBVIOUS
<1> HIDE DEF S
<1>5. S # {} => \A x \in S : x <= Max(S)
  <2>1. MAX_DTZ \in Int /\ S \subseteq Int
    BY <1>2, Limits
  <2>2. QED
    BY <1>2, <2>1, MaxOf
<1>6. QED
  BY <1>1, <1>3, <1>4, <1>5

\* The visits after a move to q.
Visited(q) == [visits EXCEPT ![q] = @ + 1]

LEMMA VisitedFacts ==
  ASSUME PlayRight, NEW q \in Positions
  PROVE  /\ Visited(q)[q] = visits[q] + 1
         /\ \A p \in Positions : p # q => Visited(q)[p] = visits[p]
         /\ visits[q] <= 2 => Visited(q) \in [Positions -> 0 .. 3]
<1>1. visits \in [Positions -> 0 .. 3]
  BY DEF PlayRight
<1>2. Visited(q)[q] = visits[q] + 1 /\ \A p \in Positions : p # q => Visited(q)[p] = visits[p]
  BY <1>1 DEF Visited
<1>3. ASSUME visits[q] <= 2 PROVE Visited(q) \in [Positions -> 0 .. 3]
  <2>1. visits[q] + 1 \in 0 .. 3
    BY <1>1, <1>3
  <2>2. QED
    BY <1>1, <2>1 DEF Visited
<1>4. QED
  BY <1>2, <1>3

\* A mate is lost in one ply.
LEMMA MateIs ==
  ASSUME NEW leaving, NEW d, Playable(leaving, d), NEW p \in Positions, MateAt(leaving, p)
  PROVE  d[p] = -1
<1>1. quiet[p] = {} /\ leaving[p] = {} /\ check[p]
  BY DEF MateAt, NoMoves
<1>2. AllLost(leaving, d, p)
  BY <1>1 DEF AllLost
<1>3. d[p] \in Int /\ SomeLoss(leaving, d, p, -d[p])
  BY <1>2, WellPlayedOf
<1>4. -d[p] = 1
  BY <1>1, <1>3 DEF SomeLoss
<1>5. QED
  BY <1>3, <1>4

\* Where the side to move wins in time: distances and what it may count on.
LEMMA WinnerFacts ==
  ASSUME PlayRight, NEW p \in Positions, NEW cnt \in Int, 0 <= cnt, NEW seen, WinnerAt(p, cnt, seen)
  PROVE  /\ distances[p] \in Int /\ 1 <= distances[p] /\ distances[p] + cnt <= Rule50 /\ distances[p] <= Rule50
         /\ Needs(p, distances[p]) \in Int /\ Needs(p, distances[p]) + cnt <= Rule50
<1>1. distances[p] \in Int /\ distances[p] > 0
  BY TableOf DEF PlayRight, WinnerAt
<1>2. Needs(p, distances[p]) \in Int /\ distances[p] <= Needs(p, distances[p])
  BY <1>1, NeedsFacts
<1>3. Needs(p, distances[p]) + cnt <= Rule50
  BY DEF WinnerAt
<1>4. QED
  BY <1>1, <1>2, <1>3, Limits

LEMMA LoserFacts ==
  ASSUME PlayRight, NEW p \in Positions, NEW cnt \in Int, 0 <= cnt, NEW seen, LoserAt(p, cnt, seen), ~Mated(p)
  PROVE  distances[p] \in Int /\ 1 <= -distances[p] /\ -distances[p] + cnt <= Rule50 /\ -distances[p] <= Rule50
<1>1. distances[p] \in Int /\ distances[p] < 0
  BY TableOf DEF PlayRight, LoserAt
<1>2. -distances[p] + cnt <= Rule50
  BY DEF LoserAt
<1>3. QED
  BY <1>1, <1>2, Limits

\* What the rank of the best move of all is.
Aim(a) ==
  /\ a \in Int /\ 0 < a /\ a <= distances[here] /\ RankOf(a) <= HighestRank
  /\ a = 1 \/ (distances[here] >= 2 /\ \E s \in quiet[here] : a = Shown(s, distances[here] - 1) + 1)

\* The winner has a move that is ranked as good play deserves.
LEMMA GoodMove ==
  ASSUME PlayRight, WinnerAt(here, cnt50, visits)
  PROVE  \E a : Aim(a)
<1> DEFINE D == distances[here]
<1>0. TablesRight /\ here \in Positions /\ cnt50 \in Int /\ 0 <= cnt50 /\ Rule50 \in Int
  BY PlayFacts, Limits DEF PlayRight
<1>1. D \in Int /\ 1 <= D /\ D + cnt50 <= Rule50 /\ D <= Rule50
  BY <1>0, WinnerFacts
<1>2. Playable(zeroing, distances)
  BY <1>0, TableOf
<1>3. SomeWin(zeroing, distances, here, D)
  BY <1>0, <1>1, <1>2, WellPlayedOf
<1> HIDE DEF D
<1>4. CASE \E z \in zeroing[here] : z.value > 0 /\ D = Costs(z.value)
  <2>1. PICK z \in zeroing[here] : z.value > 0 /\ D = Costs(z.value)
    BY <1>4
  <2>2. z.value \in WDL
    BY ZeroingMoves
  <2>3. z.value = 2
    BY <1>0, <1>1, <2>1, <2>2 DEF Costs, WDL
  <2>4. RankOfZeroing(z) = RankOf(1)
    BY <2>3 DEF RankOfZeroing, dtz_before_zeroing
  <2>5. RankOfZeroing(z) <= HighestRank
    BY Highest
  <2>6. Aim(1)
    BY <1>1, <2>4, <2>5 DEF Aim, D
  <2>7. QED
    BY <2>6
<1>5. CASE \E q \in quiet[here] : distances[q] < 0 /\ D = IF MateAt(zeroing, q) THEN 1 ELSE 1 - distances[q]
  <2>1. PICK q \in quiet[here] : distances[q] < 0 /\ D = IF MateAt(zeroing, q) THEN 1 ELSE 1 - distances[q]
    BY <1>5
  <2>2. q \in Positions /\ distances[q] \in Int /\ (Mated(q) <=> MateAt(zeroing, q)) /\ (q \in Stored <=> here \notin Stored)
    BY QuietMoves
  <2>3. visits[q] < 2
    <3>1. visits[q] \in Int /\ visits[q] <= 2 /\ (visits[q] = 2 => q = here \/ Plies(distances[q]) > D)
      BY <2>2, PlayFacts DEF WinnerAt, D
    <3>2. q # here
      BY <2>2
    <3>3. CASE MateAt(zeroing, q)
      <4>1. distances[q] = -1
        BY <1>0, <1>2, <2>1, <2>2, <3>3, MateIs
      <4>2. Plies(distances[q]) <= 1 /\ Plies(distances[q]) \in Int
        <5>1. distances[q] \in Int /\ distances[q] < 0 /\ distances[q] >= -1
          BY <4>1
        <5>2. QED
          BY <5>1 DEF Plies
      <4>3. QED
        BY <1>1, <3>1, <3>2, <4>2
    <3>4. CASE ~MateAt(zeroing, q)
      <4>1. D = 1 - distances[q]
        BY <2>1, <3>4
      <4>2. Plies(distances[q]) = -distances[q]
        BY <2>1, <2>2 DEF Plies
      <4>3. QED
        BY <1>1, <2>1, <2>2, <3>1, <3>2, <4>1, <4>2
    <3>5. QED
      BY <3>3, <3>4
  <2>4. RankOfQuiet(q) <= HighestRank /\ RankOfQuiet(q) = RankOf(DtzOfQuiet(q))
    BY Highest DEF RankOfQuiet
  <2>5. CASE Mated(q)
    <3>1. DtzOfQuiet(q) = 1
      BY <2>3, <2>5, QuietMoves
    <3>2. Aim(1)
      BY <1>1, <2>4, <3>1 DEF Aim, D
    <3>3. QED
      BY <3>2
  <2>6. CASE ~Mated(q)
    <3>1. D = 1 - distances[q]
      BY <2>1, <2>2, <2>6
    <3>2. D >= 2 /\ cnt50 + 1 < Rule50 /\ -distances[q] = D - 1
      BY <1>0, <1>1, <2>1, <2>2, <3>1
    <3>3. DtzOfQuiet(q) = Shown(q, -distances[q]) + 1
      BY <2>1, <2>3, <2>6, <3>2, QuietMoves
    <3>4. DtzOfQuiet(q) = Shown(q, D - 1) + 1
      BY <3>2, <3>3
    <3>5. Shown(q, D - 1) \in Int /\ Shown(q, D - 1) >= 1 /\ Shown(q, D - 1) <= D - 1
      <4>1. D - 1 \in Int /\ D - 1 >= 1
        BY <1>1, <3>2
      <4>2. QED
        BY <2>2, <4>1, ShownFacts
    <3>6. DtzOfQuiet(q) \in Int /\ 0 < DtzOfQuiet(q) /\ DtzOfQuiet(q) <= D
      BY <1>1, <3>4, <3>5
    <3>7. Aim(DtzOfQuiet(q))
      BY <2>4, <3>2, <3>4, <3>6 DEF Aim, D
    <3>8. QED
      BY <3>7
  <2>7. QED
    BY <2>5, <2>6
<1>6. QED
  BY <1>3, <1>4, <1>5 DEF SomeWin

\* What a move of the highest rank is worth.
LEMMA RankedBest ==
  ASSUME PlayRight, WinnerAt(here, cnt50, visits), NEW a, Aim(a), NEW b, Near(b), RankOf(b) = HighestRank
  PROVE  b > 0 /\ ((b + cnt50 <= Rule50 - 1 /\ ~Repeated) \/ b <= a)
<1>1. /\ a \in Int /\ 0 < a /\ a <= distances[here] /\ cnt50 \in Int /\ 0 <= cnt50 /\ cnt50 <= Rule50
      /\ Repeated \in BOOLEAN /\ rankDTZ \in BOOLEAN /\ here \in Positions
  BY PlayFacts DEF Aim, PlayRight
<1>2. a <= Rule50
  <2>1. distances[here] \in Int /\ distances[here] <= Rule50
    BY <1>1, WinnerFacts
  <2>2. QED
    BY <1>1, <2>1, Limits
<1>3. Rank(b, cnt50, Repeated, rankDTZ) >= Rank(a, cnt50, Repeated, rankDTZ)
  <2>1. RankOf(a) <= RankOf(b)
    BY DEF Aim
  <2>2. Near(a)
    BY <1>1, <1>2, Limits DEF Near
  <2>3. Rank(a, cnt50, Repeated, rankDTZ) \in Int /\ Rank(b, cnt50, Repeated, rankDTZ) \in Int
    BY <1>1, <2>2, RankFacts
  <2>4. QED
    BY <2>1, <2>3 DEF RankOf
<1> DEFINE rep == Repeated
<1>4. rep \in BOOLEAN /\ Rank(b, cnt50, rep, rankDTZ) >= Rank(a, cnt50, rep, rankDTZ)
  BY <1>1, <1>3
<1> HIDE DEF rep
<1>5. b > 0 /\ ((b + cnt50 <= Rule50 - 1 /\ ~rep) \/ b <= a)
  BY <1>1, <1>2, <1>4, RankedAsHigh
<1>6. QED
  BY <1>5 DEF rep

\* A move of the highest rank keeps the win.
LEMMA WinnerMove ==
  ASSUME PlayRight, WinnerAt(here, cnt50, visits), NEW q \in BestQuiet
  PROVE  q \in Positions /\ LoserAt(q, cnt50 + 1, Visited(q)) /\ visits[q] <= 2
<1> DEFINE D == distances[here]  b == DtzOfQuiet(q)  x == -distances[q]  seen == Visited(q)
<1>0. /\ TablesRight /\ here \in Positions /\ cnt50 \in Int /\ 0 <= cnt50 /\ cnt50 <= Rule50 /\ Rule50 \in Int
      /\ q \in quiet[here] /\ RankOf(b) = HighestRank /\ Playable(zeroing, distances)
  BY PlayFacts, Limits, TableOf DEF PlayRight, BestQuiet, RankOfQuiet
<1>1. D \in Int /\ 1 <= D /\ D + cnt50 <= Rule50 /\ D <= Rule50 /\ Needs(here, D) \in Int /\ Needs(here, D) + cnt50 <= Rule50
  BY <1>0, WinnerFacts
<1>2. /\ q \in Positions /\ distances[q] \in Int /\ (Mated(q) <=> MateAt(zeroing, q)) /\ (q \in Stored <=> here \notin Stored)
      /\ Near(b)
  BY <1>0, QuietMoves
<1>3. PICK a : Aim(a)
  BY GoodMove
<1>4. b > 0 /\ ((b + cnt50 <= Rule50 - 1 /\ ~Repeated) \/ b <= a)
  BY <1>0, <1>2, <1>3, RankedBest
<1>5. visits[q] < 2 /\ (Mated(q) \/ (~Mated(q) /\ distances[q] < 0 /\ b = Shown(q, x) + 1))
  BY <1>0, <1>4, QuietMoves
<1>6. /\ visits[q] \in Int /\ seen[q] = visits[q] + 1 /\ \A p \in Positions : p # q => seen[p] = visits[p]
      /\ \A p \in Positions : visits[p] \in Int
  BY <1>2, VisitedFacts, PlayFacts
<1>7. CASE Mated(q)
  <2>1. distances[q] = -1
    BY <1>0, <1>2, <1>7, MateIs
  <2>2. LoserAt(q, cnt50 + 1, seen)
    BY <1>2, <1>7, <2>1 DEF LoserAt
  <2>3. QED
    BY <1>2, <1>5, <1>6, <2>2
<1>8. CASE ~Mated(q)
  <2>1. distances[q] < 0 /\ b = Shown(q, x) + 1 /\ x \in Int /\ x >= 1
    BY <1>2, <1>5, <1>8
  <2>2. x >= D - 1
    <3>1. LeastWin(zeroing, distances, here, D)
      BY <1>0, <1>1, WellPlayedOf
    <3>2. D <= 1 - distances[q]
      BY <1>0, <1>2, <1>8, <2>1, <3>1 DEF LeastWin
    <3>3. QED
      BY <1>1, <1>2, <3>2
  <2>3. Shown(q, x) \in Int /\ Shown(q, x) >= 1 /\ x - 1 <= Shown(q, x)
    BY <1>2, <2>1, ShownFacts
  <2>4. \A r \in quiet[q] : r \in Positions /\ (q \in Stored <=> r \notin Stored)
    BY <1>0, <1>2, PositionsAssumption DEF TablesRight, GameRight, Positions
  <2>5. \A p \in Positions : visits[p] <= 2 /\ (visits[p] = 2 => p = here \/ Plies(distances[p]) > D)
    BY DEF WinnerAt
  <2> HIDE DEF b, x, seen
  <2>6. x \in Int /\ -distances[q] = x /\ distances[q] < 0
    BY <2>1 DEF x
  <2>7. CASE b + cnt50 <= Rule50 - 1 /\ ~Repeated
    <3>1. x + (cnt50 + 1) <= Rule50
      BY <1>0, <2>1, <2>3, <2>7
    <3>2. ASSUME x > 1, NEW r \in quiet[q] PROVE Needs(r, x - 1) + (cnt50 + 1) + 1 <= Rule50
      <4>1. x >= 2 /\ x <= Rule50 /\ x - 1 \in Int /\ x - 1 >= 1
        BY <1>0, <2>6, <3>1, <3>2
      <4>2. Needs(r, x - 1) <= Shown(q, x) /\ Needs(r, x - 1) \in Int
        BY <1>2, <2>4, <2>6, <4>1, ShownIsNeeded, NeedsFacts
      <4>3. QED
        BY <1>0, <2>1, <2>3, <2>7, <4>2
    <3>3. \A p \in Positions : seen[p] <= 2 /\ (seen[p] = 2 => p = q)
      <4>1. \A p \in Positions : visits[p] \in Int /\ ~(visits[p] >= 2)
        BY <1>6, <2>7 DEF Repeated
      <4>2. QED
        BY <1>6, <4>1
    <3>4. LoserAt(q, cnt50 + 1, seen)
      BY <2>6, <3>1, <3>2, <3>3 DEF LoserAt
    <3>5. QED
      BY <1>2, <1>5, <1>6, <3>4 DEF seen
  <2>8. CASE b <= a
    <3>1. a # 1
      <4>1. b >= 2 /\ b \in Int
        BY <2>1, <2>3
      <4>2. QED
        BY <2>8, <4>1
    <3>2. D >= 2 /\ \E s \in quiet[here] : a = Shown(s, D - 1) + 1
      BY <1>3, <3>1 DEF Aim
    <3>3. PICK s \in quiet[here] : a = Shown(s, D - 1) + 1
      BY <3>2
    <3>4. s \in Positions /\ (s \in Stored <=> q \in Stored)
      BY <1>2, QuietMoves
    <3>5. Shown(q, x) <= Shown(s, D - 1)
      <4>1. D - 1 \in Int /\ D - 1 >= 1
        BY <1>1, <3>2
      <4>2. Shown(s, D - 1) \in Int
        BY <3>4, <4>1, ShownFacts
      <4>3. QED
        BY <2>1, <2>3, <2>8, <3>3, <4>2
    <3> DEFINE h == here  d == D
    <3>6. /\ h \in Positions /\ d \in Int /\ d >= 2 /\ d <= Rule50 /\ Needs(h, d) \in Int /\ Needs(h, d) + cnt50 <= Rule50
          /\ (q \in Stored <=> h \notin Stored) /\ Shown(q, x) <= Shown(s, d - 1) /\ x >= d - 1 /\ x >= 1
      BY <1>0, <1>1, <1>2, <2>1, <2>2, <3>2, <3>5
    <3> HIDE DEF h, d
    <3>7. ASSUME NEW r \in Positions, r \in Stored <=> h \in Stored
          PROVE  x <= d /\ x + 1 <= Needs(h, d) /\ (x > 1 => Needs(r, x - 1) <= Needs(h, d) - 2)
      BY <1>2, <2>6, <3>4, <3>6, <3>7, ShortEnough
    <3>8. x <= d /\ x + 1 <= Needs(h, d)
      BY <3>6, <3>7
    <3>9. x + (cnt50 + 1) <= Rule50
      BY <1>0, <2>6, <3>6, <3>8
    <3>10. ASSUME x > 1, NEW r \in quiet[q] PROVE Needs(r, x - 1) + (cnt50 + 1) + 1 <= Rule50
      <4>1. Needs(r, x - 1) <= Needs(h, d) - 2
        BY <1>2, <2>4, <3>6, <3>7, <3>10
      <4>2. Needs(r, x - 1) \in Int
        <5>1. x - 1 \in Int /\ x - 1 >= 1
          BY <2>6, <3>10
        <5>2. QED
          BY <2>4, <5>1, NeedsFacts
      <4>3. QED
        BY <1>0, <3>6, <4>1, <4>2
    <3>11. ASSUME NEW p \in Positions
           PROVE  seen[p] <= 2 /\ (seen[p] = 2 => p = q \/ Plies(distances[p]) > x \/ distances[p] = x)
      <4>1. CASE p = q
        BY <1>5, <1>6, <4>1 DEF seen
      <4>2. CASE p # q
        <5>1. seen[p] = visits[p] /\ visits[p] \in Int
          BY <1>6, <4>2 DEF seen
        <5>2. CASE p = h
          <6>1. distances[p] = d /\ Plies(distances[p]) = d
            BY <3>6, <5>2 DEF Plies, h, d
          <6>2. Plies(distances[p]) > x \/ distances[p] = x
            BY <2>6, <3>6, <3>8, <6>1
          <6>3. QED
            BY <2>5, <5>1, <6>2
        <5>3. CASE p # h
          <6>1. visits[p] = 2 => Plies(distances[p]) > d
            BY <2>5, <5>3 DEF h, d
          <6>2. Plies(distances[p]) \in Int
            <7>1. distances[p] \in Int
              BY <1>0, TableOf
            <7>2. QED
              BY <7>1 DEF Plies
          <6>3. visits[p] = 2 => Plies(distances[p]) > x
            BY <2>6, <3>6, <3>8, <6>1, <6>2
          <6>4. QED
            BY <2>5, <5>1, <6>3
        <5>4. QED
          BY <5>2, <5>3
      <4>3. QED
        BY <4>1, <4>2
    <3>12. LoserAt(q, cnt50 + 1, seen)
      BY <2>6, <3>9, <3>10, <3>11 DEF LoserAt
    <3>13. QED
      BY <1>2, <1>5, <1>6, <3>12 DEF seen
  <2>9. QED
    BY <1>4, <2>7, <2>8
<1>9. QED
  BY <1>7, <1>8

\* One that zeroes wins.
LEMMA WinnerLeaves ==
  ASSUME PlayRight, WinnerAt(here, cnt50, visits), NEW z \in BestZeroing
  PROVE  z.value = 2
<1> DEFINE b == dtz_before_zeroing(z.value)
<1>0. z \in zeroing[here] /\ RankOf(b) = HighestRank /\ here \in Positions
      /\ cnt50 \in Int /\ 0 <= cnt50 /\ cnt50 <= Rule50 /\ Rule50 \in Int /\ Rule50 >= 2
  BY PlayFacts, Limits DEF PlayRight, BestZeroing, RankOfZeroing
<1>1. z.value \in WDL /\ z.value \in Int /\ Near(b)
  BY <1>0, ZeroingMoves
<1>2. PICK a : Aim(a)
  BY GoodMove
<1>3. b > 0 /\ ((b + cnt50 <= Rule50 - 1 /\ ~Repeated) \/ b <= a)
  BY <1>0, <1>1, <1>2, RankedBest
<1>4. a \in Int /\ a <= Rule50
  <2>1. distances[here] \in Int /\ distances[here] <= Rule50
    BY <1>0, WinnerFacts
  <2>2. QED
    BY <1>0, <1>2, <2>1 DEF Aim
<1>5. b # Rule50 + 1
  BY <1>0, <1>3, <1>4
<1>6. b > 0 => z.value = 2 \/ z.value = 1
  BY <1>0, <1>1 DEF dtz_before_zeroing, WDL
<1>7. z.value # 1
  BY <1>5 DEF dtz_before_zeroing
<1>8. QED
  BY <1>3, <1>6, <1>7

\* Whatever the loser plays.
LEMMA LoserMove ==
  ASSUME PlayRight, LoserAt(here, cnt50, visits), NEW q \in quiet[here]
  PROVE  q \in Positions /\ WinnerAt(q, cnt50 + 1, Visited(q)) /\ visits[q] <= 2
<1> DEFINE d == -distances[here]  y == distances[q]  seen == Visited(q)
<1>0. TablesRight /\ here \in Positions /\ cnt50 \in Int /\ 0 <= cnt50 /\ Rule50 \in Int /\ Playable(zeroing, distances)
  BY PlayFacts, Limits, TableOf DEF PlayRight
<1>1. q \in Positions /\ y \in Int /\ (q \in Stored <=> here \notin Stored)
  BY QuietMoves
<1>2. ~Mated(here)
  <2>1. Mated(here) <=> MateAt(zeroing, here)
    BY <1>0, TableOf, LegalFacts
  <2>2. QED
    BY <2>1 DEF MateAt, NoMoves
<1>3. d \in Int /\ 1 <= d /\ d <= Rule50 /\ distances[here] \in Int /\ distances[here] < 0
  BY <1>0, <1>2, LoserFacts DEF LoserAt
<1>4. 0 < y /\ y <= d - 1
  <2>1. AllLost(zeroing, distances, here) /\ MostLoss(zeroing, distances, here, d)
    BY <1>0, <1>3, WellPlayedOf
  <2>2. QED
    BY <1>1, <1>3, <2>1 DEF AllLost, MostLoss
<1>5. Needs(q, d - 1) + cnt50 + 1 <= Rule50
  BY <1>1, <1>2, <1>3, <1>4 DEF LoserAt
<1>6. /\ seen[q] = visits[q] + 1 /\ \A p \in Positions : p # q => seen[p] = visits[p]
      /\ \A p \in Positions : visits[p] \in Int
  BY <1>1, VisitedFacts, PlayFacts
<1>7. \A p \in Positions : visits[p] <= 2 /\ (visits[p] = 2 => p = here \/ Plies(distances[p]) > d \/ distances[p] = d)
  BY <1>2 DEF LoserAt
<1>8. \A p \in Positions : visits[p] = 2 => Plies(distances[p]) > y
  <2>1. ASSUME NEW p \in Positions, visits[p] = 2 PROVE Plies(distances[p]) > y
    <3>1. distances[p] \in Int /\ Plies(distances[p]) \in Int
      <4>1. distances[p] \in Int
        BY <1>0, TableOf
      <4>2. QED
        BY <4>1 DEF Plies
    <3>2. p = here \/ distances[p] = d => Plies(distances[p]) = d
      BY <1>3 DEF Plies
    <3>3. QED
      BY <1>1, <1>3, <1>4, <1>7, <2>1, <3>1, <3>2
  <2>2. QED
    BY <2>1
<1>9. visits[q] # 2
  <2>1. Plies(distances[q]) = y
    BY <1>1, <1>4 DEF Plies
  <2>2. QED
    BY <1>1, <1>8, <2>1
<1> HIDE DEF seen, y, d
<1>10. \A p \in Positions : seen[p] <= 2 /\ (seen[p] = 2 => p = q \/ Plies(distances[p]) > y)
  BY <1>1, <1>6, <1>7, <1>8, <1>9
<1>11. Needs(q, y) + (cnt50 + 1) <= Rule50
  <2>1. d - 1 \in Int /\ d - 1 >= 1 /\ y >= 1 /\ y <= d - 1
    BY <1>1, <1>3, <1>4
  <2>2. Needs(q, y) <= Needs(q, d - 1) /\ Needs(q, y) \in Int /\ Needs(q, d - 1) \in Int
    BY <1>1, <2>1, NeedsAscend, NeedsFacts
  <2>3. QED
    BY <1>0, <1>5, <2>2
<1>12. WinnerAt(q, cnt50 + 1, seen)
  BY <1>1, <1>4, <1>10, <1>11 DEF WinnerAt, y
<1>13. QED
  BY <1>1, <1>7, <1>12 DEF seen

LEMMA LoserLeaves ==
  ASSUME PlayRight, LoserAt(here, cnt50, visits), NEW z \in zeroing[here]
  PROVE  z.value = -2
<1> DEFINE d == -distances[here]
<1>0. here \in Positions /\ cnt50 \in Int /\ 0 <= cnt50 /\ Rule50 \in Int /\ Playable(zeroing, distances)
  BY PlayFacts, Limits, TableOf DEF PlayRight
<1>1. z.value \in WDL /\ z.value \in Int
  BY ZeroingMoves
<1>2. ~Mated(here)
  <2>1. Mated(here) <=> MateAt(zeroing, here)
    BY <1>0, TableOf, LegalFacts DEF PlayRight
  <2>2. QED
    BY <2>1 DEF MateAt, NoMoves
<1>3. d \in Int /\ d <= Rule50 /\ distances[here] < 0
  BY <1>0, <1>2, LoserFacts DEF LoserAt
<1>4. z.value < 0 /\ Costs(z.value) <= d
  BY <1>0, <1>3, WellPlayedOf DEF AllLost, MostLoss
<1>5. z.value # -1
  BY <1>0, <1>3, <1>4 DEF Costs
<1>6. QED
  BY <1>1, <1>4, <1>5 DEF WDL

-----------------------------------------------------------------------------
(* The invariant, and that every step keeps it.                            *)

TBPInv ==
  /\ GameRight /\ TBPTypeOK /\ rankDTZ \in BOOLEAN
  /\ phase # "game" => TablesAreRight
  /\ phase \in {"game", "tables"} => \A p \in Positions : visits[p] = 0
  /\ phase = "winner" => WinnerAt(here, cnt50, visits)
  /\ phase = "loser" => LoserAt(here, cnt50, visits)
  /\ phase = "left" => certain

\* After Generate the game and its tables stay as they are.
SameGame == UNCHANGED <<quiet, zeroing, check>>
SameTables == UNCHANGED <<quiet, zeroing, check, distances, wdlTable, dtzTable, inPlies>>

LEMMA GameKept == GameRight /\ SameGame => GameRight'
BY DEF GameRight, SameGame, NoEp, NoMoves

LEMMA TablesKept == TablesAreRight /\ SameTables => TablesAreRight'
<1>1. ASSUME SameTables PROVE UNCHANGED <<quiet, zeroing, check, distances, wdlTable, dtzTable, inPlies>>
  BY <1>1 DEF SameTables
<1>2. ASSUME SameTables, WellPlayed(zeroing, distances) PROVE WellPlayed(zeroing, distances)'
  BY <1>1, <1>2 DEF WellPlayed, LeastWin, SomeWin, AllLost, MostLoss, SomeLoss, MateAt, NoMoves
<1>3. ASSUME SameTables, TableRight PROVE TableRight'
  BY <1>1, <1>3 DEF TableRight, OnlyEp
<1>4. ASSUME SameTables, EdgeInPlies PROVE EdgeInPlies'
  BY <1>1, <1>4 DEF EdgeInPlies, NoEp
<1>5. ASSUME SameTables, Supported PROVE Supported'
  BY <1>1, <1>5 DEF Supported
<1>7. ASSUME SameTables, DistancesRight PROVE DistancesRight'
  BY <1>1, <1>7 DEF DistancesRight, NoEp
<1>6. QED
  BY <1>2, <1>3, <1>4, <1>5, <1>7 DEF TablesAreRight

LEMMA WinnerNext ==
  ASSUME SameTables, NEW p, NEW cnt, NEW seen, WinnerAt(p, cnt, seen), here' = p, cnt50' = cnt, visits' = seen
  PROVE  WinnerAt(here, cnt50, visits)'
BY DEF WinnerAt, Needs, Plies, SameTables

LEMMA LoserNext ==
  ASSUME SameTables, NEW p, NEW cnt, NEW seen, LoserAt(p, cnt, seen), here' = p, cnt50' = cnt, visits' = seen
  PROVE  LoserAt(here, cnt50, visits)'
BY DEF LoserAt, Needs, Plies, Mated, Legal, SameTables

LEMMA PlayOf == TBPInv /\ phase # "game" => PlayRight
BY DEF TBPInv, TBPTypeOK, PlayRight, TablesRight

LEMMA PrimesOfType ==
  ASSUME TBPTypeOK, UNCHANGED <<wdlTable, dtzTable, distances>>, phase' \in {"game", "tables", "winner", "loser", "left"},
         here' \in Positions, cnt50' \in 0 .. Rule50, visits' \in [Positions -> 0 .. 3], certain' \in BOOLEAN
  PROVE  TBPTypeOK'
BY DEF TBPTypeOK

LEMMA FirstRight == TBPInit => TBPInv
<1> SUFFICES ASSUME TBPInit PROVE TBPInv
  OBVIOUS
<1>1. PICK g \in Games : quiet = g.quiet /\ zeroing = g.zeroing
  BY DEF TBPInit
<1>2. /\ quiet \in [Positions -> SUBSET Positions] /\ zeroing \in [Positions -> SUBSET Zeroing]
      /\ \A p \in Positions : quiet[p] \subseteq (IF p \in Stored THEN Other ELSE Stored)
      /\ \A p, q \in Positions : q \in quiet[p] => NoEp(q)
  BY <1>1, GamesAssumption DEF NoEp
<1>3. PICK mates \in BOOLEAN : check = [p \in Positions |-> mates /\ Legal(p) = 0]
  BY DEF TBPInit
<1>4. \A p \in Positions : check[p] => NoMoves(zeroing, p)
  <2>1. \A p \in Positions : check[p] = (mates /\ Legal(p) = 0)
    BY <1>3
  <2>2. ASSUME NEW p \in Positions, check[p] PROVE Legal(p) = 0
    BY <2>1, <2>2, Zenon
  <2>3. QED
    BY <1>2, <2>2, LegalFacts
<1>5. GameRight
  BY <1>2, <1>4 DEF GameRight
<1>6. /\ distances = [p \in Positions |-> 0] /\ wdlTable = [p \in Positions |-> 0] /\ dtzTable = distances /\ phase = "game" /\ cnt50 = 0
      /\ rankDTZ = FALSE /\ certain = FALSE /\ visits = [p \in Positions |-> 0] /\ here = (CHOOSE p \in Positions : TRUE)
  BY DEF TBPInit
<1>7. here \in Positions
  BY <1>6, PositionsAssumption DEF Positions
<1>8. TBPTypeOK
  <2>1. 0 \in WDL /\ 0 \in -MaxDistance .. MaxDistance /\ 0 \in 0 .. Rule50 /\ 0 \in 0 .. 3
    BY Bounds DEF WDL
  <2>2. wdlTable \in [Positions -> WDL] /\ distances \in [Positions -> -MaxDistance .. MaxDistance] /\ dtzTable = distances
        /\ visits \in [Positions -> 0 .. 3]
    BY <1>6, <2>1
  <2>3. QED
    BY <1>6, <1>7, <2>1, <2>2 DEF TBPTypeOK
<1>9. QED
  BY <1>5, <1>6, <1>8 DEF TBPInv

LEMMA KeptByGenerate == TBPInv /\ Generate => TBPInv'
<1> SUFFICES ASSUME TBPInv, Generate PROVE TBPInv'
  OBVIOUS
<1>1. /\ GameRight /\ phase = "game" /\ phase' = "tables" /\ TBPTypeOK
      /\ UNCHANGED <<quiet, zeroing, check, here, cnt50, visits, rankDTZ, certain>>
  BY DEF TBPInv, Generate
<1>2. TablesAreRight'
  BY <1>1, GenerateIsRight
<1>3. GameRight'
  BY <1>1, GameKept DEF SameGame
<1>4. distances' \in [Positions -> -MaxDistance .. MaxDistance]
  BY <1>2 DEF TablesAreRight, WellPlayed
<1>5. wdlTable' \in [Positions -> WDL]
  <2>1. \A p \in Positions : wdlTable'[p] \in WDL
    BY <1>2 DEF TablesAreRight, TableRight
  <2>2. \E filler \in WDL : wdlTable' = [p \in Positions |-> IF filler \in Storable(p, ValueOf(Analysis(WithoutEp)[p])) THEN filler ELSE ValueOf(Analysis(WithoutEp)[p])]
    BY DEF Generate
  <2>3. PICK f : wdlTable' = [p \in Positions |-> f[p]]
    <3>1. PICK filler \in WDL : wdlTable' = [p \in Positions |-> IF filler \in Storable(p, ValueOf(Analysis(WithoutEp)[p])) THEN filler ELSE ValueOf(Analysis(WithoutEp)[p])]
      BY <2>2
    <3>2. wdlTable' = [p \in Positions |-> wdlTable'[p]]
      BY <3>1
    <3>3. QED
      BY <3>2
  <2>4. QED
    BY <2>1, <2>3
<1>9. dtzTable' \in [Positions -> -MaxDistance .. MaxDistance]
  <2>1. IsLeaving(WithoutEp) /\ dtzTable' = Analysis(WithoutEp)
    BY <1>1 DEF IsLeaving, WithoutEp, GameRight, Generate
  <2>2. QED
    BY <2>1, AnalysisIsRetrograde DEF Retrograde
<1>6. TBPTypeOK'
  BY <1>1, <1>4, <1>5, <1>9 DEF TBPTypeOK
<1>7. rankDTZ' \in BOOLEAN /\ \A p \in Positions : visits'[p] = 0
  BY <1>1 DEF TBPInv
<1>8. QED
  BY <1>1, <1>2, <1>3, <1>6, <1>7 DEF TBPInv

LEMMA KeptByRoot ==
  ASSUME TBPInv, NEW p \in Positions, NEW count \in 0 .. Rule50 - 1, NEW byDTZ \in BOOLEAN, SetRoot(p, count, byDTZ)
  PROVE  TBPInv'
<1>1. /\ GameRight /\ TBPTypeOK /\ TablesAreRight /\ phase = "tables" /\ phase' = "winner" /\ here' = p /\ cnt50' = count
      /\ rankDTZ' = byDTZ /\ certain' = TRUE /\ visits' = [visits EXCEPT ![p] = 1] /\ \A q \in Positions : visits[q] = 0
      /\ SameTables
  BY DEF TBPInv, SetRoot, SameTables
<1>2. distances[p] > 0 /\ distances[p] + count <= Rule50 - 1
  BY DEF SetRoot
<1>3. Rule50 \in Int /\ count \in Int /\ 0 <= count /\ count <= Rule50 /\ count \in 0 .. Rule50
  BY Limits
<1>4. distances[p] \in Int
  BY <1>1, TableOf DEF TablesRight
<1>5. visits \in [Positions -> 0 .. 3]
  BY <1>1 DEF TBPTypeOK
<1>6. visits' \in [Positions -> 0 .. 3] /\ \A q \in Positions : visits'[q] <= 1 /\ visits'[q] \in Int
  <2>1. 1 \in 0 .. 3
    OBVIOUS
  <2>2. visits' \in [Positions -> 0 .. 3]
    BY <1>1, <1>5, <2>1
  <2>3. \A q \in Positions : visits'[q] = IF q = p THEN 1 ELSE 0
    BY <1>1, <1>5
  <2>4. QED
    BY <2>2, <2>3
<1>7. WinnerAt(p, count, visits')
  <2>1. Needs(p, distances[p]) \in Int /\ Needs(p, distances[p]) <= distances[p] + 1
    BY <1>2, <1>4, NeedsFacts
  <2>2. Needs(p, distances[p]) + count <= Rule50
    BY <1>2, <1>3, <1>4, <2>1
  <2>3. \A q \in Positions : visits'[q] <= 2 /\ visits'[q] # 2
    BY <1>6
  <2>4. QED
    BY <1>2, <2>2, <2>3 DEF WinnerAt
<1>8. WinnerAt(here, cnt50, visits)'
  <2> DEFINE seen == visits'
  <2>1. WinnerAt(p, count, seen) /\ visits' = seen
    BY <1>7
  <2> HIDE DEF seen
  <2>2. QED
    BY <1>1, <2>1, WinnerNext
<1>9. GameRight' /\ TablesAreRight'
  BY <1>1, GameKept, TablesKept DEF SameGame, SameTables
<1>10. TBPTypeOK'
  BY <1>1, <1>3, <1>6, PrimesOfType DEF SameTables
<1>11. rankDTZ' \in BOOLEAN
  BY <1>1
<1>12. QED
  BY <1>1, <1>8, <1>9, <1>10, <1>11 DEF TBPInv

\* A quiet move of either side.
LEMMA KeptByMove ==
  ASSUME TBPInv, phase \in {"winner", "loser"}, InPlay, NEW q \in Positions, Move(q), visits[q] <= 2,
         phase' = "winner" => WinnerAt(q, cnt50 + 1, Visited(q)),
         phase' = "loser" => LoserAt(q, cnt50 + 1, Visited(q)),
         phase' \in {"winner", "loser"}
  PROVE  TBPInv'
<1>1. /\ GameRight /\ TBPTypeOK /\ TablesAreRight /\ rankDTZ \in BOOLEAN /\ PlayRight
  BY PlayOf DEF TBPInv
<1>2. /\ here' = q /\ cnt50' = cnt50 + 1 /\ visits' = Visited(q) /\ SameTables
      /\ UNCHANGED <<rankDTZ, certain>>
  BY DEF Move, Visited, SameTables
<1>3. GameRight' /\ TablesAreRight'
  BY <1>1, <1>2, GameKept, TablesKept DEF SameGame, SameTables
<1>4. cnt50' \in 0 .. Rule50
  <2>1. cnt50 \in Int /\ 0 <= cnt50 /\ cnt50 < Rule50 /\ Rule50 \in Int
    BY <1>1, PlayFacts, Limits DEF InPlay
  <2>2. QED
    BY <1>2, <2>1
<1>5. visits' \in [Positions -> 0 .. 3]
  BY <1>1, <1>2, VisitedFacts
<1>6. TBPTypeOK'
  <2>1. certain' \in BOOLEAN
    BY <1>1, <1>2 DEF TBPTypeOK
  <2>2. QED
    BY <1>1, <1>2, <1>4, <1>5, <2>1, PrimesOfType DEF SameTables
<1>7. phase' = "winner" => WinnerAt(here, cnt50, visits)'
  <2> DEFINE c == cnt50 + 1  s == Visited(q)
  <2>1. cnt50' = c /\ visits' = s /\ (phase' = "winner" => WinnerAt(q, c, s))
    BY <1>2
  <2> HIDE DEF c, s
  <2>2. QED
    BY <1>2, <2>1, WinnerNext
<1>8. phase' = "loser" => LoserAt(here, cnt50, visits)'
  <2> DEFINE c == cnt50 + 1  s == Visited(q)
  <2>1. cnt50' = c /\ visits' = s /\ (phase' = "loser" => LoserAt(q, c, s))
    BY <1>2
  <2> HIDE DEF c, s
  <2>2. QED
    BY <1>2, <2>1, LoserNext
<1>9. rankDTZ' \in BOOLEAN
  BY <1>1, <1>2
<1>10. QED
  BY <1>3, <1>6, <1>7, <1>8, <1>9 DEF TBPInv

LEMMA KeptByLeaving ==
  ASSUME TBPInv, phase \in {"winner", "loser"}, Leave(TRUE)
  PROVE  TBPInv'
<1>1. GameRight /\ TBPTypeOK /\ TablesAreRight /\ rankDTZ \in BOOLEAN
  BY DEF TBPInv
<1>2. phase' = "left" /\ certain' = TRUE /\ SameTables /\ UNCHANGED <<here, cnt50, visits, rankDTZ>>
  BY DEF Leave, SameTables
<1>3. GameRight' /\ TablesAreRight'
  BY <1>1, <1>2, GameKept, TablesKept DEF SameGame, SameTables
<1>4. TBPTypeOK'
  BY <1>1, <1>2 DEF TBPTypeOK, SameTables
<1>5. rankDTZ' \in BOOLEAN
  BY <1>1, <1>2
<1>6. QED
  BY <1>2, <1>3, <1>4, <1>5 DEF TBPInv

LEMMA KeptByWinner == TBPInv /\ WinnerMoves => TBPInv'
<1> SUFFICES ASSUME TBPInv, WinnerMoves PROVE TBPInv'
  OBVIOUS
<1>1. phase = "winner" /\ InPlay /\ WinnerAt(here, cnt50, visits) /\ PlayRight
  BY PlayOf DEF WinnerMoves, TBPInv
<1>2. CASE \E q \in BestQuiet : Move(q) /\ phase' = "loser"
  <2>1. PICK q \in BestQuiet : Move(q) /\ phase' = "loser"
    BY <1>2
  <2>2. q \in Positions /\ LoserAt(q, cnt50 + 1, Visited(q)) /\ visits[q] <= 2
    BY <1>1, WinnerMove
  <2>3. QED
    BY <1>1, <2>1, <2>2, KeptByMove
<1>3. CASE \E z \in BestZeroing : Leave(z.value = 2)
  <2>1. PICK z \in BestZeroing : Leave(z.value = 2)
    BY <1>3
  <2>2. z.value = 2
    BY <1>1, WinnerLeaves
  <2>3. Leave(TRUE)
    BY <2>1, <2>2 DEF Leave
  <2>4. QED
    BY <1>1, <2>3, KeptByLeaving
<1>4. QED
  BY <1>2, <1>3 DEF WinnerMoves

LEMMA KeptByLoser == TBPInv /\ LoserMoves => TBPInv'
<1> SUFFICES ASSUME TBPInv, LoserMoves PROVE TBPInv'
  OBVIOUS
<1>1. phase = "loser" /\ InPlay /\ LoserAt(here, cnt50, visits) /\ PlayRight
  BY PlayOf DEF LoserMoves, TBPInv
<1>2. CASE \E q \in quiet[here] : Move(q) /\ phase' = "winner"
  <2>1. PICK q \in quiet[here] : Move(q) /\ phase' = "winner"
    BY <1>2
  <2>2. q \in Positions /\ WinnerAt(q, cnt50 + 1, Visited(q)) /\ visits[q] <= 2
    BY <1>1, LoserMove
  <2>3. QED
    BY <1>1, <2>1, <2>2, KeptByMove
<1>3. CASE \E z \in zeroing[here] : Leave(z.value = -2)
  <2>1. PICK z \in zeroing[here] : Leave(z.value = -2)
    BY <1>3
  <2>2. z.value = -2
    BY <1>1, LoserLeaves
  <2>3. Leave(TRUE)
    BY <2>1, <2>2 DEF Leave
  <2>4. QED
    BY <1>1, <2>3, KeptByLeaving
<1>4. QED
  BY <1>2, <1>3 DEF LoserMoves

LEMMA StepsKeep == TBPInv /\ [TBPNext]_tbpVars => TBPInv'
<1> SUFFICES ASSUME TBPInv, [TBPNext]_tbpVars PROVE TBPInv'
  OBVIOUS
<1>1. CASE Generate
  BY <1>1, KeptByGenerate
<1>2. CASE \E p \in Positions, count \in 0 .. Rule50 - 1, byDTZ \in BOOLEAN : SetRoot(p, count, byDTZ)
  BY <1>2, KeptByRoot
<1>3. CASE WinnerMoves
  BY <1>3, KeptByWinner
<1>4. CASE LoserMoves
  BY <1>4, KeptByLoser
<1>5. CASE UNCHANGED tbpVars
  <2>1. SameTables /\ UNCHANGED <<phase, here, cnt50, visits, rankDTZ, certain>>
    BY <1>5 DEF tbpVars, SameTables
  <2>2. GameRight' /\ (phase' # "game" => TablesAreRight') /\ TBPTypeOK' /\ rankDTZ' \in BOOLEAN
    <3>1. GameRight /\ TBPTypeOK /\ rankDTZ \in BOOLEAN /\ (phase # "game" => TablesAreRight)
      BY DEF TBPInv
    <3>2. GameRight' /\ (phase' # "game" => TablesAreRight')
      BY <2>1, <3>1, GameKept, TablesKept DEF SameGame, SameTables
    <3>3. TBPTypeOK'
      BY <2>1, <3>1 DEF TBPTypeOK, SameTables
    <3>4. QED
      BY <2>1, <3>1, <3>2, <3>3
  <2>3. /\ phase' = "winner" => WinnerAt(here, cnt50, visits)'
        /\ phase' = "loser" => LoserAt(here, cnt50, visits)'
    <3>1. (phase = "winner" => WinnerAt(here, cnt50, visits)) /\ (phase = "loser" => LoserAt(here, cnt50, visits))
      BY DEF TBPInv
    <3> DEFINE h == here  c == cnt50  s == visits
    <3>2. h = here /\ c = cnt50 /\ s = visits /\ here' = h /\ cnt50' = c /\ visits' = s
      BY <2>1
    <3>3. (phase' = "winner" => WinnerAt(h, c, s)) /\ (phase' = "loser" => LoserAt(h, c, s))
      BY <2>1, <3>1
    <3> HIDE DEF h, c, s
    <3>4. QED
      BY <2>1, <3>2, <3>3, WinnerNext, LoserNext
  <2>4. (phase' = "left" => certain') /\ (phase' \in {"game", "tables"} => \A p \in Positions : visits'[p] = 0)
    BY <2>1 DEF TBPInv
  <2>5. QED
    BY <2>2, <2>3, <2>4 DEF TBPInv
<1>6. QED
  BY <1>1, <1>2, <1>3, <1>4, <1>5 DEF TBPNext

\* What the properties say follows from the invariant.
LEMMA InvIsRight == TBPInv => ProbesRight
<1> SUFFICES ASSUME TBPInv PROVE ProbesRight
  OBVIOUS
<1>1. TBPTypeOK
  BY DEF TBPInv
<1>2. phase # "game" => PlayRight /\ TablesRight
  BY PlayOf DEF PlayRight
<1>3. ProbeFindsValue
  BY <1>2, SearchFinds, Zenon DEF ProbeFindsValue
<1>4. ProbeFindsDistance
  <2> DEFINE Fine(found, exact) ==
        /\ sign_of(found) = sign_of(exact) /\ ValueOf(found) = ValueOf(exact)
        /\ AtLeast(exact, -exact) - AtLeast(found, -found) \in {0, 1}
  <2>1. ASSUME phase = "tables", NEW p \in Positions, ~ReadsPastEp(p) PROVE Fine(ProbeDTZ[p], distances[p])
    <3> DEFINE x == distances[p]  f == ProbeDTZ[p]
    <3>1. f = ShownOf(p, x) /\ x \in Int
      BY <1>2, <2>1, ProbesAreShown, TableOf DEF AllShown
    <3>2. Rule50 \in Int /\ Rule50 >= 2
      BY Limits
    <3> HIDE DEF x, f
    <3>3. CASE x = 0
      <4>1. f = 0
        BY <3>1, <3>3 DEF ShownOf
      <4>2. Fine(f, x)
        BY <3>3, <4>1 DEF AtLeast
      <4>3. QED
        BY <4>2 DEF f, x
    <3>4. CASE x > 0
      <4>1. f = Shown(p, x)
        BY <3>1, <3>4 DEF ShownOf
      <4>2. f \in Int /\ (f = x \/ f = x - 1) /\ f >= 1 /\ (x <= Rule50 <=> f <= Rule50)
        BY <3>1, <3>4, <4>1, ShownFacts
      <4>3. sign_of(f) = sign_of(x) /\ ValueOf(f) = ValueOf(x)
        BY <3>1, <3>2, <3>4, <4>2 DEF sign_of, ValueOf
      <4>4. AtLeast(x, -x) = x /\ AtLeast(f, -f) = f
        BY <3>1, <3>4, <4>2 DEF AtLeast
      <4>5. AtLeast(x, -x) - AtLeast(f, -f) \in {0, 1}
        BY <3>1, <4>2, <4>4
      <4>6. QED
        BY <4>3, <4>5 DEF f, x
    <3>5. CASE x < 0
      <4>1. -x \in Int /\ -x >= 1 /\ f = -Shown(p, -x)
        BY <3>1, <3>5 DEF ShownOf
      <4> DEFINE y == -x  g == Shown(p, -x)
      <4>2. g \in Int /\ (g = y \/ g = y - 1) /\ g >= 1 /\ (y <= Rule50 <=> g <= Rule50) /\ y \in Int /\ y >= 1
        BY <4>1, ShownFacts
      <4>3. f = -g /\ x = -y
        BY <3>1, <4>1
      <4> HIDE DEF y, g
      <4>4. f \in Int /\ f < 0 /\ x < 0 /\ (x < -Rule50 <=> f < -Rule50) /\ -f = g /\ -x = y
        BY <3>2, <4>2, <4>3
      <4>5. sign_of(f) = sign_of(x) /\ ValueOf(f) = ValueOf(x)
        BY <3>1, <3>2, <4>4 DEF sign_of, ValueOf
      <4>6. AtLeast(x, -x) = y /\ AtLeast(f, -f) = g
        BY <3>1, <4>2, <4>4 DEF AtLeast
      <4>7. AtLeast(x, -x) - AtLeast(f, -f) \in {0, 1}
        BY <4>2, <4>6
      <4>8. QED
        BY <4>5, <4>7 DEF f, x
    <3>6. QED
      BY <3>1, <3>3, <3>4, <3>5
  <2> HIDE DEF Fine
  <2>2. phase = "tables" => \A p \in Positions : ~ReadsPastEp(p) => Fine(ProbeDTZ[p], distances[p])
    BY <2>1
  <2>3. QED
    BY <2>2 DEF ProbeFindsDistance, Fine
<1>5. CertainWinKept
  <2>1. phase = "winner" => distances[here] > 0 /\ InPlay
    <3>1. ASSUME phase = "winner" PROVE distances[here] > 0 /\ InPlay
      <4>1. PlayRight /\ WinnerAt(here, cnt50, visits) /\ here \in Positions
        BY <1>2, <3>1 DEF TBPInv, PlayRight
      <4>2. cnt50 \in Int /\ 0 <= cnt50 /\ Rule50 \in Int /\ visits[here] \in Int
        BY <4>1, PlayFacts, Limits
      <4>3. distances[here] \in Int /\ 1 <= distances[here] /\ distances[here] + cnt50 <= Rule50
        BY <4>1, <4>2, WinnerFacts
      <4>4. visits[here] <= 2
        BY <4>1 DEF WinnerAt
      <4>5. QED
        BY <4>2, <4>3, <4>4 DEF InPlay
    <3>2. QED
      BY <3>1
  <2>2. phase = "loser" => distances[here] < 0 /\ (InPlay \/ Mated(here))
    <3>1. ASSUME phase = "loser" PROVE distances[here] < 0 /\ (InPlay \/ Mated(here))
      <4>1. PlayRight /\ LoserAt(here, cnt50, visits) /\ here \in Positions
        BY <1>2, <3>1 DEF TBPInv, PlayRight
      <4>2. cnt50 \in Int /\ 0 <= cnt50 /\ Rule50 \in Int /\ visits[here] \in Int
        BY <4>1, PlayFacts, Limits
      <4>3. ASSUME ~Mated(here) PROVE InPlay
        <5>1. distances[here] \in Int /\ 1 <= -distances[here] /\ -distances[here] + cnt50 <= Rule50
          BY <4>1, <4>2, <4>3, LoserFacts
        <5>2. visits[here] <= 2
          BY <4>1, <4>3 DEF LoserAt
        <5>3. QED
          BY <4>2, <5>1, <5>2 DEF InPlay
      <4>4. QED
        BY <4>1, <4>3 DEF LoserAt
    <3>2. QED
      BY <3>1
  <2>3. phase = "left" => certain
    BY DEF TBPInv
  <2>4. QED
    BY <2>1, <2>2, <2>3 DEF CertainWinKept
<1>6. QED
  BY <1>1, <1>3, <1>4, <1>5 DEF ProbesRight

\* search finds the value of every position, probe_dtz the distance or a ply less, and a game
\* that is certainly won and follows the ranks of root_probe is won, whatever the other side
\* plays: for any games of any number of positions, tables in plies or in moves, and any plies
\* of the 50-move rule.
THEOREM TablesProbedRight == TBPSpec => []ProbesRight
<1>1. TBPInit => TBPInv
  BY FirstRight
<1>2. TBPInv /\ [TBPNext]_tbpVars => TBPInv'
  BY StepsKeep
<1>3. TBPInv => ProbesRight
  BY InvIsRight
<1>4. QED
  BY <1>1, <1>2, <1>3, PTL DEF TBPSpec

-----------------------------------------------------------------------------
(* The transposition table.                                                *)

-----------------------------------------------------------------------------
(* Arithmetic.                                                             *)

LEMMA ModUnique ==
  ASSUME NEW M \in Nat \ {0}, NEW q \in Int, NEW r \in 0 .. M - 1, NEW x \in Int, x = q * M + r
  PROVE  x % M = r
<1> DEFINE d == x \div M  e == x % M
<1>1. d \in Int /\ e \in 0 .. M - 1 /\ x = M * d + e
  OBVIOUS
<1> HIDE DEF d, e
<1>2. d = q
  <2>1. CASE d >= q + 1
    <3>1. M * d >= M * q + M
      BY <1>1, <2>1, Z3
    <3> QED BY <3>1, <1>1
  <2>2. CASE d <= q - 1
    <3>1. M * d <= M * q - M
      BY <1>1, <2>2, Z3
    <3> QED BY <3>1, <1>1
  <2> QED BY <1>1, <2>1, <2>2
<1> QED BY <1>1, <1>2 DEF e

LEMMA ModIsRest ==
  ASSUME NEW M \in Nat \ {0}, NEW x \in Int
  PROVE  /\ x % M \in 0 .. M - 1
         /\ \E q \in Int : x = q * M + (x % M)
<1> DEFINE d == x \div M
<1>1. d \in Int /\ x = M * d + (x % M) /\ x % M \in 0 .. M - 1
  OBVIOUS
<1> HIDE DEF d
<1>2. M * d = d * M
  BY <1>1, Z3
<1> QED BY <1>1, <1>2

\* What is left of a difference is what is left of the difference of what is left.
LEMMA ModOfDifference ==
  ASSUME NEW M \in Nat \ {0}, NEW x \in Int, NEW y \in Int
  PROVE  (x - y) % M = ((x % M) - (y % M)) % M
<1> DEFINE a == x % M  b == y % M
<1>1. PICK p \in Int : a \in 0 .. M - 1 /\ x = p * M + a
  BY ModIsRest
<1>2. PICK q \in Int : b \in 0 .. M - 1 /\ y = q * M + b
  BY ModIsRest
<1> HIDE DEF a, b
<1>3. PICK k \in Int : (a - b) % M \in 0 .. M - 1 /\ a - b = k * M + ((a - b) % M)
  <2>1. a - b \in Int
    BY <1>1, <1>2
  <2> QED BY <2>1, ModIsRest
<1> DEFINE r == (a - b) % M
<1>4. x - y = (p - q + k) * M + r
  <2>1. x - y = p * M - q * M + k * M + r
    BY <1>1, <1>2, <1>3
  <2>2. (p - q + k) * M = p * M - q * M + k * M
    BY <1>1, <1>2, <1>3, Z3
  <2> QED BY <2>1, <2>2, <1>3
<1>5. (x - y) % M = r
  <2> HIDE DEF r
  <2>1. r \in 0 .. M - 1
    BY <1>3 DEF r
  <2> QED BY <1>1, <1>2, <1>3, <1>4, <2>1, ModUnique
<1> QED BY <1>5 DEF a, b

LEMMA ModOfSuccessor ==
  ASSUME NEW M \in Nat \ {0}, NEW x \in Int
  PROVE  (x + 1) % M = ((x % M) + 1) % M
<1> DEFINE a == x % M
<1>1. PICK p \in Int : a \in 0 .. M - 1 /\ x = p * M + a
  BY ModIsRest
<1> HIDE DEF a
<1>2. PICK k \in Int : (a + 1) % M \in 0 .. M - 1 /\ a + 1 = k * M + ((a + 1) % M)
  <2>1. a + 1 \in Int
    BY <1>1
  <2> QED BY <2>1, ModIsRest
<1> DEFINE r == (a + 1) % M
<1>3. x + 1 = (p + k) * M + r /\ r \in 0 .. M - 1
  <2>1. (p + k) * M = p * M + k * M
    BY <1>1, <1>2, Z3
  <2> QED BY <1>1, <1>2, <2>1
<1>4. (x + 1) % M = r
  <2> HIDE DEF r
  <2> QED BY <1>1, <1>2, <1>3, ModUnique
<1> QED BY <1>4 DEF a

LEMMA ModulusFacts ==
  /\ Modulus \in Nat \ {0} /\ GENERATION_DELTA = 8 /\ Modulus = 8 * Generations
  BY GenerationsAssumption DEF Modulus, GENERATION_DELTA

\* The next generation.
LEMMA NextGeneration ==
  ASSUME NEW n \in Nat
  PROVE  (8 * (n % Generations) + GENERATION_DELTA) % Modulus = 8 * ((n + 1) % Generations)
<1> DEFINE c == n % Generations
<1>1. c \in 0 .. Generations - 1 /\ (n + 1) % Generations = (c + 1) % Generations
  <2>1. c \in 0 .. Generations - 1
    BY GenerationsAssumption, ModIsRest
  <2>2. (n + 1) % Generations = (c + 1) % Generations
    <3> HIDE DEF c
    <3>1. n \in Int
      OBVIOUS
    <3> QED BY <3>1, GenerationsAssumption, ModOfSuccessor DEF c
  <2> QED BY <2>1, <2>2
<1> HIDE DEF c
<1>2. CASE c + 1 < Generations
  <2>1. (c + 1) % Generations = c + 1
    BY <1>1, <1>2, GenerationsAssumption, ModUnique, c + 1 = 0 * Generations + (c + 1)
  <2>2. (8 * c + 8) % Modulus = 8 * c + 8
    <3>1. 8 * c + 8 = 0 * Modulus + (8 * c + 8) /\ 8 * c + 8 \in 0 .. Modulus - 1
      BY <1>1, <1>2, ModulusFacts, GenerationsAssumption
    <3> QED BY <3>1, ModulusFacts, ModUnique
  <2> QED BY <2>1, <2>2, <1>1, ModulusFacts DEF c
<1>3. CASE c + 1 = Generations
  <2>1. (c + 1) % Generations = 0
    BY <1>1, <1>3, GenerationsAssumption, ModUnique, c + 1 = 1 * Generations + 0
  <2>2. (8 * c + 8) % Modulus = 0
    <3>1. 8 * c + 8 = 1 * Modulus + 0
      BY <1>1, <1>3, ModulusFacts, GenerationsAssumption
    <3> QED BY <3>1, ModulusFacts, ModUnique
  <2> QED BY <2>1, <2>2, <1>1, ModulusFacts DEF c
<1> QED BY <1>1, <1>2, <1>3, GenerationsAssumption

\* The age: the distance of the generations, whatever the three low bits.
LEMMA AgeOf ==
  ASSUME NEW m \in Int, NEW n \in Int, NEW low \in 0 .. 7
  PROVE  RelativeAge(8 * (m % Generations), 8 * (n % Generations) + low) = 8 * ((m - n) % Generations)
<1> DEFINE c == m % Generations  a == n % Generations
<1>1. c \in 0 .. Generations - 1 /\ a \in 0 .. Generations - 1 /\ (m - n) % Generations = (c - a) % Generations
  BY GenerationsAssumption, ModIsRest, ModOfDifference
<1> HIDE DEF c, a
<1> DEFINE x == GENERATION_CYCLE + 8 * c - (8 * a + low)
<1>2. x = Modulus + 8 * (c - a) + (7 - low) /\ x \in Int
  BY <1>1, ModulusFacts, GenerationsAssumption DEF GENERATION_CYCLE
<1> HIDE DEF x
<1>3. x % 8 = 7 - low
  <2>1. x = (Generations + (c - a)) * 8 + (7 - low)
    BY <1>1, <1>2, ModulusFacts, GenerationsAssumption
  <2> QED BY <2>1, <1>1, <1>2, GenerationsAssumption, ModUnique
<1>4. CASE c >= a
  <2>1. (c - a) % Generations = c - a
    BY <1>1, <1>4, GenerationsAssumption, ModUnique, c - a = 0 * Generations + (c - a)
  <2>2. x % Modulus = 8 * (c - a) + (7 - low)
    <3>1. x = 1 * Modulus + (8 * (c - a) + (7 - low)) /\ 8 * (c - a) + (7 - low) \in 0 .. Modulus - 1
      BY <1>1, <1>2, <1>4, ModulusFacts, GenerationsAssumption
    <3> QED BY <3>1, <1>2, ModulusFacts, ModUnique
  <2> QED BY <2>1, <2>2, <1>1, <1>3, ModulusFacts DEF RelativeAge, Masked, x, c, a
<1>5. CASE c < a
  <2>1. (c - a) % Generations = c - a + Generations
    <3>1. c - a = (-1) * Generations + (c - a + Generations) /\ c - a + Generations \in 0 .. Generations - 1
      BY <1>1, <1>5, GenerationsAssumption
    <3> QED BY <3>1, <1>1, GenerationsAssumption, ModUnique
  <2>2. x % Modulus = Modulus + 8 * (c - a) + (7 - low)
    <3>1. x = 0 * Modulus + (Modulus + 8 * (c - a) + (7 - low))
          /\ Modulus + 8 * (c - a) + (7 - low) \in 0 .. Modulus - 1
      BY <1>1, <1>2, <1>5, ModulusFacts, GenerationsAssumption
    <3> QED BY <3>1, <1>2, ModulusFacts, ModUnique
  <2>3. 8 * (c - a + Generations) = Modulus + 8 * (c - a)
    BY <1>1, ModulusFacts, GenerationsAssumption
  <2> QED BY <2>1, <2>2, <2>3, <1>1, <1>3, ModulusFacts DEF RelativeAge, Masked, x, c, a
<1> QED BY <1>1, <1>4, <1>5

\* The quotient, for a divisor that is not a number.
LEMMA DivFacts ==
  ASSUME NEW n \in Nat, NEW M \in Nat \ {0}
  PROVE  n \div M \in Nat /\ (n \div M) * M <= n /\ n < (n \div M) * M + M
<1> DEFINE d == n \div M  e == n % M
<1>1. d \in Int /\ e \in 0 .. M - 1 /\ n = M * d + e
  OBVIOUS
<1> HIDE DEF d, e
<1>2. d >= 0
  <2> SUFFICES ASSUME d <= -1 PROVE FALSE
    BY <1>1
  <2>1. M * d <= -M
    BY <1>1, Z3
  <2> QED BY <1>1, <2>1
<1>3. M * d = d * M
  BY <1>1, Z3
<1> QED BY <1>1, <1>2, <1>3 DEF d

\* For every size of the table and every number of threads, more threads than clusters
\* included: each cluster is cleared by exactly one thread (TranspositionTable::clear).
THEOREM SlicesPartition ==
  ASSUME NEW n \in Nat, NEW T \in Nat \ {0}, NEW c \in 0 .. n - 1
  PROVE  \E i \in 0 .. T - 1 : /\ c \in Slice(i, n, T)
                               /\ \A j \in 0 .. T - 1 : c \in Slice(j, n, T) => j = i
<1> DEFINE d == n \div T
<1>1. d \in Nat /\ d * T <= n
  BY DivFacts
<1>2. \A i \in 0 .. T - 1 : c \in Slice(i, n, T) <=> d * i <= c /\ (i + 1 # T => c < d * i + d)
  BY <1>1 DEF Slice, SliceStart, SliceLen, Stride
<1> HIDE DEF d
<1>3. CASE c >= d * (T - 1)
  <2>1. c \in Slice(T - 1, n, T)
    BY <1>1, <1>2, <1>3
  <2>2. ASSUME NEW j \in 0 .. T - 1, c \in Slice(j, n, T), j # T - 1 PROVE FALSE
    <3>1. c < d * j + d
      BY <1>2, <2>2
    <3>2. d * j + d <= d * (T - 1)
      <4>1. d * j + d = d * (j + 1) /\ j + 1 <= T - 1
        BY <1>1, <2>2, Z3
      <4> QED BY <4>1, <1>1, <2>2, Z3
    <3> QED BY <1>1, <1>3, <3>1, <3>2
  <2> QED BY <2>1, <2>2
<1>4. CASE c < d * (T - 1)
  <2>1. d # 0
    BY <1>4
  <2> DEFINE i == c \div d
  <2>2. i \in Nat /\ i * d <= c /\ c < i * d + d
    BY <1>1, <2>1, DivFacts
  <2> HIDE DEF i
  <2>3. i < T - 1
    <3> SUFFICES ASSUME i >= T - 1 PROVE FALSE
      BY <2>2
    <3>1. i * d >= (T - 1) * d
      BY <1>1, <2>2, Z3
    <3>2. (T - 1) * d = d * (T - 1)
      BY <1>1, Z3
    <3> QED BY <1>1, <1>4, <2>2, <3>1, <3>2
  <2>4. i * d = d * i
    BY <1>1, <2>2, Z3
  <2>5. c \in Slice(i, n, T)
    BY <1>1, <1>2, <2>2, <2>3, <2>4
  <2>6. ASSUME NEW j \in 0 .. T - 1, c \in Slice(j, n, T) PROVE j = i
    <3>1. j # T - 1
      BY <1>1, <1>2, <1>4, <2>6
    <3>2. d * j <= c /\ c < d * j + d
      BY <1>2, <2>6, <3>1
    <3>3. CASE j < i
      <4>1. d * (j + 1) <= d * i /\ d * (j + 1) = d * j + d
        BY <1>1, <2>2, <3>3, Z3
      <4> QED BY <1>1, <2>2, <2>4, <3>2, <4>1
    <3>4. CASE j > i
      <4>1. d * (i + 1) <= d * j /\ d * (i + 1) = d * i + d
        BY <1>1, <2>2, <3>4, Z3
      <4> QED BY <1>1, <2>2, <2>4, <3>2, <4>1
    <3> QED BY <2>2, <3>3, <3>4
  <2> QED BY <2>3, <2>5, <2>6, <2>2
<1> QED BY <1>1, <1>3, <1>4

\* Whatever the key, the cluster that it is multiplied to lies in the table (first_entry).
THEOREM FirstEntryInTable ==
  ASSUME NEW W \in Nat \ {0}, NEW key \in 0 .. W - 1, NEW n \in Nat \ {0}
  PROVE  ClusterOf(key, n, W) \in 0 .. n - 1
<1>1. key * n \in Nat /\ key * n < W * n
  <2>1. (W - key) * n >= n /\ (W - key) * n = W * n - key * n /\ key * n >= 0
    BY Z3
  <2> QED BY <2>1
<1> DEFINE q == (key * n) \div W
<1>2. q \in Nat /\ q * W <= key * n
  <2> DEFINE x == key * n
  <2>1. x \in Nat
    BY <1>1
  <2> HIDE DEF x
  <2>2. x \div W \in Nat /\ (x \div W) * W <= x
    BY <2>1, DivFacts
  <2> QED BY <2>2 DEF x
<1> HIDE DEF q
<1>3. q < n
  <2> SUFFICES ASSUME q >= n PROVE FALSE
    BY <1>2
  <2>1. q * W >= n * W /\ n * W = W * n
    BY <1>2, Z3
  <2> QED BY <1>1, <1>2, <2>1
<1> QED BY <1>2, <1>3 DEF ClusterOf, q

-----------------------------------------------------------------------------
(* The invariant.                                                          *)

Saving == {"worth", "wkey", "wdepth", "wbound", "wvalue"}

\* What the place of a thread says of its locals.
Locals(t) ==
  /\ ttpc[t] = "idle" => ~tthit[t]
  /\ ttpc[t] # "idle" => ttkey[t] \in Keys
  /\ ttpc[t] # "scan" => ttslot[t] \in Slots
  /\ ttpc[t] = "read" /\ tthit[t] => is_occupied(table[ttslot[t]])
  /\ ttpc[t] = "probed" /\ tthit[t] => ttdepth[t] # 0
  /\ ttpc[t] \in Saving => ttarg[t] \in Works /\ t \in writers[ttslot[t]]
  /\ ttpc[t] \in {"wbound", "wvalue"} => is_occupied(table[ttslot[t]])
LocalsInv == \A t \in TTThreads : Locals(t)

AgesInv ==
  /\ generation8 = 8 * (searches % Generations)
  /\ \A s \in Slots : \E low \in 0 .. 7 : table[s].genBound8 = 8 * (born[s] % Generations) + low

\* An entry that is as one save left it.
ValueOfKey(s, key16) == table[s].value16 \in Keys /\ Key16[table[s].value16] = key16
MoveOfKey(s, key16) == table[s].move16 # NoKey => Key16[table[s].move16] = key16
Whole(s) == is_occupied(table[s]) /\ ValueOfKey(s, table[s].key16) /\ MoveOfKey(s, table[s].key16)

\* What is known of an entry that t wrote alone.
Own(s, t) ==
  /\ ttpc[t] \notin Saving \/ ttslot[t] # s => Whole(s)
  /\ ttslot[t] = s =>
       /\ ttpc[t] = "worth" /\ is_occupied(table[s]) => ValueOfKey(s, table[s].key16)
       /\ ttpc[t] \in Saving => MoveOfKey(s, Key16[ttkey[t]])
       /\ ttpc[t] \in {"wdepth", "wbound", "wvalue"} => table[s].key16 = Key16[ttkey[t]]
OwnInv ==
  \A s \in Slots : /\ writers[s] = {} => table[s] = Empty
                   /\ \A t \in TTThreads : writers[s] = {t} => Own(s, t)

HashInv == TTTypeOK /\ LocalsInv /\ AgesInv /\ OwnInv

LEMMA HashInvMakesRight == HashInv => HashRight
<1> SUFFICES ASSUME HashInv PROVE HashRight
  OBVIOUS
<1>1. TTTypeOK /\ HitHasDepth
  BY DEF HashInv, LocalsInv, Locals, HitHasDepth
<1>2. ConsistentAlone
  <2> SUFFICES ASSUME NEW s \in Slots, NEW t \in TTThreads, writers[s] = {t}, ttpc[t] = "idle"
               PROVE  /\ Key16[table[s].value16] = table[s].key16
                      /\ table[s].move16 # NoKey => Key16[table[s].move16] = table[s].key16
    BY DEF ConsistentAlone
  <2>1. Whole(s)
    BY DEF HashInv, OwnInv, Own, Saving
  <2> QED BY <2>1 DEF Whole, ValueOfKey, MoveOfKey
<1>3. AgeCountsSearches
  <2> SUFFICES ASSUME NEW s \in Slots
               PROVE  RelativeAge(generation8, table[s].genBound8) = GENERATION_DELTA * ((searches - born[s]) % Generations)
    BY DEF AgeCountsSearches
  <2>1. PICK low \in 0 .. 7 : table[s].genBound8 = 8 * (born[s] % Generations) + low
    BY DEF HashInv, AgesInv
  <2>2. searches \in Int /\ born[s] \in Int /\ generation8 = 8 * (searches % Generations)
    BY DEF HashInv, AgesInv, TTTypeOK
  <2> QED BY <2>1, <2>2, AgeOf, ModulusFacts
<1> QED BY <1>1, <1>2, <1>3 DEF HashRight

LEMMA HashInitially == TTInit => HashInv
<1> SUFFICES ASSUME TTInit PROVE HashInv
  OBVIOUS
<1> USE DEF TTInit
<1>1. Empty \in Entry
  BY ModulusFacts DEF Empty, Entry, Data
<1>2. 0 % Generations = 0
  BY GenerationsAssumption, ModUnique, 0 = 0 * Generations + 0
<1>3. TTTypeOK
  <2>1. generation8 \in {GENERATION_DELTA * i : i \in 0 .. Generations - 1}
    BY ModulusFacts, GenerationsAssumption, 0 \in 0 .. Generations - 1, GENERATION_DELTA * 0 = 0
  <2>2. 1 \in 1 .. ClusterSize + 1 /\ saves \in 0 .. MaxSaves
    BY ClusterAssumption, TTBoundsAssumption
  <2> QED BY <1>1, <2>1, <2>2 DEF TTTypeOK, Data, NoArg, Places
<1>4. LocalsInv
  BY ClusterAssumption DEF LocalsInv, Locals, Saving, Slots
<1>5. AgesInv
  BY <1>2 DEF AgesInv, Empty
<1>6. OwnInv
  BY DEF OwnInv
<1> QED BY <1>3, <1>4, <1>5, <1>6 DEF HashInv

-----------------------------------------------------------------------------
(* The steps.                                                              *)

\* There is a first one of the least valuable entries.
LEMMA ReplacedIsSlot == HashInv => Replaced \in Slots
<1> SUFFICES ASSUME HashInv PROVE Replaced \in Slots
  OBVIOUS
<1>1. \A s \in Slots : ReplaceValue(s) \in Int /\ ReplaceValue(s) + 8 * Generations \in Nat
  <2> SUFFICES ASSUME NEW s \in Slots
               PROVE  ReplaceValue(s) \in Int /\ ReplaceValue(s) + 8 * Generations \in Nat
    OBVIOUS
  <2>1. PICK low \in 0 .. 7 : table[s].genBound8 = 8 * (born[s] % Generations) + low
    BY DEF HashInv, AgesInv
  <2>2. searches - born[s] \in Int /\ searches \in Int /\ born[s] \in Int /\ table[s].depth8 \in 0 .. 255
    BY DEF HashInv, TTTypeOK, Entry
  <2>3. RelativeAge(generation8, table[s].genBound8) = 8 * ((searches - born[s]) % Generations)
    BY <2>1, <2>2, AgeOf DEF HashInv, AgesInv
  <2>4. (searches - born[s]) % Generations \in 0 .. Generations - 1
    BY <2>2, GenerationsAssumption, ModIsRest
  <2> QED BY <2>2, <2>3, <2>4, GenerationsAssumption DEF ReplaceValue
<1> DEFINE V == {ReplaceValue(s) + 8 * Generations : s \in Slots}
<1>2. PICK v \in V : \A w \in V : v <= w
  <2>1. V \subseteq Nat
    BY <1>1
  <2>2. V # {}
    BY ClusterAssumption, 1 \in Slots DEF Slots
  <2> HIDE DEF V
  <2> QED BY <2>1, <2>2, LeastNumber
<1> DEFINE T == {s \in Slots : ReplaceValue(s) + 8 * Generations = v}
<1>3. PICK s \in T : \A u \in T : s <= u
  <2>1. T \subseteq Nat
    BY ClusterAssumption DEF Slots
  <2>2. T # {}
    OBVIOUS
  <2> HIDE DEF T, V
  <2> QED BY <2>1, <2>2, LeastNumber
<1>4. \A u \in Slots : ReplaceValue(s) <= ReplaceValue(u)
  <2> SUFFICES ASSUME NEW u \in Slots PROVE ReplaceValue(s) <= ReplaceValue(u)
    OBVIOUS
  <2>1. v <= ReplaceValue(u) + 8 * Generations /\ v = ReplaceValue(s) + 8 * Generations /\ s \in Slots
    BY <1>2
  <2> HIDE DEF T, V
  <2>2. ReplaceValue(u) \in Int /\ ReplaceValue(s) \in Int
    BY <2>1, <1>1
  <2> QED BY <2>1, <2>2, GenerationsAssumption
<1>5. \A u \in 1 .. s - 1 : ReplaceValue(s) < ReplaceValue(u)
  <2> SUFFICES ASSUME NEW u \in 1 .. s - 1 PROVE ReplaceValue(s) < ReplaceValue(u)
    OBVIOUS
  <2>1. u \in Slots /\ u < s
    BY ClusterAssumption DEF Slots
  <2>2. ReplaceValue(u) # ReplaceValue(s)
    BY <2>1, <1>3, ClusterAssumption DEF Slots
  <2> QED BY <2>1, <2>2, <1>4, <1>1
<1> QED BY <1>4, <1>5 DEF Replaced

LEMMA ProbeStartKeeps == ASSUME HashInv, NEW t \in TTThreads, NEW k \in Keys, ProbeStart(t, k) PROVE HashInv'
<1> USE DEF HashInv
<1>1. TTTypeOK'
  <2>1. UNCHANGED <<table, generation8, searches, born, writers, saves>>
    BY DEF ProbeStart
  <2>2. ttpc' \in [TTThreads -> Places]
    BY ClusterAssumption DEF ProbeStart, GoTo, TTTypeOK, Places
  <2>3. ttkey' \in [TTThreads -> Data]
    BY ClusterAssumption DEF ProbeStart, TTTypeOK, Data
  <2>4. ttslot' \in [TTThreads -> 1 .. ClusterSize + 1]
    BY ClusterAssumption DEF ProbeStart, TTTypeOK
  <2>5. tthit' \in [TTThreads -> BOOLEAN]
    BY ClusterAssumption DEF ProbeStart, TTTypeOK
  <2>6. ttdepth' \in [TTThreads -> 0 .. 255]
    BY ClusterAssumption DEF ProbeStart, TTTypeOK
  <2>7. ttarg' \in [TTThreads -> [pv : {0, 1}, b : 0 .. 3, d : 0 .. 255]]
    BY ClusterAssumption DEF ProbeStart, TTTypeOK
  <2> QED BY <2>1, <2>2, <2>3, <2>4, <2>5, <2>6, <2>7 DEF TTTypeOK
<1>2. LocalsInv'
  BY ClusterAssumption DEF ProbeStart, GoTo, TTTypeOK, LocalsInv, Locals, Saving
<1>3. AgesInv'
  BY DEF ProbeStart, AgesInv
<1>4. OwnInv'
  BY DEF ProbeStart, GoTo, OwnInv, Own, Whole, ValueOfKey, MoveOfKey, Saving
<1> QED BY <1>1, <1>2, <1>3, <1>4

LEMMA ProbeSlotKeeps == ASSUME HashInv, NEW t \in TTThreads, ProbeSlot(t) PROVE HashInv'
<1> USE DEF HashInv
<1>1. TTTypeOK'
  <2>1. UNCHANGED <<table, generation8, searches, born, writers, saves, ttkey, tthit, ttdepth, ttarg>>
    BY DEF ProbeSlot
  <2>2. ttpc' = ttpc \/ ttpc' = [ttpc EXCEPT ![t] = "hit"]
    BY DEF ProbeSlot, GoTo
  <2>3. ttpc' \in [TTThreads -> Places]
    BY <2>2 DEF TTTypeOK, Places
  <2>4. ttslot' = ttslot \/ (ttslot' = [ttslot EXCEPT ![t] = ttslot[t] + 1] /\ ttslot[t] \in Slots)
    BY DEF ProbeSlot
  <2>5. ttslot' \in [TTThreads -> 1 .. ClusterSize + 1]
    <3>1. ttslot[t] \in Slots => ttslot[t] + 1 \in 1 .. ClusterSize + 1
      BY ClusterAssumption DEF Slots
    <3> QED BY <2>4, <3>1 DEF TTTypeOK
  <2> QED BY <2>1, <2>3, <2>5 DEF TTTypeOK
<1>2. LocalsInv'
  BY ClusterAssumption DEF ProbeSlot, GoTo, TTTypeOK, LocalsInv, Locals, Saving
<1>3. AgesInv'
  BY DEF ProbeSlot, AgesInv
<1>4. OwnInv'
  BY DEF ProbeSlot, GoTo, TTTypeOK, OwnInv, Own, Whole, ValueOfKey, MoveOfKey, Saving
<1> QED BY <1>1, <1>2, <1>3, <1>4

LEMMA ProbeHitKeeps == ASSUME HashInv, NEW t \in TTThreads, ProbeHit(t) PROVE HashInv'
<1> USE DEF HashInv
<1>1. TTTypeOK'
  <2>1. UNCHANGED <<table, generation8, searches, born, writers, saves>>
    BY DEF ProbeHit
  <2>2. ttpc' \in [TTThreads -> Places]
    BY DEF ProbeHit, GoTo, TTTypeOK, Places
  <2>3. ttkey' \in [TTThreads -> Data]
    BY DEF ProbeHit, TTTypeOK
  <2>4. ttslot' \in [TTThreads -> 1 .. ClusterSize + 1]
    BY DEF ProbeHit, TTTypeOK
  <2>5. tthit' \in [TTThreads -> BOOLEAN]
    <3>1. PICK b \in BOOLEAN : tthit' = [tthit EXCEPT ![t] = b]
      BY DEF ProbeHit, is_occupied
    <3> QED BY <3>1 DEF TTTypeOK
  <2>6. ttdepth' \in [TTThreads -> 0 .. 255]
    BY DEF ProbeHit, TTTypeOK
  <2>7. ttarg' \in [TTThreads -> [pv : {0, 1}, b : 0 .. 3, d : 0 .. 255]]
    BY DEF ProbeHit, TTTypeOK
  <2> QED BY <2>1, <2>2, <2>3, <2>4, <2>5, <2>6, <2>7 DEF TTTypeOK
<1>2. LocalsInv'
  BY DEF ProbeHit, GoTo, TTTypeOK, LocalsInv, Locals, Saving
<1>3. AgesInv'
  BY DEF ProbeHit, AgesInv
<1>4. OwnInv'
  BY DEF ProbeHit, GoTo, OwnInv, Own, Whole, ValueOfKey, MoveOfKey, Saving
<1> QED BY <1>1, <1>2, <1>3, <1>4

LEMMA ProbeMissKeeps == ASSUME HashInv, NEW t \in TTThreads, ProbeMiss(t) PROVE HashInv'
<1> USE DEF HashInv
<1>0. Replaced \in Slots
  BY ReplacedIsSlot
<1>1. TTTypeOK'
  <2>1. UNCHANGED <<table, generation8, searches, born, writers, saves>>
    BY DEF ProbeMiss
  <2>2. ttpc' \in [TTThreads -> Places]
    BY <1>0, ClusterAssumption DEF ProbeMiss, GoTo, TTTypeOK, Places
  <2>3. ttkey' \in [TTThreads -> Data]
    BY <1>0, ClusterAssumption DEF ProbeMiss, TTTypeOK
  <2>4. ttslot' \in [TTThreads -> 1 .. ClusterSize + 1]
    BY <1>0, ClusterAssumption DEF ProbeMiss, TTTypeOK, Slots
  <2>5. tthit' \in [TTThreads -> BOOLEAN]
    BY <1>0, ClusterAssumption DEF ProbeMiss, TTTypeOK
  <2>6. ttdepth' \in [TTThreads -> 0 .. 255]
    BY <1>0, ClusterAssumption DEF ProbeMiss, TTTypeOK
  <2>7. ttarg' \in [TTThreads -> [pv : {0, 1}, b : 0 .. 3, d : 0 .. 255]]
    BY <1>0, ClusterAssumption DEF ProbeMiss, TTTypeOK
  <2> QED BY <2>1, <2>2, <2>3, <2>4, <2>5, <2>6, <2>7 DEF TTTypeOK
<1>2. LocalsInv'
  BY <1>0, ClusterAssumption DEF ProbeMiss, GoTo, TTTypeOK, LocalsInv, Locals, Saving
<1>3. AgesInv'
  BY DEF ProbeMiss, AgesInv
<1>4. OwnInv'
  BY DEF ProbeMiss, GoTo, OwnInv, Own, Whole, ValueOfKey, MoveOfKey, Saving
<1> QED BY <1>1, <1>2, <1>3, <1>4

LEMMA ReadDepthKeeps == ASSUME HashInv, NEW t \in TTThreads, ReadDepth(t) PROVE HashInv'
<1> USE DEF HashInv
<1>1. TTTypeOK'
  <2>1. UNCHANGED <<table, generation8, searches, born, writers, saves>>
    BY DEF ReadDepth
  <2>2. ttpc' \in [TTThreads -> Places]
    BY DEF ReadDepth, GoTo, TTTypeOK, Places
  <2>3. ttkey' \in [TTThreads -> Data]
    BY DEF ReadDepth, TTTypeOK
  <2>4. ttslot' \in [TTThreads -> 1 .. ClusterSize + 1]
    BY DEF ReadDepth, TTTypeOK
  <2>5. tthit' \in [TTThreads -> BOOLEAN]
    BY DEF ReadDepth, TTTypeOK
  <2>6. ttdepth' \in [TTThreads -> 0 .. 255]
    <3>1. ttslot[t] \in Slots
      BY DEF ReadDepth, LocalsInv, Locals
    <3>2. table[ttslot[t]].depth8 \in 0 .. 255
      BY <3>1 DEF TTTypeOK, Entry
    <3> QED BY <3>2 DEF ReadDepth, TTTypeOK
  <2>7. ttarg' \in [TTThreads -> [pv : {0, 1}, b : 0 .. 3, d : 0 .. 255]]
    BY DEF ReadDepth, TTTypeOK
  <2> QED BY <2>1, <2>2, <2>3, <2>4, <2>5, <2>6, <2>7 DEF TTTypeOK
<1>2. LocalsInv'
  BY DEF ReadDepth, GoTo, is_occupied, TTTypeOK, LocalsInv, Locals, Saving
<1>3. AgesInv'
  BY DEF ReadDepth, AgesInv
<1>4. OwnInv'
  BY DEF ReadDepth, GoTo, OwnInv, Own, Whole, ValueOfKey, MoveOfKey, Saving
<1> QED BY <1>1, <1>2, <1>3, <1>4

\* What a call leaves when it returns.
LEMMA ReturnTypes ==
  ASSUME TTTypeOK, NEW t \in TTThreads, Return(t)
  PROVE  /\ ttpc' \in [TTThreads -> Places]
         /\ ttkey' \in [TTThreads -> Data] /\ ttslot' \in [TTThreads -> 1 .. ClusterSize + 1]
         /\ tthit' \in [TTThreads -> BOOLEAN] /\ ttdepth' \in [TTThreads -> 0 .. 255]
         /\ ttarg' \in [TTThreads -> [pv : {0, 1}, b : 0 .. 3, d : 0 .. 255]]
<1> USE DEF Return, GoTo, TTTypeOK
<1>1. ttpc' \in [TTThreads -> Places]
  BY DEF Places, Places
<1>2. ttkey' \in [TTThreads -> Data]
  BY DEF Data
<1>3. ttslot' \in [TTThreads -> 1 .. ClusterSize + 1]
  BY ClusterAssumption
<1>4. tthit' \in [TTThreads -> BOOLEAN]
  OBVIOUS
<1>5. ttdepth' \in [TTThreads -> 0 .. 255]
  <2>1. ttdepth' = [ttdepth EXCEPT ![t] = 0]
    OBVIOUS
  <2>2. \A R : ttdepth \in [TTThreads -> R] /\ 0 \in R => [ttdepth EXCEPT ![t] = 0] \in [TTThreads -> R]
    OBVIOUS
  <2>3. 0 \in 0 .. 255 /\ ttdepth \in [TTThreads -> 0 .. 255]
    OBVIOUS
  <2> QED BY ONLY <2>1, <2>2, <2>3
<1>6. ttarg' \in [TTThreads -> [pv : {0, 1}, b : 0 .. 3, d : 0 .. 255]]
  BY DEF NoArg
<1> QED BY <1>1, <1>2, <1>3, <1>4, <1>5, <1>6

LEMMA DiscardKeeps == ASSUME HashInv, NEW t \in TTThreads, Discard(t) PROVE HashInv'
<1> USE DEF HashInv
<1>1. TTTypeOK'
  BY ReturnTypes DEF Discard, TTTypeOK
<1>2. LocalsInv'
  <2>1. Return(t) /\ UNCHANGED <<table, writers>>
    BY DEF Discard
  <2> SUFFICES ASSUME NEW u \in TTThreads PROVE Locals(u)'
    BY DEF LocalsInv
  <2>2. Locals(u)
    BY DEF LocalsInv
  <2>3. 1 \in Slots
    BY ClusterAssumption DEF Slots
  <2>4. CASE u = t
    BY <2>1, <2>3, <2>4 DEF Return, GoTo, Locals, Saving, TTTypeOK
  <2>5. CASE u # t
    BY <2>1, <2>2, <2>5 DEF Return, GoTo, Locals
  <2> QED BY <2>4, <2>5
<1>3. AgesInv'
  BY DEF Discard, AgesInv
<1>4. OwnInv'
  BY DEF Discard, GoTo, Return, OwnInv, Own, Whole, ValueOfKey, MoveOfKey, Saving
<1> QED BY <1>1, <1>2, <1>3, <1>4

LEMMA SaveMoveKeeps ==
  ASSUME HashInv, NEW t \in TTThreads, NEW work \in Works, NEW m \in {NoKey, ttkey[t]}, SaveMove(t, work, m)
  PROVE  HashInv'
<1> USE DEF HashInv
<1>0. ttpc[t] = "probed"
  BY DEF SaveMove
<1>p. PICK a \in Slots : a = ttslot[t]
  BY <1>0 DEF LocalsInv, Locals
<1>a. /\ ttpc[t] = "probed" /\ saves' = saves + 1 /\ saves < MaxSaves
      /\ ttarg' = [ttarg EXCEPT ![t] = work] /\ ttpc' = [ttpc EXCEPT ![t] = "worth"]
      /\ writers' = [writers EXCEPT ![a] = @ \cup {t}]
      /\ UNCHANGED <<generation8, searches, born, ttkey, ttslot, tthit, ttdepth>>
  BY <1>p DEF SaveMove, GoTo
<1>b. a \in Slots /\ a = ttslot[t] /\ ttkey[t] \in Keys /\ m \in Data
  BY <1>0, <1>p DEF LocalsInv, Locals, Data
<1>e. table \in [Slots -> Entry] /\ table[a] \in Entry
  BY <1>p DEF TTTypeOK
<1>c. PICK mv \in Data : /\ table' = [table EXCEPT ![a] = [table[a] EXCEPT !.move16 = mv]]
                         /\ mv = m \/ (mv = table[a].move16 /\ m = NoKey /\ Key16[ttkey[t]] = table[a].key16)
  <2>1. CASE m # NoKey \/ Key16[ttkey[t]] # table[a].key16
    <3>1. table' = [table EXCEPT ![a] = [table[a] EXCEPT !.move16 = m]]
      BY <1>b, <2>1 DEF SaveMove
    <3>2. m \in Data
      BY <1>b
    <3> QED BY <3>1, <3>2
  <2>2. CASE ~(m # NoKey \/ Key16[ttkey[t]] # table[a].key16)
    <3>1. table' = table /\ table[a].move16 \in Data
      BY <1>b, <1>e, <2>2 DEF SaveMove, Entry
    <3>2. [table[a] EXCEPT !.move16 = table[a].move16] = table[a]
      BY <1>e DEF Entry
    <3>3. table = [table EXCEPT ![a] = table[a]]
      BY <1>e
    <3>4. m = NoKey /\ Key16[ttkey[t]] = table[a].key16
      BY <2>2
    <3> QED BY <3>1, <3>2, <3>3, <3>4
  <2> QED BY <2>1, <2>2
<1>d. /\ \A s \in Slots : table'[s].key16 = table[s].key16 /\ table'[s].depth8 = table[s].depth8
                        /\ table'[s].genBound8 = table[s].genBound8 /\ table'[s].value16 = table[s].value16
      /\ \A s \in Slots : s # a => table'[s].move16 = table[s].move16
      /\ table'[a].move16 = mv
  BY <1>b, <1>c, <1>e DEF Entry
<1>1. TTTypeOK'
  <2>1. table' \in [Slots -> Entry]
    <3>1. [table[a] EXCEPT !.move16 = mv] \in Entry
      BY <1>c, <1>e DEF Entry
    <3> QED BY <1>b, <1>c, <1>e, <3>1
  <2>2. ttarg' \in [TTThreads -> [pv : {0, 1}, b : 0 .. 3, d : 0 .. 255]]
    <3>1. work \in [pv : {0, 1}, b : 0 .. 3, d : 0 .. 255]
      BY WorksAssumption
    <3> QED BY <1>a, <3>1 DEF TTTypeOK
  <2>3. saves' \in 0 .. MaxSaves
    BY <1>a, TTBoundsAssumption DEF TTTypeOK
  <2>4. writers' \in [Slots -> SUBSET TTThreads]
    BY <1>a, <1>b DEF TTTypeOK
  <2>5. ttpc' \in [TTThreads -> Places]
    BY <1>a DEF TTTypeOK, Places
  <2> QED BY <1>a, <2>1, <2>2, <2>3, <2>4, <2>5 DEF TTTypeOK
<1>2. LocalsInv'
  <2> SUFFICES ASSUME NEW u \in TTThreads PROVE Locals(u)'
    BY DEF LocalsInv
  <2>1. Locals(u)
    BY DEF LocalsInv
  <2>2. CASE u = t
    BY <1>a, <1>b, <2>1, <2>2 DEF Locals, Saving, TTTypeOK
  <2>3. CASE u # t
    BY <1>a, <1>b, <1>d, <2>1, <2>3 DEF Locals, is_occupied
  <2> QED BY <2>2, <2>3
<1>3. AgesInv'
  BY <1>a, <1>d DEF AgesInv
<1>4. OwnInv'
  <2> SUFFICES ASSUME NEW s \in Slots PROVE /\ writers'[s] = {} => table'[s] = Empty
                                            /\ \A u \in TTThreads : writers'[s] = {u} => Own(s, u)'
    BY DEF OwnInv
  <2>1. CASE s # a
    <3>1. writers'[s] = writers[s] /\ table'[s] = table[s]
      BY <1>a, <1>b, <1>c, <1>e, <2>1 DEF TTTypeOK
    <3>2. \A u \in TTThreads : writers[s] = {u} => Own(s, u)
      BY DEF OwnInv
    <3>3. ASSUME NEW u \in TTThreads, Own(s, u) PROVE Own(s, u)'
      <4>1. ttslot'[u] = ttslot[u] /\ ttkey'[u] = ttkey[u]
        BY <1>a
      <4>2. CASE u # t
        BY <1>a, <3>1, <3>3, <4>1, <4>2 DEF Own, Whole, ValueOfKey, MoveOfKey
      <4>3. CASE u = t
        BY <1>a, <1>b, <2>1, <3>1, <3>3, <4>1, <4>3 DEF Own, Whole, ValueOfKey, MoveOfKey
      <4> QED BY <4>2, <4>3
    <3> QED BY <3>1, <3>2, <3>3 DEF OwnInv
  <2>2. CASE s = a
    <3>1. t \in writers'[a] /\ writers'[a] = writers[a] \cup {t}
      BY <1>a, <1>b DEF TTTypeOK
    <3>2. ASSUME writers'[a] = {t} PROVE Own(a, t)'
      <4>1. writers[a] = {} \/ writers[a] = {t}
        BY <3>1, <3>2
      <4>2. writers[a] = {} => table[a].move16 = NoKey /\ ~is_occupied(table[a])
        BY <1>b DEF OwnInv, Empty, is_occupied
      <4>3. writers[a] = {t} => Whole(a)
        BY <1>a, <1>b DEF OwnInv, Own, Saving
      <4>4. is_occupied(table[a]) => ValueOfKey(a, table[a].key16)
        BY <4>1, <4>2, <4>3 DEF Whole
      <4>5. mv # NoKey => Key16[mv] = Key16[ttkey[t]]
        BY <1>b, <1>c, <4>1, <4>2, <4>3 DEF Whole, MoveOfKey
      <4>6. ttpc'[t] = "worth" /\ ttslot'[t] = a /\ ttkey'[t] = ttkey[t]
        BY <1>a, <1>b DEF TTTypeOK
      <4> QED BY <1>b, <1>d, <4>4, <4>5, <4>6 DEF Own, Saving, ValueOfKey, MoveOfKey, is_occupied
    <3> QED BY <2>2, <3>1, <3>2
  <2> QED BY <2>1, <2>2
<1> QED BY <1>1, <1>2, <1>3, <1>4

LEMMA SaveWorthKeeps == ASSUME HashInv, NEW t \in TTThreads, SaveWorth(t) PROVE HashInv'
<1> USE DEF HashInv
<1>a. ttpc[t] = "worth" /\ UNCHANGED <<table, generation8, searches, born, writers, saves>>
  BY DEF SaveWorth
<1>b. AgesInv'
  BY <1>a DEF AgesInv
<1>1. CASE Overwrites(t)
  <2>1. ttpc' = [ttpc EXCEPT ![t] = "wkey"] /\ UNCHANGED <<ttkey, ttslot, tthit, ttdepth, ttarg>>
    BY <1>1 DEF SaveWorth, GoTo
  <2>2. TTTypeOK'
    BY <1>a, <2>1 DEF TTTypeOK, Places
  <2>3. LocalsInv'
    BY <1>a, <2>1 DEF LocalsInv, Locals, Saving
  <2>4. OwnInv'
    BY <1>a, <2>1 DEF OwnInv, Own, Saving, Whole, ValueOfKey, MoveOfKey
  <2> QED BY <1>b, <2>2, <2>3, <2>4
<1>2. CASE ~Overwrites(t)
  <2>1. Return(t)
    BY <1>2 DEF SaveWorth
  <2>2. TTTypeOK'
    BY <1>a, <2>1, ReturnTypes DEF TTTypeOK
  <2>3. LocalsInv'
    BY <1>a, <2>1, ClusterAssumption DEF Return, GoTo, LocalsInv, Locals, Saving, Slots, TTTypeOK
  <2>4. ttslot[t] \in Slots /\ ttarg[t].d \in 1 .. 255 /\ ttarg[t].pv \in {0, 1} /\ table[ttslot[t]].depth8 \in 0 .. 255
    BY <1>a, WorksAssumption DEF LocalsInv, Locals, Saving, TTTypeOK, Entry
  <2>5. is_occupied(table[ttslot[t]]) /\ Key16[ttkey[t]] = table[ttslot[t]].key16
    BY <1>2, <2>4 DEF Overwrites, is_occupied
  <2>6. writers[ttslot[t]] = {t} => Whole(ttslot[t])
    BY <1>a, <2>4, <2>5 DEF OwnInv, Own, Whole
  <2>7. OwnInv'
    <3> SUFFICES ASSUME NEW s \in Slots, NEW u \in TTThreads, writers[s] = {u} PROVE Own(s, u)'
      BY <1>a DEF OwnInv
    <3>1. CASE u = t /\ s = ttslot[t]
      BY <1>a, <2>1, <2>6, <3>1 DEF Return, GoTo, Own, Whole, ValueOfKey, MoveOfKey, Saving, TTTypeOK
    <3>2. CASE u = t /\ s # ttslot[t]
      BY <1>a, <2>1, <3>2 DEF Return, GoTo, OwnInv, Own, Whole, ValueOfKey, MoveOfKey, Saving, TTTypeOK
    <3>3. CASE u # t
      BY <1>a, <2>1, <3>3 DEF Return, GoTo, OwnInv, Own, Whole, ValueOfKey, MoveOfKey
    <3> QED BY <3>1, <3>2, <3>3
  <2> QED BY <1>b, <2>2, <2>3, <2>7
<1> QED BY <1>1, <1>2

\* One field of the entry is stored.
LEMMA SaveFieldKeeps == ASSUME HashInv, NEW t \in TTThreads, SaveField(t) PROVE HashInv'
<1> USE DEF HashInv
<1>0. ttpc[t] \in Saving \ {"worth"} /\ UNCHANGED <<generation8, searches, writers, saves>>
  BY DEF SaveField, Saving
<1>p. PICK a \in Slots : a = ttslot[t]
  BY <1>0 DEF LocalsInv, Locals, Saving
<1>a. /\ ttkey[t] \in Keys /\ ttarg[t] \in Works /\ t \in writers[a] /\ Key16[ttkey[t]] \in Nat
      /\ ttpc[t] = "wvalue" => is_occupied(table[a])
  BY <1>0, <1>p, KeysAssumption DEF LocalsInv, Locals, Saving
<1>b. table \in [Slots -> Entry] /\ table[a] \in Entry
  BY <1>p DEF TTTypeOK
<1>c. ttarg[t].d \in 1 .. 255 /\ ttarg[t].pv \in {0, 1} /\ ttarg[t].b \in 1 .. 3
  BY <1>a, WorksAssumption
\* What the four stores have in common.
<1>1. ASSUME NEW e \in Entry, table' = [table EXCEPT ![a] = e],
             is_occupied(table[a]) => is_occupied(e),
             NEW n \in Nat, born' = [born EXCEPT ![a] = n],
             \E low \in 0 .. 7 : e.genBound8 = 8 * (n % Generations) + low,
             NEW pc \in {"wdepth", "wbound", "wvalue"}, ttpc' = [ttpc EXCEPT ![t] = pc],
             pc \in {"wbound", "wvalue"} => is_occupied(e),
             UNCHANGED <<ttkey, ttslot, tthit, ttdepth, ttarg>>,
             e.move16 = table[a].move16, e.value16 = table[a].value16,
             writers[a] = {t} => e.key16 = Key16[ttkey[t]]
      PROVE  HashInv'
  <2>1. TTTypeOK'
    BY <1>0, <1>1, <1>b DEF TTTypeOK, Places
  <2>2. LocalsInv'
    <3> SUFFICES ASSUME NEW u \in TTThreads PROVE Locals(u)'
      BY DEF LocalsInv
    <3>1. Locals(u)
      BY DEF LocalsInv
    <3>2. \A s \in Slots : is_occupied(table[s]) => is_occupied(table'[s])
      BY <1>1, <1>b
    <3>3. CASE u = t
      BY <1>0, <1>1, <1>a, <1>b, <1>p, <3>1, <3>3 DEF Locals, Saving, TTTypeOK
    <3>4. CASE u # t
      BY <1>0, <1>1, <3>1, <3>2, <3>4 DEF Locals, Saving, TTTypeOK
    <3> QED BY <3>3, <3>4
  <2>3. AgesInv'
    <3> SUFFICES ASSUME NEW s \in Slots PROVE \E low \in 0 .. 7 : table'[s].genBound8 = 8 * (born'[s] % Generations) + low
      BY <1>0 DEF AgesInv
    <3>1. CASE s = a
      <4>1. table'[s] = e /\ born'[s] = n
        BY <1>1, <1>b, <3>1 DEF TTTypeOK
      <4> QED BY <1>1, <4>1
    <3>2. CASE s # a
      <4>1. table'[s] = table[s] /\ born'[s] = born[s]
        BY <1>1, <1>b, <3>2 DEF TTTypeOK
      <4> QED BY <4>1 DEF AgesInv
    <3> QED BY <3>1, <3>2
  <2>4. OwnInv'
    <3>1. \A s \in Slots \ {a} : table'[s] = table[s]
      BY <1>1, <1>b
    <3>2. ASSUME NEW s \in Slots, NEW u \in TTThreads, writers[s] = {u} PROVE Own(s, u)'
      <4>1. CASE s = a
        BY <1>0, <1>1, <1>a, <1>b, <1>p, <3>2, <4>1 DEF OwnInv, Own, MoveOfKey, Saving
      <4>2. CASE s # a
        <5>1. table'[s] = table[s] /\ Own(s, u)
          BY <3>1, <3>2, <4>2 DEF OwnInv
        <5>2. CASE u = t
          BY <1>0, <1>1, <1>p, <4>2, <5>1, <5>2 DEF Own, Whole, ValueOfKey, MoveOfKey
        <5>3. CASE u # t
          BY <1>0, <1>1, <5>1, <5>3 DEF Own, Whole, ValueOfKey, MoveOfKey
        <5> QED BY <5>2, <5>3
      <4> QED BY <4>1, <4>2
    <3>3. ASSUME NEW s \in Slots, writers[s] = {} PROVE table'[s] = Empty
      BY <1>a, <3>1, <3>3 DEF OwnInv
    <3> QED BY <1>0, <3>2, <3>3 DEF OwnInv
  <2> QED BY <2>1, <2>2, <2>3, <2>4
\* The byte of an entry, and what a store leaves of the others.
<1>3. \E low \in 0 .. 7 : table[a].genBound8 = 8 * (born[a] % Generations) + low
  BY DEF AgesInv
<1>4. born[a] \in Nat /\ searches \in Nat /\ born = [born EXCEPT ![a] = born[a]]
  BY DEF TTTypeOK
<1>5. CASE ttpc[t] = "wkey"
  <2>1. PICK e \in Entry : e = [table[a] EXCEPT !.key16 = Key16[ttkey[t]]]
    BY <1>a, <1>b DEF Entry
  <2>2. /\ table' = [table EXCEPT ![a] = e] /\ ttpc' = [ttpc EXCEPT ![t] = "wdepth"]
        /\ UNCHANGED <<born, ttkey, ttslot, tthit, ttdepth, ttarg>>
    BY <1>5, <1>p, <2>1 DEF SaveField, GoTo
  <2>3. /\ is_occupied(table[a]) => is_occupied(e)
        /\ e.genBound8 = table[a].genBound8 /\ e.move16 = table[a].move16 /\ e.value16 = table[a].value16
        /\ e.key16 = Key16[ttkey[t]]
    BY <1>b, <2>1 DEF Entry, is_occupied
  <2>4. born' = [born EXCEPT ![a] = born[a]]
    BY <1>4, <2>2
  <2> QED BY <1>1, <1>3, <1>4, <2>2, <2>3, <2>4
<1>6. CASE ttpc[t] = "wdepth"
  <2>1. PICK e \in Entry : e = [table[a] EXCEPT !.depth8 = ttarg[t].d]
    <3>1. ttarg[t].d \in 0 .. 255
      BY <1>c
    <3>2. [table[a] EXCEPT !.depth8 = ttarg[t].d] \in Entry
      BY <1>b, <3>1 DEF Entry
    <3> QED BY <3>2
  <2>2. /\ table' = [table EXCEPT ![a] = e] /\ ttpc' = [ttpc EXCEPT ![t] = "wbound"]
        /\ UNCHANGED <<born, ttkey, ttslot, tthit, ttdepth, ttarg>>
    BY <1>6, <1>p, <2>1 DEF SaveField, GoTo
  <2>3. /\ is_occupied(e) /\ e.key16 = table[a].key16
        /\ e.genBound8 = table[a].genBound8 /\ e.move16 = table[a].move16 /\ e.value16 = table[a].value16
    BY <1>b, <1>c, <2>1 DEF Entry, is_occupied
  <2>4. writers[a] = {t} => table[a].key16 = Key16[ttkey[t]]
    BY <1>6, <1>p DEF OwnInv, Own
  <2>5. born' = [born EXCEPT ![a] = born[a]]
    BY <1>4, <2>2
  <2> QED BY <1>1, <1>3, <1>4, <2>2, <2>3, <2>4, <2>5
<1>7. CASE ttpc[t] = "wbound"
  <2>1. PICK low \in 0 .. 7 : generation8 + 4 * ttarg[t].pv + ttarg[t].b = 8 * (searches % Generations) + low
    <3>1. 4 * ttarg[t].pv + ttarg[t].b \in 0 .. 7
      BY <1>c
    <3>2. generation8 = 8 * (searches % Generations) /\ searches % Generations \in 0 .. Generations - 1
      BY <1>4, GenerationsAssumption, ModIsRest DEF AgesInv
    <3>3. generation8 \in Int
      BY <3>2, GenerationsAssumption
    <3>4. generation8 + 4 * ttarg[t].pv + ttarg[t].b = generation8 + (4 * ttarg[t].pv + ttarg[t].b)
      BY <1>c, <3>3
    <3> QED BY <3>1, <3>2, <3>4
  <2> DEFINE gb == generation8 + 4 * ttarg[t].pv + ttarg[t].b
  <2>2. gb \in 0 .. Modulus - 1
    <3>1. searches % Generations \in 0 .. Generations - 1
      BY <1>4, GenerationsAssumption, ModIsRest
    <3> QED BY <2>1, <3>1, ModulusFacts, GenerationsAssumption
  <2>3. PICK e \in Entry : e = [table[a] EXCEPT !.genBound8 = gb]
    <3> HIDE DEF gb
    <3> QED BY <1>b, <2>2 DEF Entry
  <2>4. /\ table' = [table EXCEPT ![a] = e] /\ ttpc' = [ttpc EXCEPT ![t] = "wvalue"]
        /\ born' = [born EXCEPT ![a] = searches] /\ UNCHANGED <<ttkey, ttslot, tthit, ttdepth, ttarg>>
    BY <1>7, <1>p, <2>3 DEF SaveField, GoTo
  <2>5. /\ e.genBound8 = gb /\ e.key16 = table[a].key16 /\ e.depth8 = table[a].depth8
        /\ e.move16 = table[a].move16 /\ e.value16 = table[a].value16
    <3> HIDE DEF gb
    <3> QED BY <1>b, <2>3 DEF Entry
  <2>6. is_occupied(table[a])
    BY <1>7, <1>p DEF LocalsInv, Locals
  <2>7. writers[a] = {t} => table[a].key16 = Key16[ttkey[t]]
    BY <1>7, <1>p DEF OwnInv, Own
  <2>8. is_occupied(e)
    BY <2>5, <2>6 DEF is_occupied
  <2>9. \E l \in 0 .. 7 : e.genBound8 = 8 * (searches % Generations) + l
    BY <2>1, <2>5
  <2> HIDE DEF gb
  <2> QED BY <1>1, <1>4, <2>4, <2>5, <2>7, <2>8, <2>9
<1>8. CASE ttpc[t] = "wvalue"
  <2>1. PICK e \in Entry : e = [table[a] EXCEPT !.value16 = ttkey[t]]
    BY <1>a, <1>b DEF Entry, Data
  <2>2. table' = [table EXCEPT ![a] = e] /\ Return(t) /\ UNCHANGED born
    BY <1>8, <1>p, <2>1 DEF SaveField
  <2>3. /\ e.genBound8 = table[a].genBound8 /\ e.key16 = table[a].key16 /\ e.depth8 = table[a].depth8
        /\ e.move16 = table[a].move16 /\ e.value16 = ttkey[t]
    BY <1>b, <2>1 DEF Entry
  <2>4. /\ \A s \in Slots : is_occupied(table'[s]) <=> is_occupied(table[s])
        /\ \A s \in Slots : table'[s].genBound8 = table[s].genBound8
        /\ \A s \in Slots \ {a} : table'[s] = table[s]
        /\ table'[a] = e
    BY <1>b, <2>2, <2>3 DEF is_occupied
  <2>5. TTTypeOK'
    <3>1. table' \in [Slots -> Entry]
      BY <1>b, <2>2
    <3> QED BY <1>0, <2>2, <3>1, ReturnTypes DEF TTTypeOK
  <2>6. LocalsInv'
    <3> SUFFICES ASSUME NEW u \in TTThreads PROVE Locals(u)'
      BY DEF LocalsInv
    <3>1. Locals(u) /\ 1 \in Slots
      BY ClusterAssumption DEF LocalsInv, Slots
    <3>2. CASE u = t
      BY <2>2, <3>1, <3>2 DEF Return, GoTo, Locals, Saving, TTTypeOK
    <3>3. CASE u # t
      BY <1>0, <2>2, <2>4, <3>1, <3>3 DEF Return, GoTo, Locals
    <3> QED BY <3>2, <3>3
  <2>7. AgesInv'
    BY <1>0, <2>2, <2>4 DEF AgesInv
  <2>8. OwnInv'
    <3>1. ASSUME NEW s \in Slots, NEW u \in TTThreads, writers[s] = {u} PROVE Own(s, u)'
      <4>1. Own(s, u)
        BY <3>1 DEF OwnInv
      <4>2. CASE s = a
        <5>1. u = t
          BY <1>a, <3>1, <4>2
        <5>2. ttpc'[t] = "idle"
          BY <2>2 DEF Return, GoTo, TTTypeOK
        <5>3. MoveOfKey(a, Key16[ttkey[t]]) /\ table[a].key16 = Key16[ttkey[t]] /\ is_occupied(table[a])
          BY <1>8, <1>a, <1>p, <4>1, <4>2, <5>1 DEF Own, Saving
        <5>4. Whole(a)'
          BY <1>a, <2>3, <2>4, <5>3 DEF Whole, ValueOfKey, MoveOfKey
        <5> QED BY <4>2, <5>1, <5>2, <5>4 DEF Own, Saving
      <4>3. CASE s # a /\ u = t
        <5>1. Whole(s) /\ table'[s] = table[s] /\ ttpc'[t] = "idle"
          BY <1>p, <2>2, <2>4, <4>1, <4>3 DEF Own, Return, GoTo, TTTypeOK
        <5> QED BY <4>3, <5>1 DEF Own, Whole, ValueOfKey, MoveOfKey, Saving
      <4>4. CASE s # a /\ u # t
        <5>1. table'[s] = table[s] /\ ttpc'[u] = ttpc[u] /\ ttslot'[u] = ttslot[u] /\ ttkey'[u] = ttkey[u]
          BY <2>2, <2>4, <4>4 DEF Return, GoTo, TTTypeOK
        <5> QED BY <4>1, <5>1 DEF Own, Whole, ValueOfKey, MoveOfKey
      <4> QED BY <4>2, <4>3, <4>4
    <3>2. ASSUME NEW s \in Slots, writers[s] = {} PROVE table'[s] = Empty
      BY <1>a, <2>4, <3>2 DEF OwnInv
    <3> QED BY <1>0, <3>1, <3>2 DEF OwnInv
  <2> QED BY <2>5, <2>6, <2>7, <2>8
<1> QED BY <1>0, <1>5, <1>6, <1>7, <1>8 DEF Saving

LEMMA NewSearchKeeps == ASSUME HashInv, NewSearch PROVE HashInv'
<1> USE DEF HashInv
<1>1. searches' = searches + 1 /\ searches \in Nat /\ generation8' = 8 * ((searches + 1) % Generations)
  BY NextGeneration DEF NewSearch, AgesInv, TTTypeOK
<1>2. UNCHANGED <<table, born, writers, ttpc, ttkey, ttslot, tthit, ttdepth, ttarg, saves>>
  BY DEF NewSearch
<1>3. TTTypeOK'
  <2>1. (searches + 1) % Generations \in 0 .. Generations - 1
    <3>1. searches + 1 \in Int
      BY <1>1
    <3> QED BY <3>1, GenerationsAssumption, ModIsRest
  <2>2. generation8' \in {GENERATION_DELTA * i : i \in 0 .. Generations - 1} /\ searches' \in Nat
    BY <1>1, <2>1, ModulusFacts
  <2> QED BY <1>2, <2>2 DEF TTTypeOK
<1>4. LocalsInv' /\ OwnInv'
  BY <1>2 DEF LocalsInv, Locals, OwnInv, Own, Whole, ValueOfKey, MoveOfKey
<1>5. AgesInv'
  BY <1>1, <1>2 DEF AgesInv
<1> QED BY <1>3, <1>4, <1>5

LEMMA ClearTableKeeps == ASSUME HashInv, ClearTable PROVE HashInv'
<1> USE DEF HashInv
<1>1. /\ table' = [s \in Slots |-> Empty] /\ born' = [s \in Slots |-> 0] /\ writers' = [s \in Slots |-> {}]
      /\ generation8' = 0 /\ searches' = 0 /\ \A t \in TTThreads : ttpc[t] = "idle"
      /\ UNCHANGED <<ttpc, ttkey, ttslot, tthit, ttdepth, ttarg, saves>>
  BY DEF ClearTable, NoneSearching
<1>2. Empty \in Entry
  BY ModulusFacts DEF Empty, Entry, Data
<1>3. 0 % Generations = 0 /\ 0 \in 0 .. Generations - 1
  BY GenerationsAssumption, ModUnique, 0 = 0 * Generations + 0
<1>4. TTTypeOK'
  <2>1. generation8' \in {GENERATION_DELTA * i : i \in 0 .. Generations - 1}
    BY ModulusFacts, <1>1, <1>3, GENERATION_DELTA * 0 = 0
  <2> QED BY <1>1, <1>2, <2>1 DEF TTTypeOK
<1>5. LocalsInv'
  BY <1>1 DEF LocalsInv, Locals, Saving
<1>6. AgesInv'
  BY <1>1, <1>3 DEF AgesInv, Empty
<1>7. OwnInv'
  BY <1>1 DEF OwnInv
<1> QED BY <1>4, <1>5, <1>6, <1>7

LEMMA HashStepKeeps == HashInv /\ [TTNext]_ttVars => HashInv'
<1> SUFFICES ASSUME HashInv, [TTNext]_ttVars PROVE HashInv'
  OBVIOUS
<1>1. CASE UNCHANGED ttVars
  <2>1. TTTypeOK' /\ AgesInv'
    BY <1>1 DEF HashInv, ttVars, TTTypeOK, AgesInv
  <2>2. LocalsInv' /\ OwnInv'
    BY <1>1 DEF HashInv, ttVars, LocalsInv, Locals, OwnInv, Own, Whole, ValueOfKey, MoveOfKey
  <2> QED BY <2>1, <2>2 DEF HashInv
<1>2. ASSUME NEW t \in TTThreads, NEW k \in Keys, ProbeStart(t, k) PROVE HashInv'
  BY <1>2, ProbeStartKeeps
<1>3. ASSUME NEW t \in TTThreads,
             \/ ProbeSlot(t) \/ ProbeHit(t) \/ ProbeMiss(t) \/ ReadDepth(t) \/ Discard(t)
             \/ SaveWorth(t) \/ SaveField(t)
      PROVE  HashInv'
  BY <1>3, ProbeSlotKeeps, ProbeHitKeeps, ProbeMissKeeps, ReadDepthKeeps, DiscardKeeps, SaveWorthKeeps, SaveFieldKeeps
<1>4. ASSUME NEW t \in TTThreads, NEW work \in Works, NEW m \in {NoKey, ttkey[t]}, SaveMove(t, work, m)
      PROVE  HashInv'
  BY <1>4, SaveMoveKeeps
<1>5. CASE NewSearch \/ ClearTable
  BY <1>5, NewSearchKeeps, ClearTableKeeps
<1> QED BY <1>1, <1>2, <1>3, <1>4, <1>5 DEF TTNext

\* For any number of threads, keys and entries, any cycle of generations and any depths the
\* search may save: a probe (TranspositionTable::probe) that reports a hit returns a depth that
\* was stored, an entry that one thread wrote alone is of one position, and its age
\* (TTEntry::relative_age) counts searches modulo the cycle.
THEOREM HashIsRight == TTSpec => []HashRight
<1>1. TTSpec => []HashInv
  BY HashInitially, HashStepKeeps, PTL DEF TTSpec
<1> QED BY <1>1, HashInvMakesRight, PTL
=============================================================================
