---------------------------- MODULE SharedMemory ----------------------------
(***************************************************************************)
(* One named region of shared memory that the engine processes of a        *)
(* machine use for the same network (shm_linux.h, shm.h): the first to     *)
(* come creates and fills it, the others map it, the last to go removes    *)
(* its name. Every process leaves a sentinel file while it uses the        *)
(* region, so that a crashed user is not waited for.                       *)
(*                                                                         *)
(* The kernel's part is modelled by its promises: shm_open with O_EXCL is  *)
(* atomic, an unlinked region lives on for those who have it open, flock   *)
(* is released and the robust mutex is handed over when a process dies.    *)
(* The counter ref_count decides nothing (its accessor has no callers) and *)
(* is left out.                                                            *)
(***************************************************************************)
EXTENDS Integers, FiniteSets

CONSTANTS Instances, \* the SharedMemory objects, all of one name
          Processes,
          ProcessOf, \* the process of each object
          Regions,   \* identities of regions, enough for each user and the name
          NoRegion,  \* no region
          MaxOpens, MaxCrashes, MaxFaults \* bounds: calls of open, crashes and signals, failing system calls

ASSUME ProcessOfAssumption == ProcessOf \in [Instances -> Processes]
ASSUME RegionAssumption == NoRegion \notin Regions \cup Instances
ASSUME ShmBoundsAssumption == MaxOpens \in Nat /\ MaxCrashes \in Nat /\ MaxFaults \in Nat

VARIABLES
  region,    \* the region the name refers to
  content,   \* how far each region is: "new", "sized", "written", "ready"
  flocked,   \* the object that holds the lock on each region's file
  mutexed,   \* the holder of each region's mutex, "free" or "dead" (a dead owner)
  sentinels, \* processes with a sentinel file
  process,   \* "alive", "signalled" (its handler is in cleanup_all) or "dead"
  shmpc,     \* where each object is in open and close
  fd, mapped, created, retried, skip_unmap, \* its fields and locals
  remove,    \* why close removes the name: "unused", the directory is "unread", or "no"
  opens, crashes, faults, \* how often the bounded things happened
  unclean    \* whether a process ever died within a call or without one, or a call got no lock

shmVars == <<region, content, flocked, mutexed, sentinels, process, shmpc, fd, mapped,
             created, retried, skip_unmap, remove, opens, crashes, faults, unclean>>

Opening == {"create", "existing", "flock", "size", "write", "publish", "check", "mutex",
            "sentinel", "finish", "register"}
Closing == {"cflock", "cmutex", "drop", "scan", "unlink"}

\* "idle": no region; "open": in use; "local": the fallback, a copy of its own;
\* "gone": closed by a signal handler, the searches still read the mapping.
ShmInit ==
  /\ region = NoRegion /\ sentinels = {}
  /\ content = [r \in Regions |-> "new"]
  /\ flocked = [r \in Regions |-> NoRegion]
  /\ mutexed = [r \in Regions |-> "free"]
  /\ process = [p \in Processes |-> "alive"]
  /\ shmpc = [i \in Instances |-> "idle"]
  /\ fd = [i \in Instances |-> NoRegion]
  /\ mapped = [i \in Instances |-> NoRegion]
  /\ created = [i \in Instances |-> FALSE]
  /\ retried = [i \in Instances |-> FALSE]
  /\ skip_unmap = [i \in Instances |-> FALSE]
  /\ remove = [i \in Instances |-> "no"]
  /\ opens = 0 /\ crashes = 0 /\ faults = 0 /\ unclean = FALSE

OfProcess(p) == {i \in Instances : ProcessOf[i] = p}

\* The objects of a process are opened under one mutex and closed by one thread.
ProcessQuiet(p) == \A i \in OfProcess(p) : shmpc[i] \notin Opening \cup Closing

Unused(r) == r # region /\ \A i \in Instances : fd[i] # r /\ mapped[i] # r

At(i, where) == shmpc[i] = where
Step(i, where) == shmpc' = [shmpc EXCEPT ![i] = where]

\* SystemWideSharedConstant makes a backend, which calls open. (A call that begins under the
\* signal handler does what one does that has begun just before.)
Start(i) ==
  /\ At(i, "idle") /\ process[ProcessOf[i]] = "alive" /\ ProcessQuiet(ProcessOf[i])
  /\ opens < MaxOpens /\ opens' = opens + 1
  /\ Step(i, "create")
  /\ UNCHANGED <<region, content, flocked, mutexed, sentinels, process, fd, mapped, created,
                 retried, skip_unmap, remove, crashes, faults, unclean>>

\* shm_open with O_CREAT and O_EXCL.
Create(i) ==
  /\ At(i, "create")
  /\ \/ /\ region = NoRegion /\ \E x \in Regions : Unused(x)
        /\ LET r == CHOOSE x \in Regions : Unused(x) IN
           /\ region' = r /\ fd' = [fd EXCEPT ![i] = r]
           /\ content' = [content EXCEPT ![r] = "new"]
           /\ mutexed' = [mutexed EXCEPT ![r] = "free"]
        /\ created' = [created EXCEPT ![i] = TRUE]
        /\ Step(i, "flock")
     \/ /\ region # NoRegion
        /\ created' = [created EXCEPT ![i] = FALSE]
        /\ Step(i, "existing")
        /\ UNCHANGED <<region, fd, content, mutexed>>
  /\ UNCHANGED <<flocked, sentinels, process, mapped, retried, skip_unmap, remove, opens, crashes, faults, unclean>>

\* shm_open of what exists; it may be gone by now.
OpenExisting(i) ==
  /\ At(i, "existing")
  /\ retried' = [retried EXCEPT ![i] = @ /\ region # NoRegion]
  /\ fd' = [fd EXCEPT ![i] = region]
  /\ Step(i, IF region = NoRegion THEN "local" ELSE "flock")
  /\ UNCHANGED <<region, content, flocked, mutexed, sentinels, process, mapped, created,
                 skip_unmap, remove, opens, crashes, faults, unclean>>

\* lock_file(LOCK_EX), of open and of close.
LockFile(i) ==
  /\ shmpc[i] \in {"flock", "cflock"} /\ flocked[fd[i]] = NoRegion
  /\ flocked' = [flocked EXCEPT ![fd[i]] = i]
  /\ Step(i, IF At(i, "cflock") THEN "cmutex" ELSE IF created[i] THEN "size" ELSE "check")
  /\ UNCHANGED <<region, content, mutexed, sentinels, process, fd, mapped, created, retried,
                 skip_unmap, remove, opens, crashes, faults, unclean>>

\* The failing branches of open: unlink what is of no use, unmap, unlock,
\* close, and perhaps try once more.
GiveUp(i, unlinks, again) ==
  /\ region' = IF unlinks THEN NoRegion ELSE region
  /\ flocked' = [flocked EXCEPT ![fd[i]] = NoRegion]
  /\ mutexed' = IF mutexed[fd[i]] = i THEN [mutexed EXCEPT ![fd[i]] = "free"] ELSE mutexed
  /\ fd' = [fd EXCEPT ![i] = NoRegion]
  /\ mapped' = [mapped EXCEPT ![i] = NoRegion]
  /\ retried' = [retried EXCEPT ![i] = again /\ ~@]
  /\ Step(i, IF again /\ ~retried[i] THEN "create" ELSE "local")
  /\ UNCHANGED <<content, sentinels, process, created, skip_unmap, remove, opens, crashes, unclean>>

\* A system call under open fails: no room for the region, no mapping, no mutex, no
\* sentinel. Only a mutex of an existing region is worth a second try.
Fault(i) ==
  /\ shmpc[i] \in {"size", "write", "publish", "check", "mutex", "sentinel"}
  /\ faults < MaxFaults /\ faults' = faults + 1
  /\ GiveUp(i, created[i], At(i, "mutex") /\ ~created[i])

\* flock fails under open: the file is closed, a name that was created stays.
NoFileLock(i) ==
  /\ At(i, "flock") /\ Step(i, "local")
  /\ faults < MaxFaults /\ faults' = faults + 1
  /\ fd' = [fd EXCEPT ![i] = NoRegion]
  /\ retried' = [retried EXCEPT ![i] = FALSE]
  /\ unclean' = (unclean \/ created[i])
  /\ UNCHANGED <<region, content, flocked, mutexed, sentinels, process, mapped, created,
                 skip_unmap, remove, opens, crashes>>

\* setup_new_region: truncate and allocate, map and copy, publish.
SetupNewRegion(i) ==
  /\ \/ /\ At(i, "size") /\ Step(i, "write")
        /\ content' = [content EXCEPT ![fd[i]] = "sized"]
        /\ UNCHANGED mapped
     \/ /\ At(i, "write") /\ Step(i, "publish")
        /\ content' = [content EXCEPT ![fd[i]] = "written"]
        /\ mapped' = [mapped EXCEPT ![i] = fd[i]]
     \/ /\ At(i, "publish") /\ Step(i, "mutex")
        /\ content' = [content EXCEPT ![fd[i]] = "ready"]
        /\ UNCHANGED mapped
  /\ UNCHANGED <<region, flocked, mutexed, sentinels, process, fd, created, retried, skip_unmap, remove,
                 opens, crashes, faults, unclean>>

\* setup_existing_region: too small or not initialized is an invalid header.
SetupExistingRegion(i) ==
  /\ At(i, "check")
  /\ IF content[fd[i]] = "ready"
     THEN /\ mapped' = [mapped EXCEPT ![i] = fd[i]]
          /\ Step(i, "mutex")
          /\ UNCHANGED <<region, content, flocked, mutexed, sentinels, process, fd, created,
                         retried, skip_unmap, remove, opens, crashes, unclean>>
     ELSE GiveUp(i, TRUE, TRUE)
  /\ UNCHANGED faults

\* lock_shared_mutex, of open and of close; a dead owner's mutex is made
\* consistent and taken over.
LockSharedMutex(i) ==
  /\ shmpc[i] \in {"mutex", "cmutex"} /\ mutexed[fd[i]] \in {"free", "dead"}
  /\ mutexed' = [mutexed EXCEPT ![fd[i]] = i]
  /\ Step(i, IF At(i, "mutex") THEN "sentinel" ELSE "drop")
  /\ UNCHANGED <<region, content, flocked, sentinels, process, fd, mapped, created, retried,
                 skip_unmap, remove, opens, crashes, faults, unclean>>

\* create_sentinel_file_locked: a file that is there is removed first; only
\* this process makes it, so the second attempt succeeds.
CreateSentinelFile(i) ==
  /\ At(i, "sentinel")
  /\ IF ProcessOf[i] \in sentinels
     THEN sentinels' = sentinels \ {ProcessOf[i]} /\ UNCHANGED shmpc
     ELSE sentinels' = sentinels \cup {ProcessOf[i]} /\ Step(i, "finish")
  /\ UNCHANGED <<region, content, flocked, mutexed, process, fd, mapped, created, retried, skip_unmap, remove,
                 opens, crashes, faults, unclean>>

\* The end of open: both locks are released, then the object is registered; the handler
\* keeps the registry's mutex until its process ends.
Finish(i) ==
  /\ At(i, "finish")
  /\ mutexed' = [mutexed EXCEPT ![fd[i]] = "free"]
  /\ flocked' = [flocked EXCEPT ![fd[i]] = NoRegion]
  /\ retried' = [retried EXCEPT ![i] = FALSE]
  /\ Step(i, "register")
  /\ UNCHANGED <<region, content, sentinels, process, fd, mapped, created, skip_unmap, remove, opens, crashes,
                 faults, unclean>>
Register(i) ==
  /\ At(i, "register") /\ process[ProcessOf[i]] = "alive" /\ Step(i, "open")
  /\ UNCHANGED <<region, content, flocked, mutexed, sentinels, process, fd, mapped, created,
                 retried, skip_unmap, remove, opens, crashes, faults, unclean>>

\* An object that close_impl of the signal handler is at.
Handled(i) == shmpc[i] \in Closing /\ skip_unmap[i]

\* The destructor, which takes the object off the register first, or the signal handler for
\* one registered object after the other.
Close(i) ==
  /\ \/ /\ process[ProcessOf[i]] = "alive" /\ ProcessQuiet(ProcessOf[i])
        /\ \/ At(i, "open") /\ Step(i, "cflock")
           \/ At(i, "local") /\ Step(i, "idle")
        /\ UNCHANGED skip_unmap
     \/ /\ process[ProcessOf[i]] = "signalled" /\ \A k \in OfProcess(ProcessOf[i]) : ~Handled(k)
        /\ At(i, "open") /\ Step(i, "cflock")
        /\ skip_unmap' = [skip_unmap EXCEPT ![i] = TRUE]
  /\ UNCHANGED <<region, content, flocked, mutexed, sentinels, process, fd, mapped, created,
                 retried, remove, opens, crashes, faults, unclean>>

RemoveSentinelFile(i) ==
  /\ At(i, "drop") /\ Step(i, "scan")
  /\ sentinels' = sentinels \ {ProcessOf[i]}
  /\ UNCHANGED <<region, content, flocked, mutexed, process, fd, mapped, created, retried, skip_unmap, remove,
                 opens, crashes, faults, unclean>>

\* pid_is_alive
Alive(p) == process[p] # "dead"

\* has_other_live_sentinels_locked reads the directory in some order, removes the files of
\* the dead and stops at the first living one; a directory that cannot be read has none.
ScanSentinels(i) ==
  /\ At(i, "scan") /\ Step(i, "unlink")
  /\ LET living == {p \in sentinels : Alive(p)}
     IN  \/ /\ living = {} /\ sentinels' = {}
            /\ remove' = [remove EXCEPT ![i] = "unused"] /\ UNCHANGED faults
         \/ /\ living # {} /\ \E stale \in SUBSET (sentinels \ living) : sentinels' = sentinels \ stale
            /\ UNCHANGED <<remove, faults>>
         \/ /\ faults < MaxFaults /\ faults' = faults + 1
            /\ remove' = [remove EXCEPT ![i] = "unread"] /\ UNCHANGED sentinels
  /\ mutexed' = [mutexed EXCEPT ![fd[i]] = "free"]
  /\ UNCHANGED <<region, content, flocked, process, fd, mapped, created, retried, skip_unmap, opens, crashes, unclean>>

\* Mutant: the signal handler unmaps what the searches read.
UnmapsAlways(i) == TRUE

\* Whether close unmaps: not when the searches may still be running.
Unmaps(i) == ~skip_unmap[i]

\* The end of close: unmap, unlink, unlock, close the file.
Leave(i) ==
  /\ mapped' = IF Unmaps(i) THEN [mapped EXCEPT ![i] = NoRegion] ELSE mapped
  /\ flocked' = IF flocked[fd[i]] = i THEN [flocked EXCEPT ![fd[i]] = NoRegion] ELSE flocked
  /\ fd' = [fd EXCEPT ![i] = NoRegion]
  /\ Step(i, IF skip_unmap[i] THEN "gone" ELSE "idle")
  /\ skip_unmap' = [skip_unmap EXCEPT ![i] = FALSE]
  /\ UNCHANGED <<content, mutexed, process, created, retried, opens, crashes>>
Unlink(i) ==
  /\ At(i, "unlink") /\ Leave(i)
  /\ region' = IF remove[i] # "no" THEN NoRegion ELSE region
  /\ remove' = [remove EXCEPT ![i] = "no"]
  /\ UNCHANGED <<sentinels, faults, unclean>>

\* Without the file's lock or the mutex, close drops its sentinel and leaves the name.
NoCloseLock(i) ==
  /\ shmpc[i] \in {"cflock", "cmutex"} /\ Leave(i)
  /\ faults < MaxFaults /\ faults' = faults + 1
  /\ sentinels' = sentinels \ {ProcessOf[i]} /\ unclean' = TRUE
  /\ UNCHANGED <<region, remove>>

\* A signal that handle_signal handles, at any point of a call. The thread it interrupts takes
\* no more steps, the others go on.
Signal(p) ==
  /\ process[p] = "alive"
  /\ crashes < MaxCrashes /\ crashes' = crashes + 1
  /\ process' = [process EXCEPT ![p] = "signalled"]
  /\ UNCHANGED <<region, content, flocked, mutexed, sentinels, shmpc, fd, mapped, created, retried,
                 skip_unmap, remove, opens, faults, unclean>>

\* The process ends: the kernel closes its files and hands over its locks.
Die(p) ==
  LET Dead(owner) == owner \in OfProcess(p) IN
  /\ process' = [process EXCEPT ![p] = "dead"]
  /\ shmpc' = [i \in Instances |-> IF Dead(i) THEN "idle" ELSE shmpc[i]]
  /\ fd' = [i \in Instances |-> IF Dead(i) THEN NoRegion ELSE fd[i]]
  /\ mapped' = [i \in Instances |-> IF Dead(i) THEN NoRegion ELSE mapped[i]]
  /\ skip_unmap' = [i \in Instances |-> ~Dead(i) /\ skip_unmap[i]]
  /\ retried' = [i \in Instances |-> ~Dead(i) /\ retried[i]]
  /\ remove' = [i \in Instances |-> IF Dead(i) THEN "no" ELSE remove[i]]
  /\ flocked' = [r \in Regions |-> IF Dead(flocked[r]) THEN NoRegion ELSE flocked[r]]
  /\ mutexed' = [r \in Regions |-> IF Dead(mutexed[r]) THEN "dead" ELSE mutexed[r]]
  /\ UNCHANGED <<region, content, sentinels, created, opens, faults>>

\* The default handler runs after cleanup_all.
DieOfSignal(p) ==
  /\ process[p] = "signalled"
  /\ \A i \in OfProcess(p) : ~At(i, "open") /\ ~Handled(i)
  /\ unclean' = (unclean \/ ~ProcessQuiet(p))
  /\ Die(p)
  /\ UNCHANGED crashes

\* Killed, at any point.
Crash(p) ==
  /\ process[p] # "dead"
  /\ crashes < MaxCrashes /\ crashes' = crashes + 1
  /\ unclean' = TRUE
  /\ Die(p)

\* A new process gets the number of a dead one.
Restart(p) ==
  /\ process[p] = "dead"
  /\ process' = [process EXCEPT ![p] = "alive"]
  /\ UNCHANGED <<region, content, flocked, mutexed, sentinels, shmpc, fd, mapped, created, retried,
                 skip_unmap, remove, opens, crashes, faults, unclean>>

\* What a thread in open or close does next.
Proceed(i) ==
  \/ Create(i) \/ OpenExisting(i) \/ SetupNewRegion(i) \/ SetupExistingRegion(i)
  \/ LockSharedMutex(i) \/ CreateSentinelFile(i) \/ Finish(i) \/ Register(i)
  \/ RemoveSentinelFile(i) \/ ScanSentinels(i) \/ Unlink(i)

ShmNext ==
  \/ \E i \in Instances : Start(i) \/ LockFile(i) \/ Fault(i) \/ NoFileLock(i) \/ NoCloseLock(i) \/ Close(i) \/ Proceed(i)
  \/ \E p \in Processes : Signal(p) \/ DieOfSignal(p) \/ Crash(p) \/ Restart(p)
ShmSpec == ShmInit /\ [][ShmNext]_shmVars

-----------------------------------------------------------------------------
(* Properties.                                                             *)

ShmTypeOK ==
  /\ region \in Regions \cup {NoRegion}
  /\ content \in [Regions -> {"new", "sized", "written", "ready"}]
  /\ flocked \in [Regions -> Instances \cup {NoRegion}]
  /\ mutexed \in [Regions -> Instances \cup {"free", "dead"}]
  /\ sentinels \subseteq Processes
  /\ process \in [Processes -> {"alive", "signalled", "dead"}]
  /\ shmpc \in [Instances -> Opening \cup Closing \cup {"idle", "open", "local", "gone"}]
  /\ fd \in [Instances -> Regions \cup {NoRegion}]
  /\ mapped \in [Instances -> Regions \cup {NoRegion}]
  /\ created \in [Instances -> BOOLEAN] /\ retried \in [Instances -> BOOLEAN]
  /\ skip_unmap \in [Instances -> BOOLEAN] /\ unclean \in BOOLEAN
  /\ remove \in [Instances -> {"no", "unused", "unread"}]
  /\ opens \in 0 .. MaxOpens /\ crashes \in 0 .. MaxCrashes /\ faults \in 0 .. MaxFaults

\* An object whose network the searches read: in use, or being closed by the
\* signal handler while they run.
InUse(i) == shmpc[i] \in {"open", "gone"} \/ (shmpc[i] \in Closing /\ ~Unmaps(i))

\* The searches never read a region that is unmapped or half written, whoever
\* crashed while filling it and whenever a signal closes the object.
ReadersSeeNetwork ==
  \A i \in Instances : InUse(i) => mapped[i] # NoRegion /\ content[mapped[i]] = "ready"

\* One writer fills a region: of those who have it open, at most one is past
\* its lock, and nobody but the creator maps it before it is ready.
OneFillsRegion ==
  /\ \A i, j \in Instances : i # j /\ fd[i] # NoRegion /\ fd[i] = fd[j] =>
       ~ (/\ shmpc[i] \in (Opening \ {"create", "existing", "flock", "register"}) \cup (Closing \ {"cflock"})
          /\ shmpc[j] \in (Opening \ {"create", "existing", "flock", "register"}) \cup (Closing \ {"cflock"}))
  /\ \A i \in Instances : mapped[i] # NoRegion /\ ~created[i] => content[mapped[i]] = "ready"

\* Who may unlink the name, and has the lock of the file it opened: close when no sentinel is
\* left, open when it cannot finish the region that it created, or finds one unfinished.
MayUnlink(i) ==
  \/ At(i, "unlink") /\ remove[i] = "unused"
  \/ shmpc[i] \in {"size", "write", "publish", "mutex", "sentinel"} /\ created[i]
  \/ At(i, "check") /\ content[fd[i]] # "ready"

\* While the name refers to the region that such a call has locked, no other process uses that
\* region: open and close look for users under the lock that those who come take first. (Two
\* objects of one process share its sentinel, and the first to close removes it. A call whose
\* region has lost the name before it got the lock takes the name of the next region, which
\* may be in use, and so does close if it cannot read the directory.)
LockedUnlinkIsSafe ==
  \A i, j \in Instances :
    /\ MayUnlink(i) /\ region = fd[i]
    /\ ProcessOf[j] # ProcessOf[i] /\ OfProcess(ProcessOf[j]) = {j}
    => ~ (shmpc[j] \in {"register", "open", "cflock", "cmutex", "drop"} /\ mapped[j] = fd[i])

\* When everybody who used the region has closed it, by a destructor or a signal handler that
\* interrupts no call, and none was refused a lock, neither the name nor a sentinel is left behind.
NothingLeftBehind ==
  ~unclean /\ (\A i \in Instances : shmpc[i] \in {"idle", "local"}) =>
    region = NoRegion /\ sentinels = {}

\* open and close end, whatever the other processes do and wherever they die.
CallsEnd == \A i \in Instances : shmpc[i] \in Opening \cup Closing ~> shmpc[i] \notin Opening \cup Closing

\* The region that processes share (SharedMemory::open and close_impl): all that read it find
\* the network in it, one process fills it, who locks it and finds it unused is right, and the
\* name goes with its last user.
RegionsSafe == ShmTypeOK /\ ReadersSeeNetwork /\ OneFillsRegion /\ LockedUnlinkIsSafe /\ NothingLeftBehind
=============================================================================
