---------------------------- MODULE DNSCacheFile ----------------------------
(***************************************************************************)
(* The DNS cache of the cache file (experimental/cachefile/{dns_cache,     *)
(* pending}.go): a write-behind buffer over a database.  Saved messages    *)
(* wait in pending until a timer or the size of the buffer wakes the flush *)
(* loop; a flush moves them to writing, writes them in one transaction and *)
(* puts them back when that fails.                                         *)
(*                                                                         *)
(* A message is the number of the save that brought it, 0 stands for no    *)
(* entry.  All names are one byte long, and so are all values.             *)
(***************************************************************************)
EXTENDS Naturals, FiniteSets

CONSTANTS
    Keys,
    Interval,      \* c.flushInterval > 0
    BufferSize,    \* c.bufferSize
    MaxSaves,      \* bound: saves
    MaxDrops,      \* bound: deletions, clearings and cleanups
    MaxFailures    \* bound: failed transactions

ASSUME CacheFileAssumption == Interval \in BOOLEAN /\ BufferSize \in Nat \ {0} /\ IsFiniteSet(Keys)

VARIABLES
    pending, count, size,   \* c.pending: dnsCache, count and size
    writing,                \* c.writing, empty for nil
    disk,                   \* the database
    lock,                   \* the holder of c.flushAccess
    timer,                  \* c.flushTimer runs
    signal,                 \* c.flushSignal is full
    loop,                   \* the flush loop: "wait" or "flush"
    reader,                 \* a call of LoadDNSCache
    latest,                 \* the last save of each key
    removed,                \* the entry of a key may be gone since its last save
    saves, drops, failures

buffer == <<pending, count, size>>
flushVars == <<writing, lock, timer, signal, loop>>
bounds == <<saves, drops, failures>>
ghosts == <<latest, removed>>
fileVars == <<buffer, disk, flushVars, reader, ghosts, bounds>>

Nothing == [k \in Keys |-> 0]
Free == [who |-> "none", key |-> "none", msg |-> 0]

View(k) == IF pending[k] # 0 THEN pending[k] ELSE IF writing[k] # 0 THEN writing[k] ELSE disk[k]

NoReader == [pc |-> "idle", key |-> "none", result |-> 0, seen |-> {}]

FileInit ==
    /\ pending = Nothing /\ count = 0 /\ size = 0
    /\ writing = Nothing /\ disk = Nothing
    /\ lock = Free /\ timer = FALSE /\ signal = FALSE /\ loop = "wait"
    /\ reader = NoReader
    /\ latest = Nothing /\ removed = [k \in Keys |-> FALSE]
    /\ saves = 0 /\ drops = 0 /\ failures = 0

\* enqueueLocked
Enqueue(added, delta) ==
    /\ count' = IF added THEN count + 1 ELSE count
    /\ timer' = (timer \/ (added /\ count' = 1 /\ Interval))
    /\ size' = size + delta
    /\ signal' = (signal \/ size' >= BufferSize)

\* SaveDNSCacheAsync: len(qName) + len(value) - len(oldEntry.value) bytes more
Save(k) ==
    /\ saves < MaxSaves
    /\ saves' = saves + 1
    /\ pending' = [pending EXCEPT ![k] = saves']
    /\ Enqueue(pending[k] = 0, IF pending[k] = 0 THEN 2 ELSE 1)
    /\ latest' = [latest EXCEPT ![k] = saves']
    /\ removed' = [removed EXCEPT ![k] = FALSE]
    /\ UNCHANGED <<disk, writing, lock, loop, drops, failures>>

-----------------------------------------------------------------------------
(* The flush loop and Flush                                                *)

LoopWake ==
    /\ loop = "wait"
    /\ \/ timer /\ timer' = FALSE /\ UNCHANGED signal
       \/ signal /\ signal' = FALSE /\ UNCHANGED timer
    /\ loop' = "flush"
    /\ UNCHANGED <<buffer, disk, writing, lock, ghosts, bounds>>

\* SaveDNSCache, FakeIPSaveMetadata and the closing of the file also flush.
Calls(w) == IF w = "loop" THEN loop = "flush" ELSE TRUE
Returns(w) == loop' = IF w = "loop" THEN "wait" ELSE loop

FlushNothing ==
    /\ lock = Free /\ Calls("loop") /\ count = 0
    /\ Returns("loop")
    /\ UNCHANGED <<buffer, disk, writing, lock, timer, signal, ghosts, bounds>>

FlushTake(w) ==
    /\ lock = Free /\ Calls(w) /\ count > 0
    /\ lock' = [Free EXCEPT !.who = w]
    /\ writing' = pending
    /\ pending' = Nothing /\ count' = 0 /\ size' = 0
    /\ UNCHANGED <<disk, timer, signal, loop, ghosts, bounds>>

FlushCommit(w) ==
    /\ lock.who = w
    /\ disk' = [k \in Keys |-> IF writing[k] # 0 THEN writing[k] ELSE disk[k]]
    /\ writing' = Nothing
    /\ lock' = Free
    /\ Returns(w)
    /\ UNCHANGED <<buffer, timer, signal, ghosts, bounds>>

BackAll == {k \in Keys : writing[k] # 0}   \* mutant: overwrites newer messages

\* restorePendingLocked: what was saved meanwhile is newer and stays.
Back == {k \in Keys : writing[k] # 0 /\ pending[k] = 0}

RestoreUntimed ==   \* mutant: does not start the timer
    /\ pending' = [k \in Keys |-> IF k \in Back THEN writing[k] ELSE pending[k]]
    /\ count' = count + Cardinality(Back)
    /\ size' = size + 2 * Cardinality(Back)
    /\ UNCHANGED timer

Restore ==
    /\ pending' = [k \in Keys |-> IF k \in Back THEN writing[k] ELSE pending[k]]
    /\ count' = count + Cardinality(Back)
    /\ size' = size + 2 * Cardinality(Back)
    /\ timer' = (timer \/ (count = 0 /\ count' > 0 /\ Interval))

Fail == failures < MaxFailures /\ failures' = failures + 1

\* The transaction fails; after a panic resetDB starts a new file.
FlushFail(w) ==
    /\ lock.who = w /\ Fail
    /\ Restore
    /\ disk' \in {disk, Nothing}
    /\ writing' = Nothing
    /\ lock' = Free
    /\ Returns(w)
    /\ removed' = [k \in Keys |-> removed[k] \/ (disk' # disk /\ pending'[k] = 0)]
    /\ UNCHANGED <<signal, latest, saves, drops>>

-----------------------------------------------------------------------------
(* DeleteDNSCache, ClearDNSCache and cleanupDNSCache                       *)

Drop == drops < MaxDrops /\ drops' = drops + 1

\* DeleteDNSCache of a message that cannot be unpacked: out of the buffer ...
DeletePending(k, m) ==
    /\ lock = Free /\ Drop /\ pending[k] \in {0, m}
    /\ lock' = [who |-> "delete", key |-> k, msg |-> m]
    /\ IF pending[k] = m
       THEN /\ pending' = [pending EXCEPT ![k] = 0]
            /\ count' = count - 1 /\ size' = size - 2
            /\ removed' = [removed EXCEPT ![k] = TRUE]
       ELSE UNCHANGED <<buffer, removed>>
    /\ UNCHANGED <<disk, writing, timer, signal, loop, latest, saves, failures>>

DeleteDiskAny ==   \* mutant: deletes whatever is there
    /\ lock.who = "delete"
    /\ disk' = [disk EXCEPT ![lock.key] = 0]
    /\ lock' = Free
    /\ removed' = [removed EXCEPT ![lock.key] = @ \/ pending[lock.key] = 0]
    /\ UNCHANGED <<buffer, writing, timer, signal, loop, latest, bounds>>

\* ... and out of the database, if it still is the same message there.
DeleteDisk ==
    /\ lock.who = "delete"
    /\ LET same == disk[lock.key] = lock.msg
       IN  /\ disk' = IF same THEN [disk EXCEPT ![lock.key] = 0] ELSE disk
           /\ removed' = [removed EXCEPT ![lock.key] = @ \/ (same /\ pending[lock.key] = 0)]
    /\ lock' = Free
    /\ UNCHANGED <<buffer, writing, timer, signal, loop, latest, bounds>>

\* The error of the transaction is dropped.
DeleteFail ==
    /\ lock.who = "delete" /\ Fail
    /\ lock' = Free
    /\ UNCHANGED <<buffer, disk, writing, timer, signal, loop, ghosts, saves, drops>>

ClearPending ==
    /\ lock = Free /\ Drop
    /\ lock' = [Free EXCEPT !.who = "clear"]
    /\ removed' = [k \in Keys |-> TRUE]
    /\ pending' = Nothing
    /\ count' = count - Cardinality({k \in Keys : pending[k] # 0})
    /\ size' = size - 2 * Cardinality({k \in Keys : pending[k] # 0})
    /\ UNCHANGED <<disk, writing, timer, signal, loop, latest, saves, failures>>

ClearDisk ==
    /\ lock.who = "clear"
    /\ \/ disk' = Nothing /\ UNCHANGED failures
       \/ Fail /\ UNCHANGED disk
    /\ lock' = Free
    /\ UNCHANGED <<buffer, writing, timer, signal, loop, ghosts, saves, drops>>

\* Expired messages are deleted from the database without the flush lock.
Cleanup ==
    /\ Drop
    /\ \E expired \in SUBSET {k \in Keys : disk[k] # 0} :
          /\ expired # {}
          /\ disk' = [k \in Keys |-> IF k \in expired THEN 0 ELSE disk[k]]
          /\ removed' = [k \in Keys |-> removed[k] \/ (k \in expired /\ pending[k] = 0 /\ writing[k] = 0)]
    /\ UNCHANGED <<buffer, flushVars, latest, saves, failures>>

\* Any transaction, a lookup's too, may find the file corrupted; a flush that
\* is under way then either commits to the new file or fails.
resetDB ==
    /\ Fail
    /\ disk' = Nothing
    /\ removed' = [k \in Keys |-> removed[k] \/ (pending[k] = 0 /\ writing[k] = 0)]
    /\ UNCHANGED <<buffer, flushVars, latest, saves, drops>>

-----------------------------------------------------------------------------
(* LoadDNSCache: the two buffers under the lock, then the database         *)

LoadBuffersPending(k) == pending[k]   \* mutant: does not look at writing

LoadBuffers(k) == IF pending[k] # 0 THEN pending[k] ELSE writing[k]

LoadStart(k) ==
    /\ reader.pc = "idle"
    /\ LET found == LoadBuffers(k)
       IN  reader' = [pc |-> IF found # 0 THEN "done" ELSE "disk", key |-> k, result |-> found, seen |-> {View(k)}]
    /\ UNCHANGED <<buffer, disk, flushVars, ghosts, bounds>>

LoadDisk ==
    /\ reader.pc = "disk"
    /\ reader' = [reader EXCEPT !.pc = "done", !.result = disk[reader.key]]
    /\ UNCHANGED <<buffer, disk, flushVars, ghosts, bounds>>

LoadReturn ==
    /\ reader.pc = "done"
    /\ reader' = NoReader
    /\ UNCHANGED <<buffer, disk, flushVars, ghosts, bounds>>

Load == (\E k \in Keys : LoadStart(k)) \/ LoadDisk \/ LoadReturn

FlushStep(w) == FlushTake(w) \/ FlushCommit(w) \/ FlushFail(w)
LoopStep == LoopWake \/ FlushNothing \/ FlushStep("loop")

Change ==
    \/ \E k \in Keys : Save(k) \/ \E m \in 1 .. saves : DeletePending(k, m)
    \/ LoopStep \/ FlushStep("caller")
    \/ DeleteDisk \/ DeleteFail \/ ClearPending \/ ClearDisk \/ Cleanup \/ resetDB

\* What a reader could have seen while it was between its two looks.
Observe ==
    reader' = IF reader.pc = "disk"
              THEN [reader EXCEPT !.seen = @ \cup {View(k)' : k \in {reader.key}}] ELSE reader

FileNext == (Change /\ Observe) \/ Load

\* The flush loop runs on, and whoever holds the flush lock lets go of it.
FileFairness ==
    /\ WF_fileVars(LoopStep /\ Observe)
    /\ WF_fileVars((FlushCommit("caller") \/ FlushFail("caller") \/ DeleteDisk \/ ClearDisk) /\ Observe)

FileSpec == FileInit /\ [][FileNext]_fileVars /\ FileFairness

-----------------------------------------------------------------------------
(* Properties                                                              *)

\* A lookup finds the last message saved, wherever a flush has taken it and
\* whatever became of that flush, unless the entry was removed on purpose:
\* a failed flush never brings an older message back over a newer one.
LastSaveWins == \A k \in Keys : ~removed[k] => View(k) = latest[k]

\* A lookup takes two looks, but the message it returns is one that a single
\* look could have seen.  (It may miss a message that was saved between the
\* two looks while an older one was removed from the database.)
LoadIsCurrent == reader.pc = "done" /\ reader.result # 0 => reader.result \in reader.seen

\* DeleteDNSCache only ever takes away the message it was given, even if
\* others are saved while it runs (TestDeleteDNSCachePreservesNewerValue).
DeletesOnlyMatching ==
    [][/\ \A k \in Keys : \A m \in 1 .. saves : DeletePending(k, m) => View(k)' = View(k) \/ View(k) = m
       /\ DeleteDisk => \A k \in Keys : View(k)' = View(k) \/ (k = lock.key /\ View(k) = lock.msg)]_fileVars

\* Whatever is buffered is written in the end and not only taken for writing:
\* the flush that a failure undoes is repeated without another save.
EventuallyFlushed == Interval /\ count > 0 ~> count = 0 /\ writing = Nothing
=============================================================================
