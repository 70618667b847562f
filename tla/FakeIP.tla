------------------------------- MODULE FakeIP -------------------------------
(***************************************************************************)
(* The fake IP store (dns/transport/fakeip/store.go) over the cache file   *)
(* (experimental/cachefile/{fakeip,pending}.go), for one address family.   *)
(*                                                                         *)
(* Addresses are given to domains in turn and are reused when the range is *)
(* exhausted.  Mappings are buffered in pending; a flush moves the buffer  *)
(* to writing, writes it in one transaction, and puts it back when that    *)
(* fails.  The position in the range is saved ahead of its use, Reserve    *)
(* addresses at a time, so that a crash does not lead to an address being  *)
(* given out twice.                                                        *)
(*                                                                         *)
(* A lookup of the storage reads the two buffers under a lock and then the *)
(* database.  An entry that is in neither buffer only gets there under     *)
(* addressAccess, so that the lookup takes effect at one of its two reads  *)
(* and is a single step here (ViewDomain, ViewAddress).  The lookups and   *)
(* the update that Create is made of are steps of their own.               *)
(***************************************************************************)
EXTENDS Naturals, Functions

CONSTANTS
    Domains,
    Broadcast,          \* the broadcast address of the range 0 .. Broadcast
    Reserve,       \* reservedAddressCount
    LateQueries,   \* exchanges the router has let in may reach the store after Close
    MaxPos,        \* bound: addresses given out since the range was reset
    MaxCrashes,    \* bound: ends of the process
    MaxFailures    \* bound: failed transactions

ASSUME FakeIPAssumption ==
    /\ Broadcast \in Nat /\ Broadcast >= 3 /\ Reserve \in Nat \ {0}
    /\ LateQueries \in BOOLEAN /\ MaxFailures \in Nat /\ "none" \notin Domains

VARIABLES
    up,         \* the process runs
    current,    \* s.inet4Current, with its position since the last reset
    reserved,   \* s.reservedCount
    store,      \* who holds s.addressAccess, and what it waits for
    closer,     \* progress of Close, which does not keep the lock
    pending,    \* c.pending
    writing,    \* c.writing, empty for nil
    flush,      \* who holds c.flushAccess: "none", "loop", "store", "close"
    disk,       \* the database
    suspect,    \* a flush has failed and none has succeeded since
    crashes, failures

storeVars == <<current, reserved, store, closer>>
vars == <<up, storeVars, pending, writing, flush, disk, suspect, crashes, failures>>

None == "none"
NoAddr == 0      \* no entry
Tomb == 1        \* the zero netip.Addr: the domain has lost its address
Addrs == 2 .. Broadcast - 1
NoOwner == [domain |-> None, pos |-> 0]
NoMeta == [addr |-> 0, pos |-> 0]
Empty == [dom |-> [a \in Addrs |-> NoOwner], adr |-> [d \in Domains |-> NoAddr], meta |-> NoMeta]

ViewDomain(a) ==
    IF pending.dom[a] # NoOwner THEN pending.dom[a]
    ELSE IF writing.dom[a] # NoOwner THEN writing.dom[a] ELSE disk.dom[a]

ViewAddress(d) ==
    IF pending.adr[d] # NoAddr THEN pending.adr[d]
    ELSE IF writing.adr[d] # NoAddr THEN writing.adr[d] ELSE disk.adr[d]

Loaded(d) == ViewAddress(d) \in Addrs

Mapped(p) == {a \in Addrs : p.dom[a] # NoOwner}

\* c.pending.count > 0
HasWrites(p) == Mapped(p) # {} \/ p.meta # NoMeta

FakeIPMetadata == disk.meta

FakeIPSaveMetadata(m) == pending' = [pending EXCEPT !.meta = m]

\* Drops the buffer, then the buckets, which leaves the database f.
FakeIPReset(f, m) == pending' = [Empty EXCEPT !.meta = m] /\ disk' = f

-----------------------------------------------------------------------------
(* The store                                                               *)

First == [addr |-> 1, pos |-> 0]   \* resetCurrent
Idle == [pc |-> "idle", domain |-> None, old |-> None]

nextAddress(a) == IF a + 1 = Broadcast \/ a + 1 > Broadcast THEN 2 ELSE a + 1

Advance(c) == [addr |-> nextAddress(c.addr), pos |-> c.pos + 1]

AheadNot == current   \* mutant: saves where the store is

\* The position Reserve addresses ahead.
Ahead ==
    LET at[i \in 0 .. Reserve] == IF i = 0 THEN current ELSE Advance(at[i - 1])
    IN  at[Reserve]

QueueNoTomb(p, c, d, old) ==   \* mutant: the owner until now keeps its entry
    [p EXCEPT !.dom[c.addr] = [domain |-> d, pos |-> c.pos], !.adr[d] = c.addr]

\* queueFakeIP: old, the owner that FakeIPLoad has found, loses the address.
Queue(p, c, d, old) ==
    LET adr == IF old = None THEN p.adr ELSE [p.adr EXCEPT ![old] = Tomb]
    IN  [p EXCEPT !.dom[c.addr] = [domain |-> d, pos |-> c.pos], !.adr = [adr EXCEPT ![d] = c.addr]]

\* The router closes before the store does, and prepareExchange then refuses
\* queries.  An exchange that is past prepareExchange goes on, and may call
\* Create late: one that waits for the answer of an evaluate rule, say.
MayQuery == up /\ (LateQueries \/ closer.pc = "none")

CreateAt(d, label) ==
    /\ MayQuery /\ store = Idle /\ ~Loaded(d) /\ current.pos < MaxPos
    /\ store' = [Idle EXCEPT !.pc = label, !.domain = d]

\* Create for a domain that has no address, with addresses in reserve.
Create(d) ==
    /\ CreateAt(d, "saved")
    /\ reserved > 0
    /\ UNCHANGED <<up, current, reserved, closer, pending, writing, flush, disk, suspect, crashes, failures>>

\* Create with none in reserve: FakeIPSaveMetadata first, which flushes.
CreateReserve(d) ==
    /\ CreateAt(d, "flush")
    /\ reserved = 0
    /\ FakeIPSaveMetadata(Ahead)
    /\ UNCHANGED <<up, current, reserved, closer, writing, flush, disk, suspect, crashes, failures>>

\* The next address, and FakeIPLoad of its owner.
CreateNext ==
    /\ up /\ store.pc = "saved" /\ store.domain # None
    /\ current' = Advance(current)
    /\ reserved' = (IF reserved = 0 THEN Reserve ELSE reserved) - 1
    /\ store' = [store EXCEPT !.pc = "queue", !.old = ViewDomain(current'.addr).domain]
    /\ UNCHANGED <<up, closer, pending, writing, flush, disk, suspect, crashes, failures>>

CreateQueue ==
    /\ up /\ store.pc = "queue"
    /\ pending' = Queue(pending, current, store.domain, store.old)
    /\ store' = Idle
    /\ UNCHANGED <<up, current, reserved, closer, writing, flush, disk, suspect, crashes, failures>>

\* Reset: FakeIPReset needs the flush lock; when it fails the position is
\* kept, and what it had dropped is lost.
ResetOK ==
    /\ up /\ store = Idle /\ flush = "none"
    /\ FakeIPReset(Empty, First)
    /\ current' = First /\ reserved' = 0
    /\ store' = [Idle EXCEPT !.pc = "flush"]
    /\ UNCHANGED <<up, closer, writing, flush, suspect, crashes, failures>>

ResetFail ==
    /\ up /\ store = Idle /\ flush = "none" /\ failures < MaxFailures
    /\ failures' = failures + 1
    /\ FakeIPReset(disk, NoMeta) \/ FakeIPReset(Empty, NoMeta)   \* resetDB after a panic
    /\ UNCHANGED <<up, storeVars, writing, flush, suspect, crashes>>

ResetSaved ==
    /\ up /\ store.pc = "saved" /\ store.domain = None
    /\ store' = Idle
    /\ UNCHANGED <<up, current, reserved, closer, pending, writing, flush, disk, suspect, crashes, failures>>

\* Close copies the position under the lock and saves it afterwards.
Close ==
    /\ up /\ store = Idle /\ closer.pc = "none"
    /\ closer' = [pc |-> "save", meta |-> current]
    /\ UNCHANGED <<up, current, reserved, store, pending, writing, flush, disk, suspect, crashes, failures>>

CloseSave ==
    /\ up /\ closer.pc = "save"
    /\ FakeIPSaveMetadata(closer.meta)
    /\ closer' = [closer EXCEPT !.pc = "flush"]
    /\ UNCHANGED <<up, current, reserved, store, writing, flush, disk, suspect, crashes, failures>>

-----------------------------------------------------------------------------
(* Flush                                                                   *)

\* Who calls Flush: the loop on its timer or signal, FakeIPSaveMetadata for
\* the store, and FakeIPSaveMetadata for Close.
Calls(w) == CASE w = "loop" -> TRUE [] w = "store" -> store.pc = "flush" [] w = "close" -> closer.pc = "flush"

Returns(w) ==
    /\ store' = IF w = "store" THEN [store EXCEPT !.pc = "saved"] ELSE store
    /\ closer' = IF w = "close" THEN [closer EXCEPT !.pc = "done"] ELSE closer

FlushNothing(w) ==
    /\ up /\ flush = "none" /\ w # "loop" /\ Calls(w) /\ ~HasWrites(pending)
    /\ Returns(w)
    /\ UNCHANGED <<up, current, reserved, pending, writing, flush, disk, suspect, crashes, failures>>

FlushTake(w) ==
    /\ up /\ flush = "none" /\ Calls(w) /\ HasWrites(pending)
    /\ flush' = w
    /\ writing' = pending
    /\ pending' = Empty
    /\ UNCHANGED <<up, storeVars, disk, suspect, crashes, failures>>

PutBlind(w, f, a) ==   \* mutant: deletes the old domain's entry unseen
    LET old == f.dom[a].domain
        adr == IF old # None THEN [f.adr EXCEPT ![old] = NoAddr] ELSE f.adr
    IN  [f EXCEPT !.dom[a] = w.dom[a], !.adr = [adr EXCEPT ![w.dom[a].domain] = a]]

\* putFakeIP for one address of the buffer w
Put(w, f, a) ==
    LET old == f.dom[a].domain
        adr == IF old # None /\ f.adr[old] = a THEN [f.adr EXCEPT ![old] = NoAddr] ELSE f.adr
    IN  [f EXCEPT !.dom[a] = w.dom[a], !.adr = [adr EXCEPT ![w.dom[a].domain] = a]]

\* What the first n addresses of order make of the database f
PutFirst(f, w, order, n) ==
    LET put[i \in 0 .. n] == IF i = 0 THEN f ELSE Put(w, put[i - 1], order[i])
    IN  put[n]

\* writePending; the addresses come in any order.
Written(f, w) ==
    LET base == IF w.meta = NoMeta THEN f ELSE [f EXCEPT !.meta = w.meta]
    IN  UNION {{PutFirst(base, w, order, n) : order \in Bijection(1 .. n, Mapped(w))} :
                  n \in 0 .. Broadcast}

\* The transaction, and writing = nil.
FlushCommit(w) ==
    /\ up /\ flush = w
    /\ disk' \in Written(disk, writing)
    /\ writing' = Empty
    /\ flush' = "none"
    /\ suspect' = FALSE
    /\ Returns(w)
    /\ UNCHANGED <<up, current, reserved, pending, crashes, failures>>

\* restorePendingLocked: newer entries of pending win; the entries of domains
\* that lost their address are not put back.
Kept == {a \in Addrs : writing.dom[a] # NoOwner /\ pending.dom[a] = NoOwner
                         /\ pending.adr[writing.dom[a].domain] = NoAddr}

RestoredUnreserved ==   \* mutant: forgets the metadata
    [dom |-> [a \in Addrs |-> IF a \in Kept THEN writing.dom[a] ELSE pending.dom[a]],
     adr |-> [d \in Domains |-> IF \E a \in Kept : writing.dom[a].domain = d
                                THEN CHOOSE a \in Kept : writing.dom[a].domain = d ELSE pending.adr[d]],
     meta |-> pending.meta]

Restored ==
    [dom |-> [a \in Addrs |-> IF a \in Kept THEN writing.dom[a] ELSE pending.dom[a]],
     adr |-> [d \in Domains |-> IF \E a \in Kept : writing.dom[a].domain = d
                                THEN CHOOSE a \in Kept : writing.dom[a].domain = d ELSE pending.adr[d]],
     meta |-> IF pending.meta = NoMeta THEN writing.meta ELSE pending.meta]

\* The error is logged; FakeIPSaveMetadata does not see it.
FlushFail(w) ==
    /\ up /\ flush = w /\ failures < MaxFailures
    /\ failures' = failures + 1
    /\ disk' \in {disk, Empty}   \* resetDB starts a new file after a panic
    /\ pending' = Restored
    /\ writing' = Empty
    /\ flush' = "none"
    /\ suspect' = TRUE
    /\ Returns(w)
    /\ UNCHANGED <<up, current, reserved, crashes>>

-----------------------------------------------------------------------------
(* The process                                                             *)

NoClose == [pc |-> "none", meta |-> NoMeta]

Init ==
    /\ up = FALSE
    /\ current = First /\ reserved = 0 /\ store = Idle /\ closer = NoClose
    /\ pending = Empty /\ writing = Empty /\ flush = "none"
    /\ disk = Empty
    /\ suspect = FALSE
    /\ crashes = 0 /\ failures = 0

\* Start, with the ranges of the last run.
StartSaved ==
    /\ ~up /\ FakeIPMetadata # NoMeta
    /\ up' = TRUE
    /\ current' = FakeIPMetadata
    /\ UNCHANGED <<reserved, store, closer, pending, writing, flush, disk, suspect, crashes, failures>>

\* Start without metadata, or with metadata that cannot be read; an error of
\* FakeIPReset is ignored.
StartReset ==
    /\ ~up
    /\ up' = TRUE
    /\ current' = First
    /\ \/ FakeIPMetadata = NoMeta /\ disk' = Empty /\ UNCHANGED failures
       \/ /\ failures < MaxFailures /\ failures' = failures + 1
          /\ IF FakeIPMetadata = NoMeta THEN UNCHANGED disk ELSE disk' = Empty
    /\ UNCHANGED <<reserved, store, closer, pending, writing, flush, suspect, crashes>>

\* The process ends, at any point; only the database is left.
Crash ==
    /\ up /\ crashes < MaxCrashes
    /\ crashes' = crashes + 1
    /\ up' = FALSE
    /\ current' = First /\ reserved' = 0 /\ store' = Idle /\ closer' = NoClose
    /\ pending' = Empty /\ writing' = Empty /\ flush' = "none"
    /\ suspect' = FALSE
    /\ UNCHANGED <<disk, failures>>

StoreStep == (\E d \in Domains : Create(d) \/ CreateReserve(d)) \/ CreateNext \/ CreateQueue \/ ResetOK \/ ResetFail \/ ResetSaved
FlushStep(w) == FlushNothing(w) \/ FlushTake(w) \/ FlushCommit(w) \/ FlushFail(w)

Next ==
    \/ StoreStep
    \/ Close \/ CloseSave
    \/ \E w \in {"loop", "store", "close"} : FlushStep(w)
    \/ StartSaved \/ StartReset \/ Crash

Spec == Init /\ [][Next]_vars

-----------------------------------------------------------------------------
(* Properties                                                              *)

\* "a persisted mapping must not be reassigned to another domain"
\* (store_cache_test.go:73): no mapping lies ahead of the position from which
\* the store goes on, so that an address only changes hands when all others
\* have been given out after it.  This holds as long as at most one transaction
\* fails: Start ignores the error of FakeIPReset, and after a second failure
\* goes on from the start of the range over mappings that are still there.
NoMappingAhead == up => \A a \in Addrs : ViewDomain(a).pos <= current.pos

\* In the database every domain's address belongs to that domain, and no
\* domain has two addresses; flushes that fail, or that write an address which
\* changed hands several times, do not break this.
DiskConsistent ==
    /\ \A d \in Domains : disk.adr[d] # NoAddr => disk.adr[d] \in Addrs /\ disk.dom[disk.adr[d]].domain = d
    /\ \A a \in Addrs : disk.dom[a] # NoOwner => disk.adr[disk.dom[a].domain] = a

\* A domain is answered with an address that leads back to it; the tombstones
\* that a failed flush drops may break this until a flush succeeds.
AnswerLeadsBack ==
    up /\ ~suspect => \A d \in Domains : Loaded(d) => ViewDomain(ViewAddress(d)).domain = d

\* The reservation reaches the database no later than the mappings that use
\* it, even if the flush that was to save it failed: the position a restart
\* reads is never behind a mapping that the restart finds.  The same holds of
\* more than one failed transaction as above.
ReservedFirst ==
    \A a \in Addrs : disk.meta # NoMeta => disk.dom[a].pos <= disk.meta.pos
=============================================================================
