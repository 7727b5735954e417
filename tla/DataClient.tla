----------------------------- MODULE DataClient -----------------------------
(***************************************************************************)
(* The data side of the client (src/sdk/data): the Wrapper, which keeps    *)
(* the volume's partition view refreshed from the Master (wrapper.go), and *)
(* the ExtentReader, which reads one extent from the replicas of its data  *)
(* partition (stream/extent_reader.go).                                    *)
(*                                                                         *)
(* The Master's view of the volume (`view`) and the DataNodes that are    *)
(* up (`up`) are the environment.  A refresh takes the view in one step    *)
(* and then inserts its partitions into the lookup map one lock at a time. *)
(* The hosts of a partition do not change, so a map entry is abstracted to *)
(* its presence; what the reader takes from it is the host list.           *)
(*                                                                         *)
(* One ExtentReader is shared by the goroutines in Threads: its            *)
(* readerIndex is read and advanced with atomic operations, and each read  *)
(* attempt loads it, uses the host, and advances it on failure, as three   *)
(* separate steps.  A read attempt may fail on any host (timeout, bad CRC, *)
(* a mismatched reply) and cannot succeed on a host that is down.          *)
(***************************************************************************)
EXTENDS Naturals, FiniteSets, Sequences, SequencesExt

CONSTANTS
    Partitions,   \* data partition ids of the volume
    Addrs,        \* DataNode addresses
    PartHosts,    \* partition id -> its Hosts (a sequence of addresses)
    InitPartitions, \* the partitions of the volume when the client mounts
    MinWritable,  \* MinWritableDataPartitionNum (10 in the code)
    KeyPartition, \* the partition of the extent key being read
    Threads,      \* goroutines reading through the one ExtentReader
    MaxReads,     \* reads per goroutine
    MaxCrashes,   \* DataNode crashes
    MaxViewChanges \* status changes and creations at the Master

CONSTANTS ReadWrite, ReadOnly   \* proto partition statuses

\* readDataFromDataPartition: one attempt, then a loop of three more.
ReadRetries == 3
Attempts == 1 + ReadRetries

ReplicaNum(p) == Len(PartHosts[p])

ASSUME /\ \A p \in Partitions : ReplicaNum(p) > 0
       /\ \A p \in Partitions : ToSet(PartHosts[p]) \subseteq Addrs
       /\ KeyPartition \in Partitions
       /\ InitPartitions \subseteq Partitions

VARIABLES
    view,     \* the Master's view: partition id -> status
    up,       \* DataNodes that are running
    rw,       \* w.rwPartition, as the set of its partition ids
    known,    \* the ids in w.partitions
    pending,  \* ids of the refresh in progress not yet inserted
    reader,   \* the ExtentReader: [made, index] (index is readerIndex)
    thr,      \* goroutine -> [pc, idx, tries, tried, reads]
    crashes,
    changes

vars == <<view, up, rw, known, pending, reader, thr, crashes, changes>>

Pcs == {"idle", "load", "io", "ok", "failed"}

TypeOK ==
    /\ DOMAIN view \subseteq Partitions
    /\ \A p \in DOMAIN view : view[p] \in {ReadWrite, ReadOnly}
    /\ up \subseteq Addrs
    /\ rw \subseteq Partitions /\ known \subseteq Partitions
    /\ pending \subseteq Partitions
    /\ reader \in [made : BOOLEAN, index : Nat]
    /\ \A t \in Threads :
          /\ thr[t].pc \in Pcs /\ thr[t].idx \in Nat
          /\ thr[t].tries \in 0..Attempts /\ thr[t].reads \in 0..MaxReads
          /\ thr[t].tried \subseteq Nat
    /\ crashes \in 0..MaxCrashes /\ changes \in 0..MaxViewChanges

-----------------------------------------------------------------------------
(* Wrapper                                                                 *)

\* The partitions the view lists as ReadWrite (rwPartitionGroups).
Writable(v) == {p \in DOMAIN v : v[p] = ReadWrite}

\* updateDataPartition: with fewer than MinWritable writable partitions it
\* returns before touching the pool or the map; otherwise it replaces the
\* pool and then inserts every partition of the view.  A failed request
\* or a bad JSON reply returns with nothing changed (a stuttering step).
RefreshFetch ==
    /\ pending = {}
    /\ Cardinality(Writable(view)) >= MinWritable
    /\ rw' = Writable(view)
    /\ pending' = DOMAIN view
    /\ UNCHANGED <<view, up, known, reader, thr, crashes, changes>>

\* replaceOrInsertPartition, under the write lock, for one partition.
RefreshInsert(p) ==
    /\ p \in pending
    /\ known' = known \cup {p}
    /\ pending' = pending \ {p}
    /\ UNCHANGED <<view, up, rw, reader, thr, crashes, changes>>

\* GetDataPartition: the map entry under the read lock, or an error.
GetDataPartition(id) == id \in known

-----------------------------------------------------------------------------
(* ExtentReader                                                            *)

Hosts == PartHosts[KeyPartition]
R == ReplicaNum(KeyPartition)

\* NewExtentReader: GetDataPartition under the read lock; an id not in the
\* map is an error.  readerIndex starts at rand.Intn(ReplicaNum).
NewExtentReader ==
    /\ ~reader.made
    /\ GetDataPartition(KeyPartition)
    /\ \E i \in 0..R-1 : reader' = [made |-> TRUE, index |-> i]
    /\ UNCHANGED <<view, up, rw, known, pending, thr, crashes, changes>>

\* checkStreamReply accepts a reply (result OpOk, matching the request,
\* CRC correct) only from a host that is running; a running host may still
\* time out or send a reply that fails the checks.
ReplyOK(i) == Hosts[i + 1] \in up

\* read with size > 0 enters readDataFromDataPartition.
ReadStart(t) ==
    /\ reader.made
    /\ thr[t].pc \in {"idle", "ok", "failed"}
    /\ thr[t].reads < MaxReads
    /\ thr' = [thr EXCEPT ![t] = [pc |-> "load", idx |-> 0, tries |-> 0,
                                  tried |-> {}, reads |-> @.reads + 1]]
    /\ UNCHANGED <<view, up, rw, known, pending, reader, crashes, changes>>

\* streamReadDataFromHost, first part: atomic load of readerIndex; an index
\* past the replicas is reset to 0 by an atomic store.
LoadIndex(t) ==
    /\ thr[t].pc = "load"
    /\ LET i == reader.index IN
       IF i >= R
       THEN /\ reader' = [reader EXCEPT !.index = 0]
            /\ thr' = [thr EXCEPT ![t].pc = "io", ![t].idx = 0,
                                  ![t].tries = @ + 1]
       ELSE /\ thr' = [thr EXCEPT ![t].pc = "io", ![t].idx = i,
                                  ![t].tries = @ + 1]
            /\ UNCHANGED reader
    /\ UNCHANGED <<view, up, rw, known, pending, crashes, changes>>

\* The attempt on Hosts[idx]: success needs the host up; any failure
\* (no connection, a write or read error, a reply that fails
\* checkStreamReply) advances readerIndex by an atomic add.  The caller
\* retries until Attempts attempts failed, then returns the error.
ReadHost(t) ==
    /\ thr[t].pc = "io"
    /\ LET i == thr[t].idx IN
       \/ /\ ReplyOK(i)
          /\ thr' = [thr EXCEPT ![t].pc = "ok", ![t].tried = @ \cup {i}]
          /\ UNCHANGED reader
       \/ /\ reader' = [reader EXCEPT !.index = @ + 1]
          /\ thr' = [thr EXCEPT ![t].pc = IF thr[t].tries < Attempts
                                          THEN "load" ELSE "failed",
                                ![t].tried = @ \cup {i}]
    /\ UNCHANGED <<view, up, rw, known, pending, crashes, changes>>

-----------------------------------------------------------------------------
(* The Master and the DataNodes                                            *)

\* The Master changes the status of a partition or creates one.
MasterChange(p, s) ==
    /\ changes < MaxViewChanges
    /\ p \in DOMAIN view => view[p] # s
    /\ view' = [q \in DOMAIN view \cup {p} |-> IF q = p THEN s ELSE view[q]]
    /\ changes' = changes + 1
    /\ UNCHANGED <<up, rw, known, pending, reader, thr, crashes>>

Crash(a) ==
    /\ a \in up /\ crashes < MaxCrashes
    /\ up' = up \ {a}
    /\ crashes' = crashes + 1
    /\ UNCHANGED <<view, rw, known, pending, reader, thr, changes>>

Restart(a) ==
    /\ a \notin up
    /\ up' = up \cup {a}
    /\ UNCHANGED <<view, rw, known, pending, reader, thr, crashes, changes>>

-----------------------------------------------------------------------------

\* NewDataPartitionWrapper returns only after a first successful refresh,
\* so the pool and the map hold the view the Master gave then.
InitView == [p \in InitPartitions |-> ReadWrite]

Init ==
    /\ view = InitView
    /\ up = Addrs
    /\ rw = Writable(InitView)
    /\ known = DOMAIN InitView
    /\ pending = {}
    /\ reader = [made |-> FALSE, index |-> 0]
    /\ thr = [t \in Threads |-> [pc |-> "idle", idx |-> 0, tries |-> 0,
                                 tried |-> {}, reads |-> 0]]
    /\ crashes = 0
    /\ changes = 0

Next ==
    \/ RefreshFetch
    \/ \E p \in Partitions : RefreshInsert(p)
    \/ NewExtentReader
    \/ \E t \in Threads : ReadStart(t) \/ LoadIndex(t) \/ ReadHost(t)
    \/ \E p \in Partitions, s \in {ReadWrite, ReadOnly} : MasterChange(p, s)
    \/ \E a \in Addrs : Crash(a) \/ Restart(a)

Spec == Init /\ [][Next]_vars

-----------------------------------------------------------------------------
(* Properties                                                              *)

\* Spec 4.5: on each failure the reader advances to the next replica and a
\* read surfaces an error only when all of them failed.  A read that
\* returns an error has tried every replica of the partition: the four
\* attempts of readDataFromDataPartition walk readerIndex round the
\* replicas.  readerIndex is shared by every goroutine reading through the
\* ExtentReader, and a failure of another goroutine advances it as well.
ReadTriesEveryReplica ==
    \A t \in Threads : thr[t].pc = "failed" => thr[t].tried = 0..R-1

====
