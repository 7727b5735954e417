# TLA+ models of baudfs

baudfs is a distributed file system in Go. A **master** keeps the layout of every
volume: its data partitions (replicated sets of extents on DataNodes) and its
meta partitions (raft groups of MetaNodes, each owning a range of inode ids). It
checks both periodically and sends admin tasks to the nodes. **MetaNodes** keep
inodes and dentries in B-trees and apply changes through raft. The **client SDK**
writes file data as extents on a data partition, records each extent key in the
inode on the meta partition, and reads extents back with failover over replicas.

This directory holds the TLA+ modules that model these parts, the TLC
configurations that check them, and `PROJECT.json`, which maps every modelled
definition to the source lines it translates and lists the runs, the mutants and
the hazards.

## Inventory

| Part | Source | State | Operations | Interacts with |
|---|---|---|---|---|
| DataPartition reconciler | `src/master/data_partition_check.go` | replicas (addr, status, report time), status, isRecover, MissNodes | checkStatus, checkMiss, checkDiskError, checkReplicationTask (deleteExcessReplication, addLackReplication, setToNormal) | DataNode heartbeats (reports), admin tasks to DataNodes |
| MetaPartition manager | `src/master/meta_partition.go` | Start, End, MaxNodeID, replicas (addr, start, end, status, IsLeader, report time), PersistenceHosts, Peers, MissNodes, Status | UpdateMetaPartition (report), checkStatus, checkReplicaMiss, GenerateReplicaTask, canOffline, updateInfoToStore, UpdateEnd, checkEnd | MetaNode heartbeats, raft sync of master metadata, admin tasks |
| StreamKey merge | `src/proto/stream_key.go` | list of extent keys of an inode | Put (merge by extent id, keep the larger size), Size | inode store |
| MetaNode inode/dentry store | `src/metanode/kernel_inode.go`, `kernel_dentry.go`, `partition_op_inode.go` | inode tree, dentry tree, inode cursor | CreateInode, DeleteInode, Open, InodeGet, ExtentsAdd | client meta calls via raft |
| MetaNode manager | `src/metanode/manager.go`, `const.go` | state (Standby, Start, Running, Shutdown, Stopped), partitions | Start, Stop, loadPartitions, create/delete/attach/detach partition | master tasks, server dispatch |
| MetaNode server | `src/metanode/server.go` | listener, stop channel | accept loop, serveConn | manager |
| Stream writer | `src/sdk/data/stream/stream_writer.go` | current extent writer, recovery list, flush state | write, flush, close, recoverExtent, allocateNewExtentWriter | DataNodes, meta partition (appendExtentKey) |
| Extent reader | `src/sdk/data/stream/extent_reader.go` | extent key, host index | read with retries over the hosts | DataNodes |
| Partition wrapper | `src/sdk/data/wrapper.go` | partition map, writable pool | periodic update, GetWriteDataPartition | master |
| Meta connection | `src/sdk/meta/conn.go` | connection per partition member | sendToMetaPartition (leader then members, bounded retries) | MetaNodes |
| Blob client | `src/sdk/data/blob/blob.go` | none of its own | Write, Read | wrapper, DataNodes |
| ump log | `src/util/ump/ump_async_log.go` | files, queue | logging and rotation | none |

### Hard behaviours

- The reconciler steps of one tick each take the partition lock on their own;
  heartbeats land between them.
- Admin tasks are fire-and-forget. The reconciler repairs a lost create on its
  next tick, but nothing reasserts a lost UpdateMetaPartition (new End).
- The excess delete and the lack create of one tick complete in any order.
- DataNodes crash and restart. Liveness is judged from the last report time.
- `UpdateEnd` changes a meta partition's End without its lock and across two raft
  writes, while `checkEnd` may reset End under the lock.
- MetaNode `loadPartitions` runs goroutines that write one shared error.
- The client retries flushes through `recoverExtent` up to 32 times, and retries
  meta requests on other members after a timeout.

### Properties each part needs

- DataPartition: writable only when every persistence host has a live,
  writable replica. A persistence host's replica is never deleted. The
  replica set converges to the persistence hosts. Missing hosts are warned
  about.
- MetaPartition: the status reflects the leader. The ranges of a volume's
  partitions are disjoint and cover the id space. Persisted and in-memory End
  agree. A MetaNode never allocates an id outside its partition's range.
- StreamKey: the merge equals the per-extent maximum and does not depend on
  arrival order.
- Inode store: ids are unique and within the range. Deleted inodes are not
  readable.
- MetaManager: Start either succeeds or returns to Standby. Bad directory
  names are never fatal. The code breaks both promises; see `mm_load` below.
- Stream writer: every acknowledged byte is in an extent key recorded at the
  meta partition. Retries are bounded.

## Plan

In order of importance:

1. `DataPartitionCheck` (done): the data partition reconciler with its environment.
2. `MetaPartitionCheck` (done): one meta partition at the master. Reports with
   leadership, checkStatus, checkReplicaMiss and GenerateReplicaTask.
3. `MetaRange` (done): a volume's meta partitions. UpdateEnd as its steps, checkEnd,
   CreateMetaPartition, delivery of the new End to the MetaNode, and inode id
   allocation on the MetaNode. This composes the master and MetaNode sides.
4. `StreamKey` (done): Put and Size as operators, checked against `KeyMap`, the
   per-extent maximum.
5. `InodeStore` and `InodeMap` (done): CreateInode, DeleteInode, ExtentsAdd and
   the marshal round trip on one partition. It is shown to implement the
   abstract `InodeMap` via INSTANCE ... WITH.
6. `StreamWriter` (done): write, flush and recoverExtent, composed with `InodeStore`.
7. `MetaManager` (done): the Start/Stop state machine, the concurrent
   loadPartitions, createPartition and deletePartition.
8. `DataClient` (done): the client's partition view (`Wrapper`) and the
   `ExtentReader` with goroutines sharing it.

TLC runs are limited to twelve, and all twelve are used. Each of the six
passing runs is the only passing run that fires some action. So
`mp_safety` must stay: it is the only passing run that fires `StepDown`,
because `mp_live` with a step-down takes over 8 minutes. The `MetaManager` run
therefore took the slot of the `dp_tick` violation run, and the `DataClient`
run took that of `dp_excess`. Both divergences are now described under
"Divergences without a run".

## Modules and runs

### DataPartitionCheck (`MC_DataPartitionCheck`)

**Model.** One data partition, `checkReplicationTask`'s caller tick, and the
DataNodes.

`step` is the reconciler's position in the tick: checkStatus, checkMiss,
checkDiskError, then checkReplicationTask. Each step is one action, because each
takes the partition lock separately. Every action translates its Go method whole.
For example, `CheckReplicationTask` includes the ReadWrite early return, the
excess delete, the lack create and setToNormal.

The environment is:

- `Report(a)`: a heartbeat from a DataNode that is up and holds the partition.
- `ExecCreate`, `ExecDelete`: a DataNode executing a task.
- `LoseTask`: a task to a dead node is lost.
- `Crash`, `Restart`: a DataNode goes down and comes back.
- `TimePasses`.

**Time.** A replica's `age` is the number of time units since its last report,
capped at MissSec+1. `IsLive` is age < TimeOutSec. `CheckMiss` is age > MissSec.
TimePasses may not age a replica that is up and hosted past the timeout. This is
the heartbeat-within-timeout assumption: a running node reports in time.

**Bounds.** 3 addresses, 2 persistence hosts, ReplicaNum 2, at most 1 crash.
This is enough for every case that matters:

- one excess replica on a non-host;
- one missing host;
- a live and a dead host at once;
- a host that crashes and restarts.

**Fairness.** The reconciler runs on a timer, DataNodes send heartbeats while
up, a crashed node is restarted, and tasks to live nodes execute. Each of these
is weakly fair.

| Run | Checks | Result |
|---|---|---|
| dp_reconcile | TypeOK, DownHostDemotes, Convergence, MissedHostWarned, with a2 able to crash for good (`Permanent`) | pass (about 411k states, 1 min) |

- `DownHostDemotes`: once a persistence host is down for good, the partition
  is eventually never ReadWrite again. `IsLive` judges a replica by its last
  report, so a node that reported just before it crashed still counts as live
  until the report times out. Only a2 can be down for good, because a1 is
  restarted by a fair `Restart`. The mutant `IsLiveNoTimeout`, a liveness test
  that ignores the report age, breaks it.
- `Convergence`, per behaviour: eventually the partition keeps no replica
  outside the persistence hosts, and every persistence host that is up has a
  replica. In a behaviour where a2 never crashes, a2 must get its replica too.
  A host that crashes for good is exempt, because it can never report.
- `MissedHostWarned`: a host that stays missed is warned about infinitely
  often. Without the permanent crash, the fair restart would always end the
  miss first.

The run puts the host that may be lost for good last in `PersistenceHosts`.
In the other order `Convergence` fails, and the failure is the code's.
`addLackReplication` stops at the first persistence host without a replica
(line 191). When that host is down for good, its create task is lost on every
tick, and a host after it that also lacks a replica never gets one. This
follows spec 4.1 ("first address ... with no replica record"). No run is left
to register it, and PROJECT.json lists it as a hazard.

Two claims were dropped from this run. "ReadWrite implies every persistence
host has a replica" follows from the checkStatus guard, because no step removes
a host's record. "No step deletes a host's replica" restates the
`isInPersistenceHosts` filter of `deleteExcessReplication`, since the hosts
are constant.

### MetaPartitionCheck (`MC_MetaPartitionCheck`)

**Model.** One meta partition at the master, the MetaNodes of its raft group
and one spare MetaNode.

- `order` is the `Replicas` slice, in the order `addReplica` appends to it.
- `rec` maps an address to its record: status, IsLeader and age.
- `hosts` is `PersistenceHosts`.
- `step` is the reconciler's position: checkStatus, checkReplicaMiss, then
  GenerateReplicaTask.

`LeaderReplica` translates `getLeaderMetaReplica` including its fallback: with
no leader record it returns the last replica of the slice.

The environment is:

- `Report(a)`: UpdateMetaPartition. It carries the leader flag as raft sees it
  at that moment.
- `Elect`, `StepDown`: raft gains and loses a leader.
- `ExecCreate`, `ExecDelete`: a MetaNode executes a task.
- `Offline(a, b)`: canOffline, then updateInfoToStore replaces a host.
- `TimePasses`.

MetaNode crashes are not modelled here. Lost tasks and resends are the same
mechanism as for data partitions, and `DataPartitionCheck` checks it.

**Bounds.** 3 members and a fourth MetaNode. ReplicaNum 3, TimeOutSec 2. At
most one offline and one leadership loss. Reports are ReadWrite in the passing
runs; this keeps the liveness run under two minutes.

**Fairness.** The reconciler, every MetaNode's reports, election, task
execution and time are weakly fair. `StepDown` is not fair: raft may also keep
its leader.

| Run | Checks | Result |
|---|---|---|
| mp_safety | TypeOK, with one offline and one leadership loss | pass (about 1 min) |
| mp_live | Convergence: after an offline the records become exactly the persistence hosts | pass (about 1.5 min) |
| mp_leader | AtMostOneLeaderRecord (spec 8.2) | violation: after a step-down the old leader's record keeps IsLeader until it reports again, while the new leader reports its own |

### MetaRange (`MC_MetaRange`)

**Model.** A volume's meta partitions and the MetaNode side of each one.

- `start`, `end`, `stored`, `recEnd` and `maxNode` are the master's Start, End,
  the End persisted by raft, the End of the replica records, and MaxNodeID.
- `nodeEnd` and `cursor` are the End the MetaNode knows and its inode cursor.

`UpdateEnd` is split into steps. Each raft write is a step that can fail. The
`ue` record holds what the Go function keeps in locals between the steps. It
takes no lock, so `checkEnd` (`ce`, same shape) and reports interleave with
it. The MetaNode creates the partition asynchronously (`ApplyCreate`), and
applies the new End when the UpdateMetaPartition task arrives (`ApplyUpdate`).
That task can be lost (`LoseTask`).

**Bounds.** MaxInodeID 5, Step 1, at most 2 partitions, one failed raft
write. The passing run allows one lost task; the violation runs allow none.
That is enough for a split while the old partition still allocates.

**Fairness.** Both master routines, reports, partition creation and task
delivery are weakly fair. The master calls checkEnd periodically.

| Run | Checks | Result |
|---|---|---|
| mr_live | TypeOK, MaxPartitionOpen: the partition with the largest id eventually has End = MaxInodeID for good | pass |
| mr_ranges | RangesDisjoint | violation: checkEnd resets the old partition's End to MaxInodeID (line 170) after UpdateEnd has created the next partition |
| mr_ids | UniqueInodeIDs | violation: the old partition keeps allocating up to MaxInodeID before the new End reaches it, and the new partition starts at old End + 1 (line 140) |

### StreamKey, InodeStore, InodeMap and StreamWriter (`MC_StreamWriter`)

**Modules.** Three modules build on one another. A fourth gives the abstract spec.

- `StreamKey` holds the extent-key list of an inode:
  - `Put` is `StreamKey.Put`. It first tries the fast path on the last key, then
    the first key of the same extent, and otherwise appends.
  - `KeysSize` is `StreamKey.Size`.
  - `KeyMap` is the reference meaning of a key list: each extent mapped to the
    largest size recorded for it.
- `InodeStore` holds the inodes of one meta partition:
  - `CreateInode` and `DeleteInode` are the handlers of `partition_op_inode.go`.
  - `ExtentsAdd` is the raft apply of `Inode.AppendExtents`: `Put`, then a
    size refresh.
  - `Restart` rebuilds every inode through `MarshalValue`/`UnmarshalValue`,
    which drop the key list when its size is zero.
- `InodeMap` is the abstract spec. Each inode maps extents to the largest size
  ever recorded. A delete hands every extent back to be freed.
- `StreamWriter` EXTENDS `InodeStore`, so the writer's `appendExtentKey` is an
  `ExtentsAdd` on the same state.

**How `StreamWriter` maps to the code.**

- The server goroutine handles one request at a time. Its position in `write`,
  `init`, `flushCurrExtentWriter` and `recoverExtent` is `pc`.
- `flushFrom` and `recoverFrom` record where a flush or a recovery returns, so
  the recursion flush → recover → flush is a sequence of steps.
- The extent writer is not in the repository, so it is modelled from spec 4.4.
  Data is counted in units (packets):
  - `write` queues what the extent has room for (`Room`). The ghost variable
    `queued` adds up these units, and `synced` is `queued` when a user flush
    last returned success;
  - the DataNode acknowledges queued packets while its partition is up (`Ack`);
  - `toKey` is the acknowledged size.
- The environment:
  - data partitions fail;
  - the MetaNode is unreachable for a while (`MetaOutage`, `MetaBack`);
  - the MetaNode restarts;
  - another client creates or deletes inodes;
  - a key sent earlier is applied again (`Redeliver`). This models
    `sendToMetaPartition` resending a request to another member after a
    timeout, when both copies reach raft.

**Bounds.**

- Two data partitions, of which one may fail.
- Extents of two units, at most three extents.
- At most three units written.
- The retry bound `MaxSelectDataPartionForWrite` is 2, not 32, and
  `MaxStreamInitRetry` is 1.

These are enough to fill an extent, recover onto the other partition, exhaust
the retry bound and reapply an old key after a newer extent.

**Fairness.** `Server`, `Ack` and `MetaBack` are weakly fair:

- the server goroutine runs whenever it has a step;
- an up DataNode answers;
- outages end.

Data partition failures, restarts, deletes and redeliveries are not fair.

| Run | Checks | Result |
|---|---|---|
| sw_main | TypeOK; FlushedDurable: after a successful flush every unit the extent writers accepted is in the inode's keys; SizeMatchesContent: the inode size is the sum of the per-extent maxima; ImplementsInodeMap: the refinement | pass (83k states, one- and two-unit writes, no MetaNode outage) |
| sw_live | RequestAnswered: every request the server takes up is answered | pass (558k states, one- and two-unit writes, one outage) |
| sw_outage | FlushedDurable | violation, as described below |

The `sw_outage` violation happens as follows:

1. A flush's meta update fails while the MetaNode is unreachable.
2. `recoverExtent` ignores the failure of its own update (line 312) and
   installs a new, empty extent writer.
3. The next flush sends nothing, because `ek.Size == 0` is skipped, and returns
   success.

The acknowledged data of the old extent is never recorded.

`ENOENT` (line 216) tests a `status` that is never assigned. A flush of a
deleted inode is therefore treated as a failure, and recovers and flushes again
until `errCount` reaches the bound. `FlushDone` models this as the code does it,
and `RequestAnswered` shows the loop still ends.

### MetaManager (`MC_MetaManager`)

**Model.** The partition manager of one MetaNode (`manager.go`).

- `state` is `m.state`.
- `err` is the one error variable of `loadPartitions`. Every loader goroutine
  assigns it: to nil when the id parses (line 185), to the parse error, and
  to the result of `attachPartition` (line 200). The data race leaves the last
  write.
- `scan` maps each scanned directory to its loader goroutine's position.
- `partitions` is the id set of `m.partitions`.
- `running` counts the partition actors per id.
- `disk` is the set of directories under rootDir.
- `handler` holds server goroutines running `createPartition`, in three steps:
  the check under the read lock, `StoreMeta`, and the attach.

`StartBegin` is the compare-and-swap plus the scan; `StartEnd` is `wg.Wait`
plus the deferred store. `DeletePartition` only detaches. `Crash` loses
everything but rootDir. The partition actor is not in the repository. Its
Start may fail, and its Stop calls the after_stop hook, which detaches it
(spec 5).

`failed`, the ids whose partition failed to start in this scan, is a history
variable for the property.

| Run | Checks | Result |
|---|---|---|
| mm_load | StartReportsLoad: Start ends Running exactly when every valid partition directory it scanned was started (spec 4.3: only invalid names are skipped) | violation, as described below |

The `mm_load` violation:

1. The first partition's Start fails, and its loader sets `err` (line 200).
2. The second loader parses its id and sets `err` back to nil (line 185).
3. Its attach succeeds, and Start stores Running with the first partition
   missing.

The bounds are two valid directories, one partition Start failure and one
create handler. No run is left for a passing check of this module. With the
bounds raised (unparsable names, two Start calls, one crash), TLC
explores 25k states. In that exploration every action fires and `TypeOK` holds.

The same model reaches three more defects. They are not registered as runs:

- An unparsable name alone makes Start fail. Line 185 leaves its parse error
  in `err`, but spec 4.3 says invalid names are never fatal.
- A Start that fails stores Standby and leaves the partitions it attached
  running. A second Start attaches them again, so two actors run one id.
- `createPartition` racing with a loader of the same id also starts two
  actors. Its check (line 238) and its attach (line 264) are far apart.
  `deletePartition` only detaches: the actor keeps running and the directory
  stays, so the partition returns after a restart.

### DataClient (`MC_DataClient`)

**Model.** The client's view of a volume's data partitions (`wrapper.go`)
and one `ExtentReader` (`extent_reader.go`) shared by reading goroutines.

- `view` is the Master's answer to `/client/dataPartitions`.
- `rw` is `w.rwPartition` and `known` the ids in `w.partitions`.
- `pending` holds the partitions of a refresh that are not inserted yet.
- `reader.index` is `readerIndex`.
- `thr[t]` is the position of goroutine `t` in a read: `load` before the
  atomic load of the index, `io` while it uses the host. It also holds the
  attempts made and the replica indices tried, a history for the property.

`RefreshFetch` is `updateDataPartition` up to the pool assignment, including
the early return when fewer than `MinWritable` partitions are writable.
`RefreshInsert(p)` is one `replaceOrInsertPartition`, which takes the lock
for itself. `NewExtentReader` looks the partition up with `GetDataPartition`
and draws the first index at random. `LoadIndex` and `ReadHost` are
`streamReadDataFromHost`: the load, and the reset to 0 of an index past the
replicas, then the attempt. The attempt advances the index on any failure.
`ReadHost` also makes the retry decision of `readDataFromDataPartition`: one
attempt and three more.

The environment is the Master changing or creating partitions, and DataNodes
crashing and restarting. An attempt can succeed only on a host that is up. It
can fail on any host (timeout, bad CRC, mismatched reply).

| Run | Checks | Result |
|---|---|---|
| dc_shared | ReadTriesEveryReplica: a read that returns an error has tried every replica (spec 4.5) | violation, as described below |

The `dc_shared` violation needs two goroutines reading through one
ExtentReader:

1. Goroutine t1 fails on replicas 0 and 1, which moves the index to 2.
2. Goroutine t2 loads index 2, fails there and moves the index to 3.
3. t1 loads 3, resets it to 0 and fails on replicas 0 and 1 again.
4. t1 returns an error after four attempts, having never tried replica 2.

Two goroutines failing on the same replica also move the index by two, so
they can skip a replica that nobody tried. The atomics on `readerIndex` show
the code expects concurrent reads. One counter for all of them breaks the
walk over the replicas that each read relies on.

With one goroutine the property holds: TLC checks `TypeOK` and
`ReadTriesEveryReplica` with a crash, two view changes and two reads over
15k states, and every action fires. No run slot is left for this passing
check.

The model also reaches, without a run:

- Right after `RefreshFetch`, the pool holds a new partition that the map
  does not have yet (`rw` is not a subset of `known`). The stream writer may
  write to it, and a reader of that extent fails in `GetDataPartition` until
  the insert.
- While fewer than `MinWritable` partitions are writable, no refresh
  inserts anything. A partition created meanwhile stays unknown, and
  `NewExtentReader` fails for it. Spec 4.6 keeps the old pool; for the map,
  section 8(b) leaves the choice open and updates the map anyway.

### Divergences without a run

These were found while translating the code. Most are visible in one call, so
a unit test reaches them and no run is spent on them.

- `data_partition_check.go:142`: the ReadWrite early return of
  checkReplicationTask comes before setToNormal. `isRecover` is never cleared
  on a partition that is already writable.
- `meta_partition.go:207`: with no leader record, checkStatus takes the status
  of the last replica. It does not set Unavailable as spec 4.2 says.
- `meta_partition.go:359`: needWarnMissReplica always returns false, so a
  missing meta replica is never warned about.
- `data_partition_check.go:149`: checkReplicationTask emits the excess
  delete and the lack create in the same tick, with no order between them.
  Spec 4.1 says excess is removed before lack is added. When the create
  completes first, the partition holds ReplicaNum + 1 replicas.
  `DataPartitionCheck` reaches this when it starts with a replica on a
  non-host and a persistence host without one. Until its slot went to
  `DataClient`, the `dp_excess` run checked that no added record takes the
  count above ReplicaNum.
- `meta_partition.go:241`: a delete task for an excess address can execute
  after a second offline made that address a persistence host again.
  `MetaPartitionCheck` reaches this with two offlines (about 54k states).
  `mp_safety` allows one offline, so that it stays fast.
- `data_partition_check.go:14`: each reconciler step takes the partition lock
  on its own. Spec 4.1 describes the whole sequence under the mutex. A
  read-only report landing after checkStatus makes the tick end ReadWrite
  with a read-only replica. `DataPartitionCheck` reaches this when
  `ReportStatuses` includes ReadOnly. It had a run of its own until the run
  slot went to `MetaManager`.
- `stream_writer.go:185-192`: when `recoverExtent` succeeds, `write` counts the
  whole remainder of the request as written. Only the units the old extent had
  room for were queued and resent. A two-unit write straddling an extent
  boundary, on a partition that fails, reports two units written while one
  reaches the new extent. For this reason `FlushedDurable` is stated over
  `queued`, the ghost count of units the extent writers accepted, and not over
  `written`, the count `write` returns. With two-unit writes, checking
  `written <= queued` fails at once. No run is left to register it.

## Not modelled

- The ump log is file I/O.
- The blob client (`blob.go`) is a retry loop around `PartitionCache` and
  `sendToDataPartition`, and neither is in the repository. Both of its
  hazards show up in a single call with a stub sender:
  - a write that landed but timed out is resent to another partition;
  - `Read` dereferences a nil partition.
- `ExtentReader.readDataFromHost`, the non-stream read, has no caller in the
  repository. `updateKey` only grows the key's size, and no property
  depends on the size.
- `Wrapper.GetWriteDataPartition` is the partition choice that
  `StreamWriter` abstracts as `Usable`.
- The MetaNode server's accept loop is socket I/O.
- Byte-level marshalling is left out, except where a property depends on it.
  `MarshalValue` dropping an empty key list is the one case kept.
- The dentry tree and the inode reads (Open, InodeGet, InodeGetBatch) have no
  state change that a property is about.
- The stream writer's `close` is not modelled. The 3 MB flush at the top of the
  server loop is covered by `Tick`: both flush the current writer between
  requests.
- `allocateNewExtentWriter` is abstracted. It succeeds exactly when a partition
  that is up and not excluded exists, although its 32 random picks could in
  principle all miss it.
