------------------------------ MODULE MetaRange ------------------------------
(***************************************************************************)
(* The inode-id ranges of one volume's meta partitions, on the Master and  *)
(* on the MetaNodes (src/master/meta_partition.go UpdateEnd and checkEnd,  *)
(* src/metanode/partition_op_inode.go CreateInode).                        *)
(*                                                                         *)
(* UpdateEnd splits the highest partition: it sets End in memory, persists *)
(* it through the Master's raft (syncUpdateMetaPartition), sends the new   *)
(* End to the partition's leader as an UpdateMetaPartition task and calls  *)
(* CreateMetaPartition for [End+1, MAX].  It takes no partition lock and   *)
(* blocks in two raft writes, so it is three actions with `ue` holding its *)
(* locals.  checkEnd sets the highest partition's End back to MAX under    *)
(* the lock, around one raft write: two actions with `ce`.  Nothing orders *)
(* the two.                                                                *)
(*                                                                         *)
(* On the MetaNode a partition allocates inode ids from its cursor up to   *)
(* the End it knows, which changes only when the task arrives.             *)
(***************************************************************************)
EXTENDS Naturals, FiniteSets

CONSTANTS
    MaxInodeID,  \* DefaultMaxMetaPartitionInodeID
    Step,        \* DefaultMetaPartitionInodeIDStep
    MaxParts,    \* bound on the partitions of the volume
    MaxFails,    \* bound on failed raft writes and creations
    MaxLost      \* bound on lost UpdateMetaPartition tasks

ASSUME /\ Step \in 1..MaxInodeID /\ MaxParts \in Nat \ {0}
       /\ MaxFails \in Nat /\ MaxLost \in Nat

PIDs == 1..MaxParts
IDs  == 0..MaxInodeID + 1

VARIABLES
    parts,     \* the volume's meta partition ids
    start,     \* pid -> mp.Start
    end,       \* pid -> mp.End in the Master's memory
    stored,    \* pid -> End as last persisted through the Master's raft
    recEnd,    \* pid -> end of the MetaReplica records
    maxNode,   \* pid -> mp.MaxNodeID, from the leader's report
    ue,        \* UpdateEnd in progress: pc and its locals
    ce,        \* checkEnd in progress: pc and its locals
    tasks,     \* UpdateMetaPartition tasks sent and not yet applied
    nodeEnd,   \* pid -> End the MetaNode partition allocates up to
    cursor,    \* pid -> last inode id the MetaNode partition allocated
    created,   \* pids whose MetaNode partition exists
    fails,     \* failed raft writes and creations so far
    lost       \* lost tasks so far

vars == <<parts, start, end, stored, recEnd, maxNode, ue, ce, tasks, nodeEnd,
          cursor, created, fails, lost>>

UEState == [pc : {"idle"}] \cup
           [pc : {"sync"}, p : PIDs, e : IDs, old : IDs] \cup
           [pc : {"create"}, p : PIDs, s : IDs]
CEState == [pc : {"idle"}] \cup [pc : {"sync"}, p : PIDs, old : IDs]

TypeOK ==
    /\ parts \subseteq PIDs
    /\ \A f \in {start, end, stored, recEnd, maxNode, nodeEnd, cursor} :
          f \in [PIDs -> IDs]
    /\ ue \in UEState /\ ce \in CEState
    /\ tasks \subseteq [p : PIDs, e : IDs]
    /\ created \subseteq parts
    /\ fails \in 0..MaxFails /\ lost \in 0..MaxLost

-----------------------------------------------------------------------------

\* vol.getMaxPartitionID
MaxPartitionID == CHOOSE p \in parts : \A q \in parts : q <= p

\* The ids a MetaNode partition has handed out.
Allocated(p) == start[p]..cursor[p]

\* The Master's in-memory range of a partition.
Range(p) == start[p]..end[p]

\* The caller's choice of a new End: the reported MaxNodeID plus a step.
NewEnd(p) == maxNode[p] + Step

-----------------------------------------------------------------------------
(* UpdateEnd                                                               *)

\* Mutant: no overflow guard.
EndInRangeNoGuard(e) == TRUE

\* Lines 118-123: the overflow guard.
EndInRange(e) == e <= MaxInodeID - Step

\* Lines 117-134: past the overflow guard, End is set in memory and the
\* update task composed (a leaderless partition reverts at once and is no
\* step at all); the raft write of mp then blocks.
UpdateEndBegin ==
    /\ ue.pc = "idle"
    /\ Cardinality(parts) < MaxParts
    /\ LET p == MaxPartitionID
           e == NewEnd(p)
       IN /\ EndInRange(e)
          /\ end' = [end EXCEPT ![p] = e]
          /\ ue' = [pc |-> "sync", p |-> p, e |-> e, old |-> end[p]]
    /\ UNCHANGED <<parts, start, stored, recEnd, maxNode, ce, tasks, nodeEnd,
                   cursor, fails, lost, created>>

\* Lines 134-141: the write succeeds; the replica records take the current
\* End, the task is queued and CreateMetaPartition is called with End+1.
UpdateEndSynced ==
    /\ ue.pc = "sync"
    /\ LET p == ue.p
       IN /\ stored' = [stored EXCEPT ![p] = ue.e]
          /\ recEnd' = [recEnd EXCEPT ![p] = end[p]]
          /\ tasks' = tasks \cup {[p |-> p, e |-> ue.e]}
          /\ ue' = [pc |-> "create", p |-> p, s |-> end[p] + 1]
    /\ UNCHANGED <<parts, start, end, maxNode, ce, nodeEnd, cursor, fails,
                   lost, created>>

\* Lines 134-136: the write fails and End is put back to the value read
\* before it.
UpdateEndSyncFailed ==
    /\ ue.pc = "sync" /\ fails < MaxFails
    /\ end' = [end EXCEPT ![ue.p] = ue.old]
    /\ ue' = [pc |-> "idle"]
    /\ fails' = fails + 1
    /\ UNCHANGED <<parts, start, stored, recEnd, maxNode, ce, tasks, nodeEnd,
                   cursor, lost, created>>

\* CreateMetaPartition(start, MAX): the next partition id is persisted with
\* the range and create tasks go to its MetaNodes.
CreateMetaPartition ==
    /\ ue.pc = "create"
    /\ LET q == MaxPartitionID + 1
       IN /\ parts' = parts \cup {q}
          /\ start' = [start EXCEPT ![q] = ue.s]
          /\ end' = [end EXCEPT ![q] = MaxInodeID]
          /\ stored' = [stored EXCEPT ![q] = MaxInodeID]
          /\ recEnd' = [recEnd EXCEPT ![q] = MaxInodeID]
          /\ maxNode' = [maxNode EXCEPT ![q] = ue.s - 1]
    /\ ue' = [pc |-> "idle"]
    /\ UNCHANGED <<ce, tasks, nodeEnd, cursor, fails, lost, created>>

\* Lines 141-145: CreateMetaPartition fails; the shortened End stays.
CreateMetaPartitionFailed ==
    /\ ue.pc = "create" /\ fails < MaxFails
    /\ ue' = [pc |-> "idle"]
    /\ fails' = fails + 1
    /\ UNCHANGED <<parts, start, end, stored, recEnd, maxNode, ce, tasks,
                   nodeEnd, cursor, lost, created>>

-----------------------------------------------------------------------------
(* checkEnd                                                                *)

\* Mutant: the End test of checkEnd inverted.
CheckEndBeginInverted ==
    /\ ce.pc = "idle"
    /\ LET p == MaxPartitionID
       IN /\ end[p] = MaxInodeID
          /\ end' = [end EXCEPT ![p] = MaxInodeID]
          /\ ce' = [pc |-> "sync", p |-> p, old |-> end[p]]
    /\ UNCHANGED <<parts, start, stored, recEnd, maxNode, ue, tasks, nodeEnd,
                   cursor, fails, lost, created>>

\* Lines 153-173: on the highest partition, under its lock, an End other
\* than MAX is set to MAX and mp written through raft, which blocks.
CheckEndBegin ==
    /\ ce.pc = "idle"
    /\ LET p == MaxPartitionID
       IN /\ end[p] # MaxInodeID
          /\ end' = [end EXCEPT ![p] = MaxInodeID]
          /\ ce' = [pc |-> "sync", p |-> p, old |-> end[p]]
    /\ UNCHANGED <<parts, start, stored, recEnd, maxNode, ue, tasks, nodeEnd,
                   cursor, fails, lost, created>>

\* Line 173: the write succeeds.
CheckEndSynced ==
    /\ ce.pc = "sync"
    /\ stored' = [stored EXCEPT ![ce.p] = MaxInodeID]
    /\ ce' = [pc |-> "idle"]
    /\ UNCHANGED <<parts, start, end, recEnd, maxNode, ue, tasks, nodeEnd,
                   cursor, fails, lost, created>>

\* Lines 173-176: the write fails and End is put back.
CheckEndSyncFailed ==
    /\ ce.pc = "sync" /\ fails < MaxFails
    /\ end' = [end EXCEPT ![ce.p] = ce.old]
    /\ ce' = [pc |-> "idle"]
    /\ fails' = fails + 1
    /\ UNCHANGED <<parts, start, stored, recEnd, maxNode, ue, tasks, nodeEnd,
                   cursor, lost, created>>

-----------------------------------------------------------------------------
(* The MetaNodes                                                           *)

\* The MetaNodes execute OpCreateMetaPartition: the partition starts with
\* the range of the request and an empty cursor.
ApplyCreate(q) ==
    /\ q \in parts \ created
    /\ created' = created \cup {q}
    /\ nodeEnd' = [nodeEnd EXCEPT ![q] = MaxInodeID]
    /\ cursor' = [cursor EXCEPT ![q] = start[q] - 1]
    /\ UNCHANGED <<parts, start, end, stored, recEnd, maxNode, ue, ce, tasks,
                   fails, lost>>

\* CreateInode: nextInodeID hands out cursor+1 unless that passes the End
\* the partition knows (OpInodeFullErr, no change).  The id is taken
\* whether or not the raft Put of the inode then succeeds.
CreateInode(p) ==
    /\ p \in created
    /\ cursor[p] + 1 <= nodeEnd[p]
    /\ cursor' = [cursor EXCEPT ![p] = cursor[p] + 1]
    /\ UNCHANGED <<parts, start, end, stored, recEnd, maxNode, ue, ce, tasks,
                   nodeEnd, fails, lost, created>>

\* The leader's heartbeat: UpdateMetaPartition sets mp.MaxNodeID to the
\* reported MaxInodeID (line 277).
Report(p) ==
    /\ p \in created
    /\ maxNode' = [maxNode EXCEPT ![p] = cursor[p]]
    /\ UNCHANGED <<parts, start, end, stored, recEnd, ue, ce, tasks, nodeEnd,
                   cursor, fails, lost, created>>

\* The leader applies an UpdateMetaPartition task.
ApplyUpdate(t) ==
    /\ t \in tasks
    /\ nodeEnd' = [nodeEnd EXCEPT ![t.p] = t.e]
    /\ tasks' = tasks \ {t}
    /\ UNCHANGED <<parts, start, end, stored, recEnd, maxNode, ue, ce, cursor,
                   fails, lost, created>>

\* The task is lost: its target was a stale leader record or was down.
LoseTask(t) ==
    /\ t \in tasks /\ lost < MaxLost
    /\ tasks' = tasks \ {t}
    /\ lost' = lost + 1
    /\ UNCHANGED <<parts, start, end, stored, recEnd, maxNode, ue, ce, nodeEnd,
                   cursor, fails, created>>

-----------------------------------------------------------------------------

\* A volume created with its first partition over the whole id space.
Init ==
    /\ parts = {1}
    /\ start = [p \in PIDs |-> IF p = 1 THEN 1 ELSE 0]
    /\ end = [p \in PIDs |-> IF p = 1 THEN MaxInodeID ELSE 0]
    /\ stored = end
    /\ recEnd = end
    /\ maxNode = [p \in PIDs |-> 0]
    /\ ue = [pc |-> "idle"]
    /\ ce = [pc |-> "idle"]
    /\ tasks = {}
    /\ nodeEnd = end
    /\ cursor = [p \in PIDs |-> 0]
    /\ created = {1}
    /\ fails = 0
    /\ lost = 0

UpdateEndStep == UpdateEndSynced \/ UpdateEndSyncFailed
                 \/ CreateMetaPartition \/ CreateMetaPartitionFailed
CheckEndStep == CheckEndBegin \/ CheckEndSynced \/ CheckEndSyncFailed

Next ==
    \/ UpdateEndBegin \/ UpdateEndStep \/ CheckEndStep
    \/ \E p \in PIDs : CreateInode(p) \/ Report(p) \/ ApplyCreate(p)
    \/ \E t \in tasks : ApplyUpdate(t) \/ LoseTask(t)

\* Raft writes complete, checkEnd runs on a timer, MetaNodes report and
\* apply the tasks they receive.  Splits and inode creations are driven by
\* callers and need not happen.
Fairness ==
    /\ WF_vars(UpdateEndStep) /\ WF_vars(CheckEndStep)
    /\ \A p \in PIDs : WF_vars(Report(p)) /\ WF_vars(ApplyCreate(p))
    /\ \A t \in [p : PIDs, e : IDs] : WF_vars(ApplyUpdate(t))

Spec == Init /\ [][Next]_vars /\ Fairness

-----------------------------------------------------------------------------
(* Properties                                                              *)

\* Spec 4.2: only the highest partition owns the open upper bound, so the
\* Master's ranges of a volume never overlap, whatever order UpdateEnd and
\* checkEnd interleave in.
RangesDisjoint ==
    \A p, q \in parts : p # q => Range(p) \cap Range(q) = {}

\* Spec 3: inode ids allocated by a partition lie in its range, so no id is
\* handed out by two partitions of the volume.
UniqueInodeIDs ==
    \A p, q \in parts : p # q => Allocated(p) \cap Allocated(q) = {}

\* checkEnd repairs a split that shortened the highest partition without
\* creating the next one: the highest partition ends up owning MAX.
MaxPartitionOpen == <>[](end[MaxPartitionID] = MaxInodeID)

====
