------------------------- MODULE MetaPartitionCheck -------------------------
(***************************************************************************)
(* The Master's view of one MetaPartition (src/master/meta_partition.go)   *)
(* and the MetaNodes of its raft group.                                    *)
(*                                                                         *)
(* The Master keeps Replicas as a slice in order of first report; which    *)
(* record getLeaderMetaReplica returns depends on that order, so the model *)
(* keeps it (`order`) beside the records themselves (`rec`).  A record is  *)
(* refreshed only by a report from its MetaNode, so its IsLeader flag is   *)
(* what that node last said, not what raft currently says (`leader`).      *)
(*                                                                         *)
(* One reconciler tick runs checkStatus, checkReplicaMiss and              *)
(* GenerateReplicaTask, each under its own lock (program counter `step`).  *)
(* The environment: MetaNodes report, win and lose raft leadership,       *)
(* execute admin tasks, and an operator moves a replica off a host         *)
(* (offline), which is what leaves excess records behind.  MetaNode        *)
(* crashes and lost tasks are left to DataPartitionCheck, whose reconciler *)
(* answers them the same way; here a leader change comes from raft.       *)
(***************************************************************************)
EXTENDS Naturals, FiniteSets, Sequences, SequencesExt

CONSTANTS
    Addrs,          \* MetaNode addresses
    InitHosts,      \* PersistenceHosts when the partition is created
    ReplicaNum,     \* mp.ReplicaNum (and the vol's replica number)
    ReportStatuses, \* statuses a MetaNode may report for its replica
    TimeOutSec,     \* DefaultMetaPartitionTimeOutSec
    WarnInterval,   \* the warn interval handed to checkReplicaMiss
    MaxOfflines,    \* bound on offline operations in one behaviour
    MaxStepDowns    \* bound on raft leadership losses in one behaviour

CONSTANTS ReadWrite, ReadOnly, Unavailable   \* proto partition statuses
CONSTANTS OpCreate, OpDelete     \* OpCreateMetaPartition, OpDeleteMetaPartition
CONSTANT  NoNode                 \* raft has no leader

ASSUME /\ IsInjective(InitHosts)
       /\ ToSet(InitHosts) \subseteq Addrs
       /\ Len(InitHosts) = ReplicaNum
       /\ ReportStatuses \subseteq {ReadWrite, ReadOnly, Unavailable}
       /\ NoNode \notin Addrs
       /\ 0 < TimeOutSec

Majority == ReplicaNum \div 2 + 1

\* isMissed compares with >, isActive with <: ages beyond TimeOutSec + 1
\* are not told apart.
AgeCap  == TimeOutSec + 1
WarnCap == WarnInterval + 1

VARIABLES
    order,      \* addresses of mp.Replicas in slice order
    rec,        \* addr -> [status, isLeader, age] of each MetaReplica
    status,     \* mp.Status
    hosts,      \* mp.PersistenceHosts (a sequence)
    missNodes,  \* mp.MissNodes: addr -> age of the last warn record
    warned,     \* addresses a warning was emitted for by the latest check
    tasks,      \* admin tasks emitted and not yet executed
    step,       \* which reconciler step runs next
    hosted,     \* MetaNodes that hold the partition
    leader,     \* the raft leader of the group, or NoNode
    offlines,   \* offline operations so far
    stepDowns   \* leadership losses so far

vars == <<order, rec, status, hosts, missNodes, warned, tasks, step, hosted,
          leader, offlines, stepDowns>>

Task  == [op : {OpCreate, OpDelete}, addr : Addrs]
Steps == <<"checkStatus", "checkReplicaMiss", "generateReplicaTask">>
Rec   == [status : ReportStatuses \cup {ReadWrite}, isLeader : BOOLEAN,
          age : 0..AgeCap]

TypeOK ==
    /\ order \in Seq(Addrs) /\ IsInjective(order)
    /\ rec \in [ToSet(order) -> Rec]
    /\ status \in {ReadWrite, ReadOnly, Unavailable}
    /\ hosts \in Seq(Addrs) /\ IsInjective(hosts) /\ Len(hosts) = ReplicaNum
    /\ DOMAIN missNodes \subseteq Addrs
    /\ \A a \in DOMAIN missNodes : missNodes[a] \in 0..WarnCap
    /\ warned \subseteq Addrs
    /\ tasks \subseteq Task
    /\ step \in ToSet(Steps)
    /\ hosted \subseteq Addrs
    /\ leader \in Addrs \cup {NoNode}
    /\ offlines \in 0..MaxOfflines /\ stepDowns \in 0..MaxStepDowns

-----------------------------------------------------------------------------
(* Helpers                                                                 *)

HostSet == ToSet(hosts)

Put(f, k, v) == [x \in DOMAIN f \cup {k} |-> IF x = k THEN v ELSE f[x]]
Delete(f, k) == [x \in DOMAIN f \ {k} |-> f[x]]

\* Mutant: the result of append is dropped.
AddReplicaDropped(o, a) == o

\* addReplica: append unless a record for the address exists.
AddReplica(o, a) == IF a \in ToSet(o) THEN o ELSE Append(o, a)

\* metaNode.IsActive: the Master's node-level heartbeat flag (the MetaNode
\* type is not in this repository; spec 4.1 check_status gives
\* node.is_active).  No MetaNode stops in this model, so every node stays
\* active.
MetaNodeIsActive(a) == TRUE

\* isActive: the node is active, and the replica reported within the
\* timeout and not Unavailable.
IsActive(a) ==
    /\ MetaNodeIsActive(a)
    /\ rec[a].status # Unavailable /\ rec[a].age < TimeOutSec

\* isMissed
IsMissed(a) == rec[a].age > TimeOutSec

\* getLiveReplica
LiveReplicas == {a \in ToSet(order) : IsActive(a)}

\* getLeaderMetaReplica: the first record flagged leader.  With none the
\* loop variable mr is left at the last record and returned beside err.
LeaderRecords == {i \in 1..Len(order) : rec[order[i]].isLeader}
LeaderReplica ==
    IF LeaderRecords = {} THEN order[Len(order)]
    ELSE order[CHOOSE i \in LeaderRecords : \A j \in LeaderRecords : i <= j]
HasLeaderRecord == LeaderRecords # {}

\* needWarnMissReplica records the warn time on the same branches as the
\* data partition version ...
RecordWarn(a) == a \notin DOMAIN missNodes \/ missNodes[a] > WarnInterval

\* ... but returns false on every path.
NeedWarnMissReplica(a) == FALSE

\* canOffline with hasMajorityReplicas
CanOffline(a) ==
    /\ Cardinality(LiveReplicas) >= Majority
    /\ ~(Cardinality(LiveReplicas) = Majority /\ a \in LiveReplicas)

\* Mutant: the contains test of deleteExcessReplication inverted.
ExcessTasksInverted ==
    LET idx == {i \in 1..Len(order) : order[i] \in HostSet}
    IN IF idx = {} THEN {}
       ELSE {[op |-> OpDelete,
              addr |-> order[CHOOSE i \in idx : \A j \in idx : i <= j]]}

\* deleteExcessReplication: a delete task for the first record, in slice
\* order, whose address is not a persistence host.
ExcessIdx == {i \in 1..Len(order) : order[i] \notin HostSet}
ExcessTasks ==
    IF ExcessIdx = {} THEN {}
    ELSE {[op |-> OpDelete,
           addr |-> order[CHOOSE i \in ExcessIdx : \A j \in ExcessIdx : i <= j]]}

\* getLackReplication: the first persistence host without a record.
LackIdx == {i \in 1..Len(hosts) : hosts[i] \notin ToSet(order)}
LackTasks ==
    IF LackIdx = {} THEN {}
    ELSE {[op |-> OpCreate,
           addr |-> hosts[CHOOSE i \in LackIdx : \A j \in LackIdx : i <= j]]}

NextStep(s) ==
    LET i == CHOOSE k \in 1..Len(Steps) : Steps[k] = s
    IN Steps[(i % Len(Steps)) + 1]

-----------------------------------------------------------------------------
(* The reconciler, one action per lock-holding step                       *)

\* checkStatus: Unavailable without a live majority, otherwise the status
\* of the replica getLeaderMetaReplica returns (line 207 overwrites the
\* Unavailable of line 205).
CheckStatus ==
    /\ step = "checkStatus"
    /\ status' = IF Cardinality(LiveReplicas) <= ReplicaNum \div 2
                 THEN Unavailable
                 ELSE rec[LeaderReplica].status
    /\ step' = NextStep(step)
    /\ UNCHANGED <<order, rec, hosts, missNodes, warned, tasks, hosted,
                   leader, offlines,
                   stepDowns>>

\* checkReplicaMiss: first the persistence-host records that are missed,
\* then the persistence hosts that are not live; needWarnMissReplica
\* records a warn time for each that is due.  The second loop sees the
\* times the first loop recorded.
CheckReplicaMiss ==
    /\ step = "checkReplicaMiss"
    /\ LET due1 == {a \in ToSet(order) : a \in HostSet /\ IsMissed(a)
                                          /\ RecordWarn(a)}
           due2 == {a \in HostSet \ due1 : a \notin LiveReplicas
                                           /\ RecordWarn(a)}
       IN /\ warned' = {a \in due1 \cup due2 : NeedWarnMissReplica(a)}
          /\ missNodes' = [a \in DOMAIN missNodes \cup due1 \cup due2 |->
                              IF a \in due1 \cup due2 THEN 0 ELSE missNodes[a]]
    /\ step' = NextStep(step)
    /\ UNCHANGED <<order, rec, status, hosts, tasks, hosted, leader,
                   offlines,
                   stepDowns>>

\* GenerateReplicaTask: the excess delete and the lack create, whatever
\* the status.
GenerateReplicaTask ==
    /\ step = "generateReplicaTask"
    /\ tasks' = tasks \cup ExcessTasks \cup LackTasks
    /\ step' = NextStep(step)
    /\ UNCHANGED <<order, rec, status, hosts, missNodes, warned, hosted,
                   leader, offlines,
                   stepDowns>>

-----------------------------------------------------------------------------
(* MetaNodes, raft and the operator                                        *)

\* UpdateMetaPartition: a report from a persistence host creates its
\* record (appended to the slice) if missing, sets status, IsLeader and
\* the report time, and clears its miss record.  Reports from other
\* addresses return before any change.
Report(a) ==
    /\ a \in hosted /\ a \in HostSet
    /\ \E st \in ReportStatuses :
          rec' = Put(rec, a, [status |-> st, isLeader |-> (leader = a),
                              age |-> 0])
    /\ order' = IF a \in ToSet(order) THEN order ELSE AddReplica(order, a)
    /\ missNodes' = Delete(missNodes, a)
    /\ UNCHANGED <<status, hosts, warned, tasks, step, hosted, leader,
                   offlines,
                   stepDowns>>

\* Raft elects a leader among the members holding the partition once a
\* majority of the members holds it.
Elect(a) ==
    /\ leader = NoNode
    /\ a \in hosted \cap HostSet
    /\ Cardinality(hosted \cap HostSet) >= Majority
    /\ leader' = a
    /\ UNCHANGED <<order, rec, status, hosts, missNodes, warned, tasks, step,
                   hosted, offlines,
                   stepDowns>>

\* A MetaNode executes OpCreateMetaPartition.
ExecCreate(t) ==
    /\ t \in tasks /\ t.op = OpCreate
    /\ hosted' = hosted \cup {t.addr}
    /\ tasks' = tasks \ {t}
    /\ UNCHANGED <<order, rec, status, hosts, missNodes, warned, step, leader,
                   offlines,
                   stepDowns>>

\* A MetaNode executes OpDeleteMetaPartition; the response removes the
\* Master's record of that replica.
ExecDelete(t) ==
    /\ t \in tasks /\ t.op = OpDelete
    /\ hosted' = hosted \ {t.addr}
    /\ order' = SelectSeq(order, LAMBDA x : x # t.addr)
    /\ rec' = Delete(rec, t.addr)
    /\ tasks' = tasks \ {t}
    /\ UNCHANGED <<status, hosts, missNodes, warned, step, leader, offlines,
                   stepDowns>>

\* The leader loses leadership (a partition or a slow heartbeat); it keeps
\* running and says so in its next report.
StepDown ==
    /\ stepDowns < MaxStepDowns
    /\ leader # NoNode
    /\ leader' = NoNode
    /\ stepDowns' = stepDowns + 1
    /\ UNCHANGED <<order, rec, status, hosts, missNodes, warned, tasks, step,
                   hosted, offlines>>

\* Offline of the replica on `a` to `b`: canOffline must pass and
\* generateOfflineTask must find a leader record; updateInfoToStore then
\* replaces the host (its revert on a failed sync changes nothing).  Raft
\* drops `a` from the group, so a leader on `a` steps down.
Offline(a, b) ==
    /\ offlines < MaxOfflines
    /\ a \in HostSet /\ b \in Addrs \ HostSet
    /\ CanOffline(a)
    /\ HasLeaderRecord
    /\ hosts' = [i \in 1..Len(hosts) |-> IF hosts[i] = a THEN b ELSE hosts[i]]
    /\ leader' = IF leader = a THEN NoNode ELSE leader
    /\ offlines' = offlines + 1
    /\ UNCHANGED <<order, rec, status, missNodes, warned, tasks, step,
                   hosted, stepDowns>>

\* Time passes, but a persistence host holding the partition reports
\* before its record times out.
TimePasses ==
    /\ \A a \in ToSet(order) :
          a \in hosted \cap HostSet => rec[a].age + 1 < TimeOutSec
    /\ rec' = [a \in DOMAIN rec |->
                 [rec[a] EXCEPT !.age = IF @ < AgeCap THEN @ + 1 ELSE @]]
    /\ missNodes' = [a \in DOMAIN missNodes |->
                       IF missNodes[a] < WarnCap THEN missNodes[a] + 1
                       ELSE missNodes[a]]
    /\ UNCHANGED <<order, status, hosts, warned, tasks, step, hosted, leader,
                   offlines,
                   stepDowns>>

-----------------------------------------------------------------------------

\* NewMetaPartition: no replica records, Unavailable; the create tasks
\* generated with it have made every persistence host hold the partition.
Init ==
    /\ order = <<>>
    /\ rec = <<>>
    /\ status = Unavailable
    /\ hosts = InitHosts
    /\ missNodes = <<>>
    /\ warned = {}
    /\ tasks = {}
    /\ step = Steps[1]
    /\ hosted = ToSet(InitHosts)
    /\ leader = NoNode
    /\ offlines = 0
    /\ stepDowns = 0

Reconcile == CheckStatus \/ CheckReplicaMiss \/ GenerateReplicaTask

Environment ==
    \/ \E a \in Addrs : Report(a) \/ Elect(a)
    \/ StepDown
    \/ \E t \in tasks : ExecCreate(t) \/ ExecDelete(t)
    \/ \E a, b \in Addrs : Offline(a, b)
    \/ TimePasses

Next == Reconcile \/ Environment

\* The reconciler runs on a timer; MetaNodes heartbeat, raft elects a
\* leader when it can and MetaNodes execute the tasks they receive.
\* StepDown is not fair: leadership may also stay put.
Fairness ==
    /\ WF_vars(Reconcile)
    /\ \A a \in Addrs : WF_vars(Report(a))
    /\ WF_vars(\E a \in Addrs : Elect(a))
    /\ \A t \in Task : WF_vars(ExecCreate(t)) /\ WF_vars(ExecDelete(t))
    /\ WF_vars(TimePasses)

Spec == Init /\ [][Next]_vars /\ Fairness

-----------------------------------------------------------------------------
(* Properties                                                              *)

\* Spec 8.2: the Master never holds two replica records flagged leader.
\* Records are refreshed only by reports, so a deposed leader that stops
\* reporting keeps its flag while the new leader reports its own.
AtMostOneLeaderRecord == Cardinality(LeaderRecords) <= 1

\* GenerateReplicaTask and the MetaNodes bring the records to exactly the
\* persistence hosts, after an offline too: the excess record is deleted
\* and the new host gets a replica that reports.
Convergence == <>[](ToSet(order) = HostSet)

====
