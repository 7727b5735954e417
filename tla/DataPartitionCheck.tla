------------------------- MODULE DataPartitionCheck -------------------------
(***************************************************************************)
(* The Master's reconciler for one DataPartition                           *)
(* (src/master/data_partition_check.go) together with the part of the      *)
(* cluster it talks to: DataNodes that heartbeat a report for the          *)
(* partition, execute the admin tasks the reconciler emits, crash and      *)
(* restart.                                                                *)
(*                                                                         *)
(* Every reconciler step takes the partition lock for itself only, so a    *)
(* heartbeat report or a task response can land between two steps of the  *)
(* same tick: the tick is a sequence of four atomic actions driven by the  *)
(* program counter `step`.  checkReplicaStatus (lines 40-47) only calls    *)
(* the side-effect-free IsLive and is therefore not a step of its own.     *)
(*                                                                         *)
(* Time is abstracted to ages: the seconds since a replica last reported   *)
(* and since an address was last warned about, capped where the code's     *)
(* comparisons stop telling them apart.                                    *)
(***************************************************************************)
EXTENDS Naturals, FiniteSets, Sequences, SequencesExt

CONSTANTS
    Addrs,            \* DataNode addresses
    PersistenceHosts, \* the Master-decreed hosts of the partition (a sequence)
    ReplicaNum,       \* partition.ReplicaNum
    ReportStatuses,   \* statuses a DataNode may report for its replica
    TimeOutSec,       \* dpTimeOutSec: a replica is live while age < TimeOutSec
    MissSec,          \* dataPartitionMissSec: missed once age > MissSec
    WarnInterval,     \* dataPartitionWarnInterval
    MaxCrashes,       \* bound on DataNode crashes in one behaviour
    Permanent         \* DataNodes whose crash is permanent (decommissioned)

CONSTANTS ReadWrite, ReadOnly, Unavailable  \* proto partition statuses

CONSTANTS OpCreate, OpDelete  \* OpCreateDataPartition, OpDeleteDataPartition

HostSet == ToSet(PersistenceHosts)

ASSUME /\ IsInjective(PersistenceHosts)
       /\ HostSet \subseteq Addrs
       /\ Len(PersistenceHosts) = ReplicaNum
       /\ ReportStatuses \subseteq {ReadWrite, ReadOnly, Unavailable}
       /\ 0 < TimeOutSec /\ TimeOutSec <= MissSec

\* Ages stop growing once every comparison the code makes is decided.
AgeCap  == MissSec + 1
WarnCap == WarnInterval + 1

VARIABLES
    replicas,   \* partition.Replicas: addr -> [status, age]
    status,     \* partition.Status
    isRecover,  \* partition.isRecover
    missNodes,  \* partition.MissNodes: addr -> age of the last warning
    warned,     \* addresses warned about by the latest checkMiss
    tasks,      \* admin tasks emitted and not yet answered
    step,       \* which reconciler step runs next
    hosted,     \* DataNodes that hold the partition on disk
    up,         \* DataNodes that are running
    crashes     \* number of crashes so far

vars == <<replicas, status, isRecover, missNodes, warned, tasks, step,
          hosted, up, crashes>>

Task == [op : {OpCreate, OpDelete}, addr : Addrs]
Steps == <<"checkStatus", "checkMiss", "checkDiskError", "checkReplicationTask">>

TypeOK ==
    /\ DOMAIN replicas \subseteq Addrs
    /\ \A a \in DOMAIN replicas :
          replicas[a] \in [status : {ReadWrite, ReadOnly, Unavailable},
                           age : 0..AgeCap]
    /\ status \in {ReadWrite, ReadOnly, Unavailable}
    /\ isRecover \in BOOLEAN
    /\ DOMAIN missNodes \subseteq HostSet
    /\ \A a \in DOMAIN missNodes : missNodes[a] \in 0..WarnCap
    /\ warned \subseteq Addrs
    /\ tasks \subseteq Task
    /\ step \in ToSet(Steps)
    /\ hosted \subseteq Addrs /\ up \subseteq Addrs
    /\ crashes \in 0..MaxCrashes

-----------------------------------------------------------------------------
(* Helpers                                                                 *)

\* f with key k set to v, whether or not k was in its domain.
Put(f, k, v) == [x \in DOMAIN f \cup {k} |-> IF x = k THEN v ELSE f[x]]

\* f without key k.
Delete(f, k) == [x \in DOMAIN f \ {k} |-> f[x]]

IsInReplicas(a) == a \in DOMAIN replicas

\* Mutant: a replica counted live whenever it has a record.
IsLiveNoTimeout(a) == IsInReplicas(a)

\* DataReplica liveness: reported within dpTimeOutSec.
IsLive(a) == IsInReplicas(a) /\ replicas[a].age < TimeOutSec

\* Mutant: the live replicas counted without the persistence-host filter.
LiveReplicasAnyHost == {a \in DOMAIN replicas : IsLive(a)}

\* getLiveReplicasByPersistenceHosts
LiveReplicasByPersistenceHosts == {a \in HostSet : IsLive(a)}

\* checkReplicaStatusOnLiveNode
ReplicaStatusOnLiveNode(live) == \A a \in live : replicas[a].status = ReadWrite

\* needWarnMissDataPartition: the record of an address never warned, or
\* warned longer ago than the interval, is reset to now ...
RecordWarn(a) == a \notin DOMAIN missNodes \/ missNodes[a] > WarnInterval

\* Mutant: isWarn is never returned true.
NeedWarnNever(a) == FALSE

\* ... and on exactly those branches isWarn is returned true.
NeedWarn(a) == RecordWarn(a)

\* replica.CheckMiss: no report for longer than dataPartitionMissSec.
CheckMiss(a) == replicas[a].age > MissSec

\* Mutant: the first loop of checkMiss without its isInPersistenceHosts test.
MissCandidatesAnyReplica ==
    {a \in DOMAIN replicas : CheckMiss(a)}
    \cup {a \in HostSet : ~IsInReplicas(a)}

\* The addresses checkMiss examines: replicas on a persistence host that
\* missed their reports, and persistence hosts with no replica at all.
MissCandidates ==
    {a \in HostSet : IsInReplicas(a) /\ CheckMiss(a)}
    \cup {a \in HostSet : ~IsInReplicas(a)}

\* Mutant: the scan of PersistenceHosts starts one place too late.
LackAddrsSkipFirst ==
    LET idx == {i \in 2..Len(PersistenceHosts) :
                    ~IsInReplicas(PersistenceHosts[i])}
    IN IF idx = {} THEN {}
       ELSE {PersistenceHosts[CHOOSE i \in idx : \A j \in idx : i <= j]}

\* The first persistence host without a replica (addLackReplication).
LackAddrs ==
    LET idx == {i \in 1..Len(PersistenceHosts) :
                    ~IsInReplicas(PersistenceHosts[i])}
    IN IF idx = {} THEN {}
       ELSE {PersistenceHosts[CHOOSE i \in idx : \A j \in idx : i <= j]}

NextStep == [s \in 1..Len(Steps) |-> Steps[(s % Len(Steps)) + 1]]
Advance(s) == step' = NextStep[CHOOSE i \in 1..Len(Steps) : Steps[i] = s]

-----------------------------------------------------------------------------
(* The reconciler, one action per lock-holding step                       *)

\* checkStatus: ReadWrite only when ReplicaNum replicas on the persistence
\* hosts are live and all of them report ReadWrite.
CheckStatus ==
    /\ step = "checkStatus"
    /\ LET live == LiveReplicasByPersistenceHosts
       IN status' = IF /\ Cardinality(live) = ReplicaNum
                       /\ ReplicaStatusOnLiveNode(live)
                    THEN ReadWrite ELSE ReadOnly
    /\ Advance("checkStatus")
    /\ UNCHANGED <<replicas, isRecover, missNodes, warned, tasks, hosted, up,
                   crashes>>

\* checkMiss with needWarnMissDataPartition: every examined address that
\* is due for a warning is warned and its warning time reset.
CheckMissStep ==
    /\ step = "checkMiss"
    /\ LET due == {a \in MissCandidates : RecordWarn(a)}
       IN /\ warned' = {a \in MissCandidates : NeedWarn(a)}
          /\ missNodes' = [a \in DOMAIN missNodes \cup due |->
                              IF a \in due THEN 0 ELSE missNodes[a]]
    /\ Advance("checkMiss")
    /\ UNCHANGED <<replicas, status, isRecover, tasks, hosted, up, crashes>>

\* checkDiskError: some but not all persistence-host replicas Unavailable
\* drops the partition to ReadOnly.
CheckDiskError ==
    /\ step = "checkDiskError"
    /\ LET diskErrorAddrs == {a \in HostSet : IsInReplicas(a)
                                  /\ replicas[a].status = Unavailable}
       IN status' = IF Cardinality(diskErrorAddrs) # ReplicaNum
                       /\ Cardinality(diskErrorAddrs) > 0
                    THEN ReadOnly ELSE status
    /\ Advance("checkDiskError")
    /\ UNCHANGED <<replicas, isRecover, missNodes, warned, tasks, hosted, up,
                   crashes>>

\* deleteExcessReplication: a delete task for the first replica that is not
\* on a persistence host (the order of partition.Replicas is insertion
\* order, so any excess replica may be the first).
ExcessTasks ==
    LET excess == {a \in DOMAIN replicas : a \notin HostSet}
    IN IF excess = {} THEN {{}}
       ELSE {{[op |-> OpDelete, addr |-> a]} : a \in excess}

\* checkReplicationTask: excess first; stop if ReadWrite; otherwise a create
\* task for the first lacking host and isRecover, or setToNormal.
CheckReplicationTask ==
    /\ step = "checkReplicationTask"
    /\ \E excessTask \in ExcessTasks :
          IF status = ReadWrite
          THEN /\ tasks' = tasks \cup excessTask
               /\ UNCHANGED isRecover
          ELSE IF LackAddrs # {}
               THEN /\ tasks' = tasks \cup excessTask
                                \cup {[op |-> OpCreate, addr |-> a] : a \in LackAddrs}
                    /\ isRecover' = TRUE
               ELSE /\ tasks' = tasks \cup excessTask
                    /\ isRecover' = FALSE
    /\ Advance("checkReplicationTask")
    /\ UNCHANGED <<replicas, status, missNodes, warned, hosted, up, crashes>>

-----------------------------------------------------------------------------
(* The DataNodes and the Master's heartbeat/response handlers             *)

\* A running DataNode holding the partition reports it; reports from hosts
\* outside PersistenceHosts are ignored.
Report(a) ==
    /\ a \in up /\ a \in hosted /\ a \in HostSet
    /\ \E s \in ReportStatuses :
          replicas' = Put(replicas, a, [status |-> s, age |-> 0])
    /\ UNCHANGED <<status, isRecover, missNodes, warned, tasks, step, hosted,
                   up, crashes>>

\* A DataNode executes OpCreateDataPartition (idempotent).
ExecCreate(t) ==
    /\ t \in tasks /\ t.op = OpCreate /\ t.addr \in up
    /\ hosted' = hosted \cup {t.addr}
    /\ tasks' = tasks \ {t}
    /\ UNCHANGED <<replicas, status, isRecover, missNodes, warned, step, up,
                   crashes>>

\* A DataNode executes OpDeleteDataPartition; on the response the Master
\* drops the replica record.
ExecDelete(t) ==
    /\ t \in tasks /\ t.op = OpDelete /\ t.addr \in up
    /\ hosted' = hosted \ {t.addr}
    /\ replicas' = Delete(replicas, t.addr)
    /\ tasks' = tasks \ {t}
    /\ UNCHANGED <<status, isRecover, missNodes, warned, step, up, crashes>>

\* A task to a stopped DataNode fails; the next tick re-emits it.
LoseTask(t) ==
    /\ t \in tasks /\ t.addr \notin up
    /\ tasks' = tasks \ {t}
    /\ UNCHANGED <<replicas, status, isRecover, missNodes, warned, step,
                   hosted, up, crashes>>

Crash(a) ==
    /\ a \in up /\ crashes < MaxCrashes
    /\ up' = up \ {a}
    /\ crashes' = crashes + 1
    /\ UNCHANGED <<replicas, status, isRecover, missNodes, warned, tasks, step,
                   hosted>>

Restart(a) ==
    /\ a \notin up /\ a \notin Permanent
    /\ up' = up \cup {a}
    /\ UNCHANGED <<replicas, status, isRecover, missNodes, warned, tasks, step,
                   hosted, crashes>>

\* A second passes.  Running DataNodes heartbeat more often than
\* dpTimeOutSec, so time cannot pass beyond the timeout of a running host.
TimePasses ==
    /\ \A a \in DOMAIN replicas :
          a \in up /\ a \in hosted => replicas[a].age + 1 < TimeOutSec
    /\ replicas' = [a \in DOMAIN replicas |->
                      [replicas[a] EXCEPT !.age = IF @ < AgeCap THEN @ + 1 ELSE @]]
    /\ missNodes' = [a \in DOMAIN missNodes |->
                      IF missNodes[a] < WarnCap THEN missNodes[a] + 1 ELSE missNodes[a]]
    /\ UNCHANGED <<status, isRecover, warned, tasks, step, hosted, up, crashes>>

-----------------------------------------------------------------------------

\* A partition the Master already knows: every node that holds it has
\* reported it ReadWrite (records of non-hosts survive a migration), status
\* ReadOnly until the first tick, no task outstanding.
Init ==
    /\ hosted \in SUBSET Addrs
    /\ replicas = [a \in hosted |-> [status |-> ReadWrite, age |-> 0]]
    /\ status = ReadOnly
    /\ isRecover = FALSE
    /\ missNodes = <<>>
    /\ warned = {}
    /\ tasks = {}
    /\ step = "checkStatus"
    /\ up = Addrs
    /\ crashes = 0

Reconcile ==
    \/ CheckStatus
    \/ CheckMissStep
    \/ CheckDiskError
    \/ CheckReplicationTask

Environment ==
    \/ \E a \in Addrs : Report(a) \/ Crash(a) \/ Restart(a)
    \/ \E t \in tasks : ExecCreate(t) \/ ExecDelete(t) \/ LoseTask(t)
    \/ TimePasses

Next == Reconcile \/ Environment

\* The reconciler runs on a ticker, DataNodes heartbeat on a ticker and
\* answer the tasks they receive, and a stopped DataNode is restarted.
Fairness ==
    /\ WF_vars(Reconcile)
    /\ \A a \in Addrs : WF_vars(Report(a)) /\ WF_vars(Restart(a))
    /\ \A t \in Task : WF_vars(ExecCreate(t)) /\ WF_vars(ExecDelete(t))
    /\ WF_vars(TimePasses)

Spec == Init /\ [][Next]_vars /\ Fairness

-----------------------------------------------------------------------------
(* Properties                                                              *)

\* A replica's liveness is judged from its last report (IsLive, with
\* dpTimeOutSec), so a DataNode that reported just before it crashed still
\* counts as live for a while after.  Once a persistence host is down for
\* good, checkStatus must stop advertising the partition ReadWrite for
\* good: the stale report has to time out.
DownHostDemotes ==
    \A a \in HostSet : <>[](a \notin up) => <>[](status # ReadWrite)

\* Excess and lack reconciliation converge: the excess replicas are deleted
\* and every persistence host whose DataNode is up from some point on gets
\* a replica, and the partition keeps exactly that.
Convergence ==
    <>[](/\ DOMAIN replicas \subseteq HostSet
         /\ \A a \in HostSet : a \in up => a \in DOMAIN replicas)

\* checkMiss warns about a persistence host with no replica or one that has
\* stopped reporting, again every WarnInterval (needWarnMissDataPartition
\* debounces, it never silences): a host missed from some point on is
\* warned about again and again.
MissedHostWarned ==
    \A a \in HostSet :
        <>[](a \in MissCandidates) => []<>(a \in warned)

=============================================================================
