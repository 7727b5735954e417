---------------------------- MODULE MetaManager ----------------------------
(***************************************************************************)
(* The partition manager of one MetaNode (metanode/manager.go).            *)
(*                                                                         *)
(* Start moves the state Standby -> Start by compare-and-swap and scans    *)
(* rootDir: loadPartitions starts one goroutine per directory named        *)
(* partition_*, and every goroutine assigns the one `err` of               *)
(* loadPartitions (line 185 and line 200) without synchronisation; Start   *)
(* waits for all of them and stores Running when that err is nil, Standby  *)
(* otherwise.  Stop moves Running -> Shutdown, stops every mapped          *)
(* partition and stores Stopped.  Meanwhile handler goroutines of the      *)
(* server run createPartition (check, StoreMeta, attach) and               *)
(* deletePartition, and the process may crash, keeping only rootDir.       *)
(*                                                                         *)
(* A directory is a partition id (a valid name) or a model value of        *)
(* UnparsedDirs (a name whose id does not parse).  The loader's            *)
(* len < 10 test never holds for a name with the 10-character prefix.      *)
(* The partition actor (MetaPartition, not in this repository) is         *)
(* modelled from spec 4.3 and 5: its Start may fail, and its Stop calls   *)
(* the after_stop hook, which detaches it.  A data race on `err` leaves    *)
(* the last write.  Each handler goroutine serves one request.             *)
(***************************************************************************)
EXTENDS Naturals, FiniteSets

CONSTANTS
    IDs,            \* partition ids
    UnparsedDirs,   \* partition_* names whose id does not parse
    InitDisk,       \* directories under rootDir at the first Start
    Handlers,       \* server goroutines running createPartition
    MaxStartFails,  \* partition Starts that fail
    MaxStarts,      \* calls of Start
    MaxCrashes      \* MetaNode process crashes

VARIABLES
    state,      \* m.state
    err,        \* the err of loadPartitions: "nil", "parse" or "start"
    scan,       \* loader goroutine of each scanned directory -> its pc
    failed,     \* ids whose partition failed to start in this scan
    partitions, \* ids in m.partitions
    running,    \* id -> partition actors of that id that are running
    disk,       \* directories under rootDir
    handler,    \* handler goroutine -> [pc, id]
    fails,      \* partition Starts that failed so far
    starts,     \* calls of Start so far
    crashes

vars == <<state, err, scan, failed, partitions, running, disk, handler,
          fails, starts, crashes>>

States == {"Standby", "Start", "Running", "Shutdown", "Stopped"}

TypeOK ==
    /\ state \in States
    /\ err \in {"nil", "parse", "start"}
    /\ DOMAIN scan \subseteq IDs \cup UnparsedDirs
    /\ \A d \in DOMAIN scan : scan[d] \in {"parse", "attach", "done"}
    /\ failed \subseteq IDs /\ partitions \subseteq IDs
    /\ running \in [IDs -> Nat] /\ starts \in 0..MaxStarts
    /\ disk \subseteq IDs \cup UnparsedDirs
    /\ handler \in [Handlers -> [pc : {"idle", "check", "store", "attach",
                                       "done"}, id : IDs]]

-----------------------------------------------------------------------------
(* Start and loadPartitions                                                *)

\* Start: the compare-and-swap from Standby; onStart scans rootDir and
\* starts a loader goroutine for every directory found (wg.Add).
StartBegin ==
    /\ state = "Standby" /\ starts < MaxStarts
    /\ starts' = starts + 1
    /\ state' = "Start"
    /\ err' = "nil"
    /\ scan' = [d \in disk |-> "parse"]
    /\ failed' = {}
    /\ UNCHANGED <<partitions, running, disk, handler, fails, crashes>>

\* A loader goroutine parses the id of the name into the shared err,
\* which a parse error leaves set (the short-name test before it cannot
\* hold for a name that passed the prefix test).
LoadParse(d) ==
    /\ state = "Start" /\ scan[d] = "parse"
    /\ \/ /\ d \in UnparsedDirs
          /\ err' = "parse"
          /\ scan' = [scan EXCEPT ![d] = "done"]
       \/ /\ d \in IDs
          /\ err' = "nil"
          /\ scan' = [scan EXCEPT ![d] = "attach"]
    /\ UNCHANGED <<state, failed, partitions, running, disk, handler, fails,
                   starts, crashes>>

\* attachPartition after a successful partition Start: the id is mapped
\* under m.mu, replacing whatever it was mapped to.
AttachPartition(i) ==
    /\ running' = [running EXCEPT ![i] = @ + 1]
    /\ partitions' = partitions \cup {i}

\* The loader attaches the partition; the result of attachPartition is
\* written to the shared err.
LoadAttach(d) ==
    /\ state = "Start" /\ scan[d] = "attach"
    /\ scan' = [scan EXCEPT ![d] = "done"]
    /\ \/ /\ AttachPartition(d)
          /\ err' = "nil"
          /\ UNCHANGED <<failed, fails>>
       \/ /\ fails < MaxStartFails
          /\ fails' = fails + 1
          /\ failed' = failed \cup {d}
          /\ err' = "start"
          /\ UNCHANGED <<running, partitions>>
    /\ UNCHANGED <<state, disk, handler, starts, crashes>>

\* wg.Wait returns; the deferred store sets Running or Standby from err.
StartEnd ==
    /\ state = "Start"
    /\ \A d \in DOMAIN scan : scan[d] = "done"
    /\ state' = IF err = "nil" THEN "Running" ELSE "Standby"
    /\ UNCHANGED <<err, scan, failed, partitions, running, disk, handler,
                   fails, starts, crashes>>

-----------------------------------------------------------------------------
(* Stop                                                                    *)

StopBegin ==
    /\ state = "Running"
    /\ state' = "Shutdown"
    /\ UNCHANGED <<err, scan, failed, partitions, running, disk, handler,
                   fails, starts, crashes>>

\* onStop stops every mapped partition, whose after_stop hook detaches
\* it; the deferred store sets Stopped.
StopEnd ==
    /\ state = "Shutdown"
    /\ running' = [i \in IDs |-> IF i \in partitions THEN running[i] - 1
                                 ELSE running[i]]
    /\ partitions' = {}
    /\ state' = "Stopped"
    /\ UNCHANGED <<err, scan, failed, disk, handler, fails, starts, crashes>>

-----------------------------------------------------------------------------
(* createPartition and deletePartition, from handler goroutines            *)

\* An OpCreateMetaPartition task for partition i reaches a handler.
CreateRequest(h, i) ==
    /\ handler[h].pc = "idle"
    /\ handler' = [handler EXCEPT ![h] = [pc |-> "check", id |-> i]]
    /\ UNCHANGED <<state, err, scan, failed, partitions, running, disk, fails,
                   starts, crashes>>

\* getPartition under the read lock: an existing id is refused.
CreateCheck(h) ==
    /\ handler[h].pc = "check"
    /\ handler' = [handler EXCEPT ![h].pc =
                     IF handler[h].id \in partitions THEN "done" ELSE "store"]
    /\ UNCHANGED <<state, err, scan, failed, partitions, running, disk, fails,
                   starts, crashes>>

\* StoreMeta writes partition_<id> under rootDir.
CreateStore(h) ==
    /\ handler[h].pc = "store"
    /\ disk' = disk \cup {handler[h].id}
    /\ handler' = [handler EXCEPT ![h].pc = "attach"]
    /\ UNCHANGED <<state, err, scan, failed, partitions, running, fails,
                   starts, crashes>>

\* attachPartition from createPartition; a failed Start maps nothing.
CreateAttach(h) ==
    /\ handler[h].pc = "attach"
    /\ handler' = [handler EXCEPT ![h].pc = "done"]
    /\ LET i == handler[h].id IN
       \/ /\ AttachPartition(i)
          /\ UNCHANGED fails
       \/ /\ fails < MaxStartFails /\ fails' = fails + 1
          /\ UNCHANGED <<running, partitions>>
    /\ UNCHANGED <<state, err, scan, failed, disk, starts, crashes>>

\* deletePartition only detaches the id from the map.
DeletePartition(i) ==
    /\ i \in partitions
    /\ partitions' = partitions \ {i}
    /\ UNCHANGED <<state, err, scan, failed, running, disk, handler, fails,
                   starts, crashes>>

\* The MetaNode process dies: everything but rootDir is lost.
Crash ==
    /\ crashes < MaxCrashes
    /\ crashes' = crashes + 1
    /\ state' = "Standby" /\ err' = "nil" /\ scan' = <<>> /\ failed' = {}
    /\ partitions' = {} /\ running' = [i \in IDs |-> 0]
    /\ handler' = [h \in Handlers |-> [pc |-> "idle", id |-> handler[h].id]]
    /\ UNCHANGED <<disk, fails, starts>>

Init ==
    /\ state = "Standby" /\ err = "nil" /\ scan = <<>> /\ failed = {}
    /\ partitions = {} /\ running = [i \in IDs |-> 0]
    /\ disk = InitDisk
    /\ handler = [h \in Handlers |-> [pc |-> "idle", id |-> CHOOSE i \in IDs : TRUE]]
    /\ fails = 0 /\ starts = 0 /\ crashes = 0

Next ==
    \/ StartBegin \/ StartEnd \/ StopBegin \/ StopEnd \/ Crash
    \/ \E d \in DOMAIN scan : LoadParse(d) \/ LoadAttach(d)
    \/ \E h \in Handlers :
          \/ \E i \in IDs : CreateRequest(h, i)
          \/ CreateCheck(h) \/ CreateStore(h) \/ CreateAttach(h)
    \/ \E i \in IDs : DeletePartition(i)

Spec == Init /\ [][Next]_vars

-----------------------------------------------------------------------------
(* Properties                                                              *)

\* Start reports what loading did (spec 4.3: invalid names are skipped,
\* never fatal): it ends Running exactly when every valid partition
\* directory it scanned was started.  The loader goroutines of
\* loadPartitions all write the one err (lines 185 and 200), so the last
\* writer decides, whatever the others saw.
StartReportsLoad ==
    [][state = "Start" /\ state' # "Start" =>
         (state' = "Running" <=> failed = {})]_vars

====
