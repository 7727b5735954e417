---------------------------- MODULE StreamWriter ----------------------------
(***************************************************************************)
(* The client stream writer of one open inode (stream_writer.go) composed *)
(* with the meta partition that holds the inode (InodeStore): the         *)
(* writer's appendExtentKey callback is an ExtentsAdd on the partition.   *)
(*                                                                         *)
(* The server goroutine handles one request at a time (a write, a flush   *)
(* or the timer's flush), so the writer's steps are sequential; `pc` is   *)
(* its position in write, init, flushCurrExtentWriter and recoverExtent,  *)
(* and `flushFrom`/`recoverFrom` say where a flush or a recovery returns. *)
(* Between two steps that talk to a DataNode or the MetaNode the world    *)
(* moves: packets are acknowledged, data partitions fail, the MetaNode is *)
(* unreachable or restarts, and another client deletes the inode.         *)
(*                                                                         *)
(* Data is counted in units: a write request carries 1 or 2 units, one    *)
(* unit is one packet, and an extent holds ExtentCap units.  The extent   *)
(* writer (not in this repository) is modelled from spec 4.4: it queues a *)
(* packet for every unit it accepts, the DataNode acknowledges queued     *)
(* packets while its partition is up, flush waits for the                 *)
(* acknowledgements, and toKey gives the acknowledged size.               *)
(***************************************************************************)
EXTENDS Naturals, FiniteSets, TLC, InodeStore

CONSTANTS
    DPs,                            \* writable data partitions
    ExtentCap,                      \* units an extent holds
    MaxWrite,                       \* units the user writes in a behaviour
    MaxSelectDataPartionForWrite,   \* the retry bound (32 in the code)
    MaxStreamInitRetry,             \* init retries of one write (3)
    MaxExtents,                     \* extents created in a behaviour
    MaxDPFailures,                  \* data partitions that fail
    MaxMetaOutages,                 \* periods the MetaNode is unreachable
    WriteSizes,                     \* units a write request may carry
    NoWriter

VARIABLES
    pc,             \* position of the server goroutine
    flushFrom,      \* caller of the running flush: user, tick or init
    recoverFrom,    \* caller of the running recovery: write or flush
    req,            \* the write request: [size, total, initRetry]
    cur,            \* currentWriter: [dp, eid, acked, pending] or NoWriter
    newW,           \* the writer recoverExtent is building
    retry,          \* units recoverExtent resends
    iter,           \* iteration of recoverExtent's allocation loop
    excluded,       \* excludePartition
    errCount,       \* errCount, capped at MaxSelectDataPartionForWrite
    hasUpdateKey,   \* <<dp, extent>> -> size last sent to the MetaNode
    nextEid,        \* extents created so far (extent ids)
    written,        \* units write requests reported written
    queued,         \* units of write requests the extent writers accepted
    synced,         \* `queued` when a user flush last returned success
    up,             \* data partitions that are up
    dpFails,        \* data partition failures so far
    metaUp,         \* the MetaNode answers
    outages,        \* MetaNode outages so far
    sent            \* keys appendExtentKey has sent; a retried request
                    \* may be applied again later

writerVars == <<pc, flushFrom, recoverFrom, req, cur, newW, retry, iter,
                excluded, errCount, hasUpdateKey, nextEid, written, synced,
                queued>>
envVars == <<up, dpFails, metaUp, outages, sent>>
vars == <<writerVars, envVars, storeVars>>

Ino == Start
MaxSelect == MaxSelectDataPartionForWrite
Writer == [dp : DPs, eid : 1..MaxExtents, acked : 0..ExtentCap,
           pending : 0..ExtentCap]
Full(w) == w.acked + w.pending = ExtentCap
Key(w) == [pid |-> w.dp, eid |-> w.eid, size |-> w.acked]

TypeOK ==
    /\ StoreTypeOK
    /\ pc \in {"idle", "write", "flush", "flushMeta", "recover",
               "recoverMeta", "recoverAlloc", "recoverWrite"}
    /\ flushFrom \in {"user", "tick", "init"}
    /\ recoverFrom \in {"write", "flush"}
    /\ req \in [size : WriteSizes, total : 0..2, initRetry : 0..MaxStreamInitRetry]
    /\ cur \in Writer \cup {NoWriter} /\ newW \in Writer \cup {NoWriter}
    /\ retry \in 0..ExtentCap /\ iter \in 0..MaxSelect
    /\ excluded \subseteq DPs /\ errCount \in 0..MaxSelect
    /\ DOMAIN hasUpdateKey \subseteq DPs \X (1..MaxExtents)
    /\ nextEid \in 0..MaxExtents
    /\ written \in 0..MaxWrite
    /\ queued \in 0..MaxExtents * ExtentCap /\ synced \in 0..queued
    /\ up \subseteq DPs /\ metaUp \in BOOLEAN /\ sent \subseteq Keys

-----------------------------------------------------------------------------
(* Calls to the MetaNode and returns                                       *)

\* updateToMetaNode for writer w, with its outcome res: nothing to send
\* when the key was sent at this size or is empty; otherwise
\* appendExtentKey fails on an unreachable MetaNode (every retry),
\* answers ENOENT for a deleted inode, or is applied as ExtentsAdd.
UpdateToMetaNode(w, res) ==
    LET e == <<w.dp, w.eid>>
        done == e \in DOMAIN hasUpdateKey /\ hasUpdateKey[e] = w.acked
    IN \/ /\ done \/ w.acked = 0
          /\ res = "ok"
          /\ UNCHANGED <<storeVars, hasUpdateKey>>
       \/ /\ ~done /\ w.acked # 0 /\ ~metaUp
          /\ res = "fail"
          /\ UNCHANGED <<storeVars, hasUpdateKey>>
       \/ /\ ~done /\ w.acked # 0 /\ metaUp /\ Ino \notin DOMAIN inodes
          /\ res = "enoent"
          /\ UNCHANGED <<storeVars, hasUpdateKey>>
       \/ /\ ~done /\ w.acked # 0 /\ metaUp
          /\ ExtentsAdd(Ino, Key(w))
          /\ hasUpdateKey' = (e :> w.acked) @@ hasUpdateKey
          /\ res = "ok"
    /\ sent' = IF w.acked # 0 /\ metaUp THEN sent \cup {Key(w)} ELSE sent

\* write returns total units written to the user.
WriteReturn ==
    /\ pc' = "idle"
    /\ written' = written + req.total
    /\ UNCHANGED <<req, synced, queued>>

\* An init failure that retries without counting the retry.
InitFailedNoCount ==
    /\ pc' = "write"
    /\ UNCHANGED <<req, written, synced, queued>>

\* init failed: write retries it up to MaxStreamInitRetry times.
InitFailed ==
    \/ /\ req.initRetry + 1 > MaxStreamInitRetry
       /\ WriteReturn
    \/ /\ req.initRetry + 1 <= MaxStreamInitRetry
       /\ req' = [req EXCEPT !.initRetry = @ + 1]
       /\ pc' = "write"
       /\ UNCHANGED <<written, synced, queued>>

\* flushCurrExtentWriter returns r to its caller.
FlushReturn(r) ==
    \/ /\ flushFrom = "user"
       /\ pc' = "idle"
       /\ synced' = IF r = "ok" THEN queued ELSE synced
       /\ UNCHANGED <<req, written, queued>>
    \/ /\ flushFrom = "tick"
       /\ pc' = "idle"
       /\ UNCHANGED <<req, written, synced, queued>>
    \/ /\ flushFrom = "init" /\ r = "ok"
       /\ pc' = "write"
       /\ UNCHANGED <<req, written, synced, queued>>
    \/ /\ flushFrom = "init" /\ r # "ok"
       /\ InitFailed

\* The deferred tail of flushCurrExtentWriter.  Line 216 tests a `status`
\* that is never assigned, so ENOENT counts as a failure like any other.
FlushDone(r) ==
    \/ /\ r = "ok"
       /\ errCount' = 0
       /\ FlushReturn("ok")
       /\ UNCHANGED recoverFrom
    \/ /\ r # "ok"
       /\ errCount' = IF errCount < MaxSelect THEN errCount + 1 ELSE errCount
       /\ \/ /\ errCount + 1 < MaxSelect
             /\ pc' = "recover"
             /\ recoverFrom' = "flush"
             /\ UNCHANGED <<req, written, synced, queued>>
          \/ /\ errCount + 1 >= MaxSelect
             /\ FlushReturn(r)
             /\ UNCHANGED recoverFrom

\* recoverExtent returns r: write then counts the rest of the request as
\* written (lines 191-192); flush flushes the new writer.
RecoverReturn(r) ==
    \/ /\ recoverFrom = "write" /\ r = "ok"
       /\ req' = [req EXCEPT !.total = req.size]
       /\ pc' = "write"
       /\ UNCHANGED <<written, synced, queued>>
    \/ /\ recoverFrom = "write" /\ r # "ok"
       /\ WriteReturn
    \/ /\ recoverFrom = "flush" /\ r = "ok"
       /\ pc' = "flush"
       /\ UNCHANGED <<req, written, synced, queued>>
    \/ /\ recoverFrom = "flush" /\ r # "ok"
       /\ FlushReturn(r)

\* The data partitions allocateNewExtentWriter may choose.
Usable == IF nextEid < MaxExtents THEN up \ excluded ELSE {}

NewWriter(d) == [dp |-> d, eid |-> nextEid + 1, acked |-> 0, pending |-> 0]

-----------------------------------------------------------------------------
(* The server goroutine                                                    *)

\* A write request of n units reaches server().
WriteRequest(n) ==
    /\ pc = "idle" /\ written + n <= MaxWrite
    /\ req' = [size |-> n, total |-> 0, initRetry |-> 0]
    /\ pc' = "write"
    /\ UNCHANGED <<flushFrom, recoverFrom, cur, newW, retry, iter, excluded,
                   errCount, hasUpdateKey, nextEid, written, synced,
                   queued, envVars, storeVars>>

\* A flush request reaches server().
FlushRequest ==
    /\ pc = "idle"
    /\ pc' = "flush" /\ flushFrom' = "user"
    /\ UNCHANGED <<recoverFrom, req, cur, newW, retry, iter, excluded,
                   errCount, hasUpdateKey, nextEid, written, synced,
                   queued, envVars, storeVars>>

\* The 2 s ticker flushes a current writer.
Tick ==
    /\ pc = "idle" /\ cur # NoWriter
    /\ pc' = "flush" /\ flushFrom' = "tick"
    /\ UNCHANGED <<recoverFrom, req, cur, newW, retry, iter, excluded,
                   errCount, hasUpdateKey, nextEid, written, synced,
                   queued, envVars, storeVars>>

\* The units writer.write queues of the request: what the extent has room
\* for.  It queues them before sending, so they are resent when the send
\* fails.
Room(w) ==
    IF ExtentCap - w.acked - w.pending < req.size - req.total
    THEN ExtentCap - w.acked - w.pending ELSE req.size - req.total

\* One turn of write's loop: return when the request is done; otherwise
\* init (flush a full writer, or allocate one when there is none) and
\* write to the current writer, recovering the extent on an error.
WriteStep ==
    /\ pc = "write"
    /\ \/ /\ req.total >= req.size
          /\ WriteReturn
          /\ UNCHANGED <<flushFrom, recoverFrom, cur, nextEid>>
       \/ /\ req.total < req.size /\ cur # NoWriter /\ Full(cur)
          /\ pc' = "flush" /\ flushFrom' = "init"
          /\ UNCHANGED <<recoverFrom, req, cur, nextEid, written, synced,
                          queued>>
       \/ /\ req.total < req.size /\ cur = NoWriter /\ Usable # {}
          /\ \E d \in Usable : cur' = NewWriter(d)
          /\ nextEid' = nextEid + 1
          /\ UNCHANGED <<pc, flushFrom, recoverFrom, req, written, synced,
                          queued>>
       \/ /\ req.total < req.size /\ cur = NoWriter /\ Usable = {}
          /\ InitFailed
          /\ UNCHANGED <<flushFrom, recoverFrom, cur, nextEid>>
       \/ /\ req.total < req.size /\ cur # NoWriter /\ ~Full(cur)
          /\ cur' = [cur EXCEPT !.pending = @ + Room(cur)]
          /\ \/ /\ cur.dp \in up
                /\ req' = [req EXCEPT !.total = @ + Room(cur)]
                /\ UNCHANGED <<pc, recoverFrom>>
             \/ /\ cur.dp \notin up
                /\ pc' = "recover" /\ recoverFrom' = "write"
                /\ UNCHANGED req
          /\ queued' = queued + Room(cur)
          /\ UNCHANGED <<flushFrom, nextEid, written, synced>>
    /\ UNCHANGED <<newW, retry, iter, excluded, errCount, hasUpdateKey,
                   envVars, storeVars>>

\* flushCurrExtentWriter up to the MetaNode update: no writer is a
\* success; writer.flush waits for the acknowledgements of the queued
\* packets and fails when the data partition is down.
FlushBegin ==
    /\ pc = "flush"
    /\ \/ /\ cur = NoWriter
          /\ FlushDone("ok")
       \/ /\ cur # NoWriter /\ cur.pending > 0 /\ cur.dp \notin up
          /\ FlushDone("fail")
       \/ /\ cur # NoWriter /\ cur.pending = 0
          /\ pc' = "flushMeta"
          /\ UNCHANGED <<recoverFrom, errCount, req, written, synced,
                          queued>>
    /\ UNCHANGED <<flushFrom, cur, newW, retry, iter, excluded, hasUpdateKey,
                   nextEid, envVars, storeVars>>

\* updateToMetaNode; a full extent is closed, its key sent again (a no-op
\* once sent at that size) and the writer dropped.
FlushMeta ==
    /\ pc = "flushMeta"
    /\ \E res \in {"ok", "fail", "enoent"} :
          /\ UpdateToMetaNode(cur, res)
          /\ cur' = IF res = "ok" /\ Full(cur) THEN NoWriter ELSE cur
          /\ FlushDone(res)
    /\ UNCHANGED <<flushFrom, newW, retry, iter, excluded, nextEid, up,
                   dpFails, metaUp, outages>>

\* recoverExtent: exclude the writer's partition, stop it and take its
\* unacknowledged packets.
RecoverBegin ==
    /\ pc = "recover"
    /\ excluded' = excluded \cup {cur.dp}
    /\ retry' = cur.pending
    /\ pc' = "recoverMeta"
    /\ UNCHANGED <<flushFrom, recoverFrom, req, cur, newW, iter, errCount,
                   hasUpdateKey, nextEid, written, synced, queued, envVars,
                   storeVars>>

\* Send what the old writer had acknowledged (the retry loop ends on the
\* first success; its outcome is not used).
RecoverMeta ==
    /\ pc = "recoverMeta"
    /\ \E res \in {"ok", "fail", "enoent"} : UpdateToMetaNode(cur, res)
    /\ pc' = "recoverAlloc" /\ iter' = 0
    /\ UNCHANGED <<flushFrom, recoverFrom, req, cur, newW, retry, excluded,
                   errCount, nextEid, written, synced, queued, up, dpFails,
                   metaUp, outages>>

\* One turn of the allocation loop: a new extent on a partition that is
\* not excluded, or a failed turn.
RecoverAlloc ==
    /\ pc = "recoverAlloc"
    /\ \/ /\ Usable # {}
          /\ \E d \in Usable : newW' = NewWriter(d)
          /\ nextEid' = nextEid + 1
          /\ pc' = "recoverWrite"
          /\ UNCHANGED <<iter, recoverFrom, req, written, synced, queued>>
       \/ /\ Usable = {} /\ iter + 1 < MaxSelect
          /\ iter' = iter + 1
          /\ UNCHANGED <<pc, newW, nextEid, recoverFrom, req, written,
                          synced, queued>>
       \/ /\ Usable = {} /\ iter + 1 >= MaxSelect
          /\ RecoverReturn("fail")
          /\ UNCHANGED <<iter, newW, nextEid, recoverFrom>>
    /\ UNCHANGED <<flushFrom, cur, retry, excluded, errCount, hasUpdateKey,
                   envVars, storeVars>>

\* writeRecoverPackets to the new writer: on success it becomes current
\* and the exclusions are cleared (its key is empty, so the trailing
\* updateToMetaNode sends nothing); on failure its partition is excluded.
RecoverWriteStep(resend) ==
    /\ pc = "recoverWrite"
    /\ \/ /\ retry = 0 \/ newW.dp \in up
          /\ cur' = [newW EXCEPT !.pending = resend]
          /\ excluded' = {}
          /\ RecoverReturn("ok")
          /\ UNCHANGED iter
       \/ /\ retry > 0 /\ newW.dp \notin up
          /\ excluded' = excluded \cup {newW.dp}
          /\ UNCHANGED cur
          /\ \/ /\ iter + 1 < MaxSelect
                /\ iter' = iter + 1 /\ pc' = "recoverAlloc"
                /\ UNCHANGED <<req, written, synced, queued>>
             \/ /\ iter + 1 >= MaxSelect
                /\ RecoverReturn("fail")
                /\ UNCHANGED iter
    /\ newW' = NoWriter
    /\ UNCHANGED <<flushFrom, recoverFrom, retry, errCount, hasUpdateKey,
                   nextEid, envVars, storeVars>>

\* A recovery that drops the packets it should resend.
RecoverWriteNoResend == RecoverWriteStep(0)

RecoverWrite == RecoverWriteStep(retry)

Server ==
    \/ \E n \in WriteSizes : WriteRequest(n)
    \/ FlushRequest \/ Tick \/ WriteStep
    \/ FlushBegin \/ FlushMeta
    \/ RecoverBegin \/ RecoverMeta \/ RecoverAlloc \/ RecoverWrite

-----------------------------------------------------------------------------
(* The environment                                                         *)

\* The DataNode acknowledges a queued packet of the current extent.
Ack ==
    /\ cur # NoWriter /\ cur.dp \in up /\ cur.pending > 0
    /\ cur' = [cur EXCEPT !.acked = @ + 1, !.pending = @ - 1]
    /\ UNCHANGED <<pc, flushFrom, recoverFrom, req, newW, retry, iter,
                   excluded, errCount, hasUpdateKey, nextEid, written, synced,
                   queued, envVars, storeVars>>

DPFail(d) ==
    /\ d \in up /\ dpFails < MaxDPFailures
    /\ up' = up \ {d} /\ dpFails' = dpFails + 1
    /\ UNCHANGED <<writerVars, metaUp, outages, sent, storeVars>>

MetaOutage ==
    /\ metaUp /\ outages < MaxMetaOutages
    /\ metaUp' = FALSE /\ outages' = outages + 1
    /\ UNCHANGED <<writerVars, up, dpFails, sent, storeVars>>

MetaBack ==
    /\ ~metaUp /\ metaUp' = TRUE
    /\ UNCHANGED <<writerVars, up, dpFails, outages, sent, storeVars>>

\* Other clients create and delete inodes; the MetaNode restarts.
Store ==
    /\ \/ CreateInode
       \/ \E i \in DOMAIN inodes : DeleteInode(i)
       \/ Restart
    /\ UNCHANGED <<writerVars, envVars>>

\* A key sent earlier is applied again: sendToMetaPartition retried it on
\* another member after a timeout, and both requests reach raft.
Redeliver(k) ==
    /\ k \in sent
    /\ ExtentsAdd(Ino, k)
    /\ UNCHANGED <<writerVars, envVars>>

Environment ==
    \/ Ack \/ (\E d \in DPs : DPFail(d)) \/ MetaOutage \/ MetaBack \/ Store
    \/ \E k \in sent : Redeliver(k)

Init ==
    /\ pc = "idle" /\ flushFrom = "user" /\ recoverFrom = "write"
    /\ req = [size |-> 1, total |-> 0, initRetry |-> 0]
    /\ cur = NoWriter /\ newW = NoWriter /\ retry = 0 /\ iter = 0
    /\ excluded = {} /\ errCount = 0 /\ hasUpdateKey = <<>>
    /\ nextEid = 0 /\ written = 0 /\ queued = 0 /\ synced = 0
    /\ up = DPs /\ dpFails = 0 /\ metaUp = TRUE /\ outages = 0 /\ sent = {}
    /\ inodes = (Ino :> NewInode) /\ cursor = Ino /\ freed = {}

Next == Server \/ Environment

\* The server goroutine runs whenever it has a step; the DataNode
\* acknowledges packets of a partition that is up; an unreachable
\* MetaNode comes back.
Fairness == WF_vars(Server) /\ WF_vars(Ack) /\ WF_vars(MetaBack)

Spec == Init /\ [][Next]_vars /\ Fairness

-----------------------------------------------------------------------------
(* Properties                                                              *)

\* Durability of a flush: once a flush request has returned success,
\* every unit the writes before it handed to an extent writer is counted
\* in the inode's extent keys at the MetaNode, across extent recovery,
\* full extents, repeated keys and MetaNode restarts (until the inode is
\* deleted).  The claim is about the units the writers accepted, not the
\* count write returns: after a recovery write reports the whole request
\* written (lines 191-192) although the units past the extent's room
\* were never queued, so a two-unit write can report a unit no flush
\* makes durable.
FlushedDurable ==
    Ino \in DOMAIN inodes => synced <= KeysSize(inodes[Ino].extents)

\* Every write or flush the server takes up is answered: the retry loops
\* of write, init, flushCurrExtentWriter and recoverExtent are bounded.
RequestAnswered == pc # "idle" ~> pc = "idle"

====
