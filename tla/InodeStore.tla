----------------------------- MODULE InodeStore -----------------------------
(***************************************************************************)
(* The inode tree of one meta partition on a MetaNode, as raft applies    *)
(* the mutations the handlers of partition_op_inode.go propose:            *)
(* CreateInode, DeleteInode and ExtentsAdd (Inode.AppendExtents, which is  *)
(* StreamKey.Put followed by the size refresh).  Clients send ExtentsAdd  *)
(* concurrently and retry them, so keys of one extent arrive in any order *)
(* and more than once.  A MetaNode restart rebuilds every inode from its  *)
(* marshalled form (Inode.Marshal/MarshalValue, then Unmarshal).          *)
(* The partition is driven by StreamWriter, which composes it with the  *)
(* client writer; there it is shown to implement InodeMap.               *)
(***************************************************************************)
EXTENDS Naturals, Sequences, FiniteSets, StreamKey

CONSTANTS
    Start, End,     \* the partition's inode id range
    Keys            \* extent keys clients send: [pid, eid, size]

VARIABLES
    inodes,     \* inode id -> [size, extents]
    cursor,     \* the highest inode id handed out (MaxNodeID)
    freed       \* extent keys returned by DeleteInode responses

storeVars == <<inodes, cursor, freed>>

IDs == Start..End

InodeRec == [size : Nat, extents : Seq(Keys)]

StoreTypeOK ==
    /\ DOMAIN inodes \subseteq IDs
    /\ \A i \in DOMAIN inodes : inodes[i] \in InodeRec
    /\ cursor \in Start - 1..End
    /\ freed \subseteq Keys

\* NewInode: generation 1 and an empty StreamKey.
NewInode == [size |-> 0, extents |-> <<>>]

\* Inode.AppendExtents: Put the key, then refresh Size from the keys.
AppendExtents(ino, k) ==
    LET ks == Put(ino.extents, k) IN [size |-> KeysSize(ks), extents |-> ks]

\* MarshalValue writes the extents only when Extents.Size() is not zero;
\* UnmarshalValue reads them back when bytes remain.  The round trip,
\* by what it keeps of an inode.
MarshalValue(ino) ==
    [size |-> ino.size,
     ext  |-> IF KeysSize(ino.extents) # 0 THEN ino.extents ELSE <<>>]
UnmarshalValue(v) == [size |-> v.size, extents |-> v.ext]

-----------------------------------------------------------------------------

\* A CreateInode that hands out an id past End.
CreateInodeNoFullCheck ==
    /\ cursor' = cursor + 1
    /\ inodes' = [x \in DOMAIN inodes \cup {cursor + 1} |->
                    IF x = cursor + 1 THEN NewInode ELSE inodes[x]]
    /\ UNCHANGED freed

\* CreateInode: nextInodeID fails with OpInodeFullErr at End; a Put that
\* fails (OpAgain) or a Marshal error returns before the apply, which is
\* what records the id (spec 4.3).  All three change nothing, a stuttering
\* step; otherwise the new inode is applied.
CreateInode ==
    /\ cursor < End
    /\ cursor' = cursor + 1
    /\ inodes' = [x \in DOMAIN inodes \cup {cursor + 1} |->
                    IF x = cursor + 1 THEN NewInode ELSE inodes[x]]
    /\ UNCHANGED freed

\* DeleteInode: the inode is removed and the response carries its
\* extents, which the client frees.  An unknown inode is not OpOk.
DeleteInode(i) ==
    /\ i \in DOMAIN inodes
    /\ freed' = freed \cup ToSet(inodes[i].extents)
    /\ inodes' = [x \in DOMAIN inodes \ {i} |-> inodes[x]]
    /\ UNCHANGED cursor

\* ExtentsAdd applied to inode i; an unknown inode answers ENOENT and
\* changes nothing.
ExtentsAdd(i, k) ==
    /\ i \in DOMAIN inodes
    /\ inodes' = [inodes EXCEPT ![i] = AppendExtents(@, k)]
    /\ UNCHANGED <<cursor, freed>>

\* The MetaNode restarts and loads every inode from its marshalled form.
Restart ==
    /\ inodes' = [i \in DOMAIN inodes |-> UnmarshalValue(MarshalValue(inodes[i]))]
    /\ UNCHANGED <<cursor, freed>>

-----------------------------------------------------------------------------
(* Properties                                                              *)

\* The file size InodeGet reports (Inode.Size, refreshed by AppendExtents
\* and carried through the marshal round trip) is the sum, over the
\* extents the inode names, of the largest size recorded for each: the
\* keys of one extent that concurrent ExtentsAdd calls deliver out of
\* order or twice are counted once.
SizeMatchesContent ==
    \A i \in DOMAIN inodes :
        inodes[i].size = SumFunction(KeyMap(inodes[i].extents))

\* The refinement: applying keys through StreamKey.Put, deleting and
\* restarting from the marshalled inodes implements InodeMap, where each
\* extent holds the largest size ever recorded for it.
Abstract == INSTANCE InodeMap WITH
    Extents <- {<<k.pid, k.eid>> : k \in Keys},
    Sizes <- {k.size : k \in Keys},
    content <- [i \in DOMAIN inodes |-> KeyMap(inodes[i].extents)],
    freed <- {<<<<k.pid, k.eid>>, k.size>> : k \in freed}

ImplementsInodeMap == Abstract!Spec

=============================================================================
