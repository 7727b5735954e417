----------------------------- MODULE StreamKey -----------------------------
(***************************************************************************)
(* The extent list of an inode (proto.StreamKey) and its merge rule.       *)
(* An ExtentKey is abstracted to the three fields the merge reads: the     *)
(* data partition, the extent id and the size; offset and crc are carried *)
(* by the key but never compared.                                          *)
(***************************************************************************)
EXTENDS Naturals, Sequences, SequencesExt, FiniteSets

\* Two keys name the same extent when partition and extent id agree.
SameExtent(a, b) == a.pid = b.pid /\ a.eid = b.eid

\* The index Put updates: the last key when it names k's extent (the fast
\* path), else the first key that does, else 0 (k is appended).
PutIndex(ks, k) ==
    IF ks # <<>> /\ SameExtent(ks[Len(ks)], k) THEN Len(ks)
    ELSE LET at == {i \in DOMAIN ks : SameExtent(ks[i], k)}
         IN IF at = {} THEN 0 ELSE CHOOSE i \in at : \A j \in at : i <= j

\* A Put that only looks at the last key, as if keys of one extent always
\* arrived back to back.
PutLastOnly(ks, k) ==
    IF ks # <<>> /\ SameExtent(ks[Len(ks)], k)
    THEN IF k.size > ks[Len(ks)].size
         THEN [ks EXCEPT ![Len(ks)].size = k.size] ELSE ks
    ELSE Append(ks, k)

\* A Put that overwrites the size of a known extent.
PutOverwrite(ks, k) ==
    LET i == PutIndex(ks, k)
    IN IF i = 0 THEN Append(ks, k) ELSE [ks EXCEPT ![i].size = k.size]

\* StreamKey.Put: a key of a known extent only ever grows that extent's
\* size; a key of a new extent is appended.
Put(ks, k) ==
    LET i == PutIndex(ks, k)
    IN IF i = 0 THEN Append(ks, k)
       ELSE IF k.size > ks[i].size THEN [ks EXCEPT ![i].size = k.size]
       ELSE ks

\* StreamKey.Size: the sum of the key sizes.
KeysSize(ks) == FoldSeq(LAMBDA k, acc : k.size + acc, 0, ks)

\* The extents a key list names, as <<partition, extent>> pairs.
ExtentsOf(ks) == {<<k.pid, k.eid>> : k \in ToSet(ks)}

\* The reference meaning of a key list: each extent it names, with the
\* largest size any of its keys gives it.
KeyMap(ks) ==
    [e \in ExtentsOf(ks) |->
        LET sizes == {k.size : k \in {x \in ToSet(ks) : <<x.pid, x.eid>> = e}}
        IN CHOOSE s \in sizes : \A t \in sizes : t <= s]

=============================================================================
