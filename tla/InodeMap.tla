------------------------------ MODULE InodeMap ------------------------------
(***************************************************************************)
(* What a meta partition promises about the files it holds: each inode is *)
(* a map from the extents written to it to the largest size recorded for *)
(* each, whatever order and however often the sizes were recorded; a      *)
(* deleted inode hands every extent it held, at that size, to be freed.   *)
(***************************************************************************)
EXTENDS Naturals, FiniteSets

CONSTANTS
    IDs,        \* inode ids of the partition
    Extents,    \* <<partition, extent>> pairs
    Sizes       \* extent sizes

VARIABLES
    content,    \* inode -> (extent -> size)
    freed       \* <<extent, size>> pairs handed back by deletes

vars == <<content, freed>>

\* Any set of empty files.
Init ==
    /\ content \in UNION {[S -> {<<>>}] : S \in SUBSET IDs}
    /\ freed = {}

Create(i) ==
    /\ i \in IDs \ DOMAIN content
    /\ content' = [x \in DOMAIN content \cup {i} |->
                     IF x = i THEN <<>> ELSE content[x]]
    /\ UNCHANGED freed

Delete(i) ==
    /\ i \in DOMAIN content
    /\ freed' = freed \cup {<<e, content[i][e]>> : e \in DOMAIN content[i]}
    /\ content' = [x \in DOMAIN content \ {i} |-> content[x]]

\* Record size s for extent e of inode i: the extent's size becomes the
\* larger of the two.
Record(i, e, s) ==
    /\ i \in DOMAIN content
    /\ content' = [content EXCEPT ![i] =
                     [x \in DOMAIN @ \cup {e} |->
                        IF x # e THEN @[x]
                        ELSE IF x \in DOMAIN @ /\ @[x] >= s THEN @[x] ELSE s]]
    /\ UNCHANGED freed

Next ==
    \/ \E i \in IDs : Create(i) \/ Delete(i)
    \/ \E i \in IDs, e \in Extents, s \in Sizes : Record(i, e, s)

Spec == Init /\ [][Next]_vars

=============================================================================
