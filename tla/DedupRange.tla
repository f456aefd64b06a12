----------------------------- MODULE DedupRange -----------------------------
(***************************************************************************)
(* The lookup of dedup metadata by offset: DedupCore::dedup_range of       *)
(* src/backend/dedup.rs over the keys of src/backend/indexdb.rs, at byte   *)
(* offsets.                                                                *)
(*                                                                         *)
(* IndexDB holds one record per deduplicated range of the image.  LMDB     *)
(* sorts them by their encoded keys: the range's end, then its start, both *)
(* ascending.  dedup_range walks the records from the first whose key is   *)
(* not below that of the one-byte range at the offset, and cuts the        *)
(* request into segments with and without a record.  The records of other  *)
(* images, which have other ids, end the walk and are left out.            *)
(*                                                                         *)
(* An image here is a file or object of the storage backend: a raw image,  *)
(* or a blob that holds the chunks of Nydus images (module NydusRead).     *)
(***************************************************************************)
EXTENDS Integers, Sequences, FiniteSets, SequencesExt

CONSTANTS
    ChunkSize,    \* CHUNK_SIZE
    ImageSize     \* the size of the image; the last chunk may be shorter

ASSUME DedupRangeAssumption == ChunkSize \in Nat \ {0} /\ ImageSize \in Nat \ {0}

NChunks == (ImageSize + ChunkSize - 1) \div ChunkSize

VARIABLES
    records,    \* the records of this image in IndexDB
    query,      \* the last request made of dedup_range
    infos       \* the segments it returned

blob == <<records, query, infos>>

\* DedupInfo with a valid checksum, and the invalid one that fills a gap.
Record(off, len) == [off |-> off, len |-> len, valid |-> TRUE]
Gap(off, len) == [off |-> off, len |-> len, valid |-> FALSE]
End(r) == r.off + r.len

Minimum(a, b) == IF a < b THEN a ELSE b

\* DedupRange::bytes_encode: keys compare by end, then by start.
KeyLess(j, k) == j[1] < k[1] \/ (j[1] = k[1] /\ j[2] < k[2])
Key(r) == <<End(r), r.off>>

\* Mutant: the walk starts one byte too late.
LowerKeyLate(off) == <<off + 2, off>>

\* The key of DedupRange::new_with_id(id, off, 1), where the walk starts.
LowerKey(off) == <<off + 1, off>>

\* The records the walk meets, in LMDB's order.
Walk(off) ==
    CHOOSE w \in SetToSeqs({r \in records : ~KeyLess(Key(r), LowerKey(off))}) :
        \A i, j \in 1 .. Len(w) : i < j => KeyLess(Key(w[i]), Key(w[j]))

\* The loop's state after one record: what is left of the request, what was found.
WalkStep(acc, v) ==
    LET gap == Minimum(v.off - acc.off, acc.len)
        seg == Minimum(End(v) - acc.off, acc.len)
        next == IF v.off > acc.off
                  THEN [acc EXCEPT !.off = @ + gap, !.len = @ - gap,
                                   !.infos = Append(@, <<Gap(acc.off, gap), gap>>)]
                  ELSE [acc EXCEPT !.off = @ + seg, !.len = @ - seg,
                                   !.infos = Append(@, <<v, seg>>)]
    IN  IF acc.done \/ (v.off <= acc.off /\ End(v) <= acc.off)
          THEN acc
          ELSE [next EXCEPT !.done = next.len = 0 \/ v.off >= next.off + next.len]

\* Mutant: what lies behind the last record is dropped.
RestDropped(acc) == <<>>

\* What lies behind the last record has none.
Rest(acc) == IF acc.len = 0 THEN <<>> ELSE << <<Gap(acc.off, acc.len), acc.len>> >>

\* dedup_range: segments <<info, length>> that together are the request.
LookupRange(off, len) ==
    LET last == FoldLeft(WalkStep,
                         [off |-> off, len |-> len, infos |-> <<>>, done |-> len = 0],
                         Walk(off))
    IN  last.infos \o Rest(last)
-----------------------------------------------------------------------------
BlobInit ==
    /\ records = {}
    /\ query = <<0, 0>>
    /\ infos = <<>>

\* What fetching CHUNK_SIZE bytes at off returns: less at the image's end.
ReadSize(off) == Minimum(ChunkSize, ImageSize - off)

(* DedupCore::dedup of chunk i, of which the worker always asks for         *)
(* CHUNK_SIZE bytes.  dedup_check_range wants one segment and does nothing  *)
(* when that has a record; the new record has the size that was read.       *)
DedupChunk(i) ==
    LET off == i * ChunkSize
        found == LookupRange(off, ChunkSize)
    IN
    /\ Len(found) = 1 /\ ~found[1][1].valid
    /\ records' = records \cup {Record(off, ReadSize(off))}
    /\ UNCHANGED <<query, infos>>

\* DedupReader::fetch looks its range up, cut at the image's end.
Fetch(off, len) ==
    /\ off < ImageSize
    /\ query' = <<off, Minimum(len, ImageSize - off)>>
    /\ infos' = LookupRange(off, Minimum(len, ImageSize - off))
    /\ UNCHANGED records
-----------------------------------------------------------------------------
(* Properties of what dedup_range returns.                                  *)

\* Where segment i starts: process_dedup_op adds up the lengths before it.
SegmentStart(i) == query[1] + FoldLeft(LAMBDA n, s : n + s[2], 0, SubSeq(infos, 1, i - 1))

(* The segments are the request, cut without gap or overlap, and a segment  *)
(* with a record lies inside it: process_dedup_op's unsigned subtraction    *)
(* whole_off - info.off does not wrap, and with_chunk_range is never asked  *)
(* for bytes past the chunk's end.                                          *)
SegmentsTile ==
    /\ SegmentStart(Len(infos) + 1) = query[1] + query[2]
    /\ \A i \in 1 .. Len(infos) :
         LET info == infos[i][1] IN
         /\ info.off <= SegmentStart(i)
         /\ SegmentStart(i) + infos[i][2] <= End(info)

QueryBytes == query[1] .. (query[1] + query[2] - 1)
Covered(b) == \E r \in records : r.off <= b /\ b < End(r)
FoundBytes ==
    UNION {SegmentStart(i) .. (SegmentStart(i) + infos[i][2] - 1) :
             i \in {j \in 1 .. Len(infos) : infos[j][1].valid}}

\* The request starts at the last byte of a longer record.
AtLastByte == \E r \in records : End(r) = query[1] + 1 /\ r.off < query[1]

(* What the walk finds exactly: the bytes up to the first one without a     *)
(* record, as a record after a gap is consumed by the gap.  And nothing     *)
(* when the request starts at the last byte of a record, as that record's   *)
(* key is below LowerKey: byte order puts the smaller start first.          *)
FindsPrefix ==
    [][records' = records =>
         FoundBytes' = {b \in QueryBytes' :
                          ~AtLastByte' /\ \A a \in query'[1] .. b : Covered(a)}]_blob
=============================================================================
