----------------------------- MODULE MhMetadata -----------------------------
(***************************************************************************)
(* The metadata file (<file>.mdata) of protocol/metadata.cpp: the status   *)
(* and the checksum of every chunk, the in_use_ flag, and what the class   *)
(* Metadata does to them.  The operators are pure: a program loads the     *)
(* file, applies one of them to its own copy, and writes the copy back.    *)
(* The constant part of the header (name, sizes, digest of the whole file) *)
(* is left to ChunkGeometry.                                               *)
(***************************************************************************)
EXTENDS Integers

CONSTANT Chunks          \* chunks_: into how many chunks the file is cut

ASSUME ChunksAssumption == Chunks \in Nat      \* an empty file has none

Chunk == 0 .. Chunks - 1

ChunkStatus == {"OK", "PENDING", "ERROR", "DOWNLOAD", "UPLOAD"}

(***************************************************************************)
(* Contents are abstract: the value c stands for the bytes of chunk c of   *)
(* the file on the server, Hole for any other bytes (never written, or     *)
(* left by another file).  MD5 is taken to be free of collisions.          *)
(***************************************************************************)
Hole == -1
Data == Chunk \cup {Hole}
MD5(data) == [of |-> data]

ZeroDigest == [of |-> -2]    \* the memset of initControlData
JunkDigest == [of |-> -3]    \* a buffer that was never filled for this chunk
Digest == {MD5(d) : d \in Data} \cup {ZeroDigest, JunkDigest}

ChunkInfo == [md5sum : Digest, status : ChunkStatus]
ControlData == [Chunk -> ChunkInfo]

(* in_use_: 0 idle, 1 downloading, 2 uploading (or any other byte). *)
InUse == 0 .. 2
Metadata == [inUse : InUse, info : ControlData]

InitControlData == [c \in Chunk |-> [md5sum |-> ZeroDigest,
                                     status |-> "PENDING"]]
-----------------------------------------------------------------------------
(***************************************************************************)
(* getNextPendingChunk: the first chunk that is neither transferred nor    *)
(* being transferred, -1 when there is none.                               *)
(***************************************************************************)
ClaimableTakenToo(info) == {c \in Chunk : info[c].status # "OK"}
ClaimableButFirst(info) ==
    {c \in Chunk \ {0} : info[c].status \notin {"OK", "DOWNLOAD", "UPLOAD"}}

Claimable(info) ==
    {c \in Chunk : info[c].status \notin {"OK", "DOWNLOAD", "UPLOAD"}}

NextPendingChunk(info) ==
    IF Claimable(info) = {}
    THEN -1
    ELSE CHOOSE c \in Claimable(info) : \A d \in Claimable(info) : c <= d

(* setChunkStatus, without a digest (NULL) and with one. *)
SetStatus(info, c, status) == [info EXCEPT ![c].status = status]

SetChunk(info, c, status, digest) ==
    [info EXCEPT ![c] = [md5sum |-> digest, status |-> status]]
-----------------------------------------------------------------------------
(***************************************************************************)
(* resetDownloadingChunks, past its test of in_use_: what an interrupted   *)
(* client does to the metadata before it stops, and mhstatus --recover.    *)
(***************************************************************************)
ResetErrorsOnly(meta) ==
    [inUse |-> 0,
     info  |-> [c \in Chunk |-> IF meta.info[c].status = "ERROR"
                                THEN [meta.info[c] EXCEPT !.status = "PENDING"]
                                ELSE meta.info[c]]]

ResetDownloadingChunks(meta) ==
    [inUse |-> 0,
     info  |-> [c \in Chunk |->
                  IF meta.info[c].status \in {"DOWNLOAD", "ERROR"}
                  THEN [meta.info[c] EXCEPT !.status = "PENDING"]
                  ELSE meta.info[c]]]

(* resetAllChunks, past its test of in_use_: mhstatus --reset. *)
ResetAllChunks(meta) ==
    [inUse |-> 0,
     info  |-> [c \in Chunk |-> [meta.info[c] EXCEPT !.status = "PENDING"]]]

(***************************************************************************)
(* CheckDataChunks: mhstatus --check reads the chunks recorded as OK back  *)
(* from the data file and marks those whose checksum differs.  It saves    *)
(* the result only when in_use_ is 0.                                      *)
(***************************************************************************)
CheckDataChunksButLast(meta, data) ==
    IF meta.inUse # 0
    THEN meta
    ELSE [meta EXCEPT !.info =
            [c \in Chunk |->
               IF /\ meta.info[c].status = "OK"
                  /\ c # Chunks - 1
                  /\ MD5(data[c]) # meta.info[c].md5sum
               THEN [meta.info[c] EXCEPT !.status = "ERROR"]
               ELSE meta.info[c]]]

CheckDataChunks(meta, data) ==
    IF meta.inUse # 0
    THEN meta
    ELSE [meta EXCEPT !.info =
            [c \in Chunk |->
               IF /\ meta.info[c].status = "OK"
                  /\ MD5(data[c]) # meta.info[c].md5sum
               THEN [meta.info[c] EXCEPT !.status = "ERROR"]
               ELSE meta.info[c]]]
=============================================================================
