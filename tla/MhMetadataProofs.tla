-------------------------- MODULE MhMetadataProofs --------------------------
(***************************************************************************)
(* What the operators of MhMetadata return, for every number of chunks.    *)
(* MhDownloadProofs cites these lemmas instead of expanding the operators. *)
(***************************************************************************)
EXTENDS MhMetadata, WellFoundedInduction, TLAPS

(***************************************************************************)
(* Every set of naturals that is not empty has a least element.            *)
(***************************************************************************)
LEMMA LeastElement ==
    ASSUME NEW S \in SUBSET Nat, S # {}
    PROVE  \E n \in S : \A m \in S : n <= m
<1> DEFINE R == OpToRel(<, Nat)
<1>1. IsWellFoundedOn(R, Nat)
  BY NatLessThanWellFounded
<1>2. PICK n \in S : \A m \in S : ~(<<m, n>> \in R)
  BY <1>1, WFMin, Zenon
<1>3. ASSUME NEW m \in S
      PROVE  n <= m
  <2>1. ~(m < n)
    BY <1>2, <1>3 DEF OpToRel
  <2> QED
    BY <2>1
<1> QED
  BY <1>3

(***************************************************************************)
(* getNextPendingChunk returns the first of the chunks that may be         *)
(* claimed, and -1 exactly when there is none.                             *)
(***************************************************************************)
LEMMA NextPendingChunkIsClaimable ==
    ASSUME NEW info
    PROVE  /\ Claimable(info) # {} =>
                 /\ NextPendingChunk(info) \in Claimable(info)
                 /\ \A c \in Claimable(info) : NextPendingChunk(info) <= c
           /\ Claimable(info) = {} <=> NextPendingChunk(info) = -1
<1>0. Claimable(info) \in SUBSET Nat
  BY ChunksAssumption DEF Claimable, Chunk
<1>1. ASSUME Claimable(info) # {}
      PROVE  /\ NextPendingChunk(info) \in Claimable(info)
             /\ \A c \in Claimable(info) : NextPendingChunk(info) <= c
  <2>1. \E c \in Claimable(info) : \A d \in Claimable(info) : c <= d
    BY <1>0, <1>1, LeastElement
  <2> QED
    BY <1>1, <2>1 DEF NextPendingChunk
<1>2. Claimable(info) = {} => NextPendingChunk(info) = -1
  BY DEF NextPendingChunk
<1>3. Claimable(info) # {} => NextPendingChunk(info) # -1
  BY <1>0, <1>1
<1> QED
  BY <1>1, <1>2, <1>3

(* The types of what the operators return. *)
LEMMA InitialType ==
    InitControlData \in ControlData
BY DEF InitControlData, ControlData, ChunkInfo, ChunkStatus, Digest

LEMMA SetStatusType ==
    ASSUME NEW info \in ControlData, NEW c \in Chunk, NEW s \in ChunkStatus
    PROVE  /\ SetStatus(info, c, s) \in ControlData
           /\ SetStatus(info, c, s)[c].status = s
           /\ \A d \in Chunk : d # c => SetStatus(info, c, s)[d] = info[d]
BY DEF SetStatus, ControlData, ChunkInfo

LEMMA SetChunkType ==
    ASSUME NEW info \in ControlData, NEW c \in Chunk, NEW s \in ChunkStatus,
           NEW g \in Digest
    PROVE  /\ SetChunk(info, c, s, g) \in ControlData
           /\ SetChunk(info, c, s, g)[c] = [md5sum |-> g, status |-> s]
           /\ \A d \in Chunk : d # c => SetChunk(info, c, s, g)[d] = info[d]
BY DEF SetChunk, ControlData, ChunkInfo

LEMMA ResetDownloadingType ==
    ASSUME NEW meta \in Metadata
    PROVE  /\ ResetDownloadingChunks(meta) \in Metadata
           /\ ResetDownloadingChunks(meta).inUse = 0
           /\ \A c \in Chunk :
                 LET old == meta.info[c]
                     new == ResetDownloadingChunks(meta).info[c]
                 IN  /\ new.md5sum = old.md5sum
                     /\ new.status = IF old.status \in {"DOWNLOAD", "ERROR"}
                                     THEN "PENDING" ELSE old.status
BY DEF ResetDownloadingChunks, Metadata, InUse, ControlData, ChunkInfo,
       ChunkStatus

LEMMA ResetAllType ==
    ASSUME NEW meta \in Metadata
    PROVE  /\ ResetAllChunks(meta) \in Metadata
           /\ \A c \in Chunk : ResetAllChunks(meta).info[c].status = "PENDING"
BY DEF ResetAllChunks, Metadata, InUse, ControlData, ChunkInfo, ChunkStatus

LEMMA CheckType ==
    ASSUME NEW meta \in Metadata, NEW data
    PROVE  /\ CheckDataChunks(meta, data) \in Metadata
           /\ CheckDataChunks(meta, data).inUse = meta.inUse
           /\ \A c \in Chunk :
                 LET old == meta.info[c]
                     new == CheckDataChunks(meta, data).info[c]
                 IN  \/ new = old
                     \/ /\ old.status = "OK"
                        /\ MD5(data[c]) # old.md5sum
                        /\ new.status = "ERROR"
BY DEF CheckDataChunks, Metadata, InUse, ControlData, ChunkInfo, ChunkStatus
=============================================================================
