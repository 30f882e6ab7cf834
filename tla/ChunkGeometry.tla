--------------------------- MODULE ChunkGeometry ---------------------------
(***************************************************************************)
(* How a file is cut into chunks: create and initControlData on the one    *)
(* side, getPayLoadArray on the other, and the positions that the server,  *)
(* the workers and mhstatus --check each compute for themselves.  Sizes    *)
(* are int64_t in the code; files are far smaller than 2^63.               *)
(***************************************************************************)
EXTENDS Integers

(* create: a last chunk for what is left over. *)
NumChunksNoRest(fileSize, chunkSize) == fileSize \div chunkSize

NumChunks(fileSize, chunkSize) ==
    (fileSize \div chunkSize) + (IF fileSize % chunkSize # 0 THEN 1 ELSE 0)

(* initControlData and getPayLoadArray: what is left, at most a chunk. *)
ChunkLength(fileSize, chunkSize, i) ==
    LET remain == fileSize - chunkSize * i
    IN  IF remain >= chunkSize THEN chunkSize ELSE remain

(* Where the server reads chunk i and where a worker writes it. *)
FilePos(chunkSize, i) == i * chunkSize
=============================================================================
