------------------------------ MODULE MhCheck ------------------------------
(***************************************************************************)
(* mhstatus --check: Metadata::CheckDataChunks reads the local file from   *)
(* its beginning, once, and compares the checksums of the chunks recorded  *)
(* as OK.  It never seeks to a chunk: its position in the file is the sum  *)
(* of what it has read and skipped.  The file may have been damaged or cut *)
(* short since it was downloaded.                                          *)
(*                                                                         *)
(* MhMetadata models the outcome of this loop as one operator.             *)
(***************************************************************************)
EXTENDS ChunkGeometry

CONSTANTS
  FileSizes,   \* the sizes of file to consider
  ChunkSizes   \* the sizes of chunk to consider

ASSUME CheckAssumption ==
    /\ FileSizes \subseteq Nat
    /\ ChunkSizes \subseteq Nat \ {0}

VARIABLES
  fileSize, chunkSize,   \* of the metadata
  ok,        \* the chunks whose status was OK when the metadata was loaded
  length,    \* the length of the local file
  rotten,    \* the chunks whose bytes are not the downloaded ones any more
  inUse,     \* in_use_ of the metadata
  i,         \* the loop variable
  pos,       \* the position of the file descriptor
  error,     \* the chunks set to ERROR in memory
  saved      \* the chunks set to ERROR on disk

file == <<fileSize, chunkSize, ok, length, rotten, inUse>>
vars == <<fileSize, chunkSize, ok, length, rotten, inUse, i, pos, error, saved>>

Chunk == 0 .. NumChunks(fileSize, chunkSize) - 1
Len(c) == ChunkLength(fileSize, chunkSize, c)

TypeOK ==
    /\ fileSize \in FileSizes /\ chunkSize \in ChunkSizes
    /\ ok \subseteq Chunk /\ rotten \subseteq Chunk
    /\ length \in 0 .. fileSize
    /\ inUse \in 0 .. 2
    /\ i \in 0 .. NumChunks(fileSize, chunkSize) + 1
    /\ pos \in 0 .. fileSize
    /\ error \subseteq ok /\ saved \subseteq ok

Init ==
    /\ fileSize \in FileSizes /\ chunkSize \in ChunkSizes
    /\ ok \in SUBSET Chunk /\ rotten \in SUBSET ok
    /\ length \in 0 .. fileSize
    /\ inUse \in 0 .. 2
    /\ i = 0 /\ pos = 0 /\ error = {} /\ saved = {}

(* read(fd, buffer, cs) at the position pos returns what is left, or 0. *)
BytesRead(c) ==
    IF pos >= length THEN 0
    ELSE IF length - pos >= Len(c) THEN Len(c) ELSE length - pos

(* The checksum of the bytes read is the one recorded for chunk c. *)
Matches(c) ==
    /\ pos = FilePos(chunkSize, c)
    /\ BytesRead(c) = Len(c)
    /\ c \notin rotten

CheckOk ==
    /\ i \in Chunk
    /\ i \in ok
    /\ error' = IF Matches(i) THEN error ELSE error \cup {i}
    /\ pos' = pos + BytesRead(i)
    /\ i' = i + 1
    /\ UNCHANGED <<file, saved>>

(* lseek(fd, cs, SEEK_CUR), which may go beyond the end of the file. *)
SkipUnread ==
    /\ i \in Chunk
    /\ i \notin ok
    /\ i' = i + 1
    /\ UNCHANGED <<file, pos, error, saved>>

SkipWhole ==
    /\ i \in Chunk
    /\ i \notin ok
    /\ pos' = pos + chunkSize
    /\ i' = i + 1
    /\ UNCHANGED <<file, error, saved>>

Skip ==
    /\ i \in Chunk
    /\ i \notin ok
    /\ pos' = pos + Len(i)
    /\ i' = i + 1
    /\ UNCHANGED <<file, error, saved>>

(* The loop is over: save, unless the metadata was in use. *)
Save ==
    /\ i = NumChunks(fileSize, chunkSize)
    /\ saved' = IF inUse = 0 THEN error ELSE {}
    /\ i' = i + 1
    /\ UNCHANGED <<file, pos, error>>

Next == CheckOk \/ Skip \/ Save

Spec == Init /\ [][Next]_vars
-----------------------------------------------------------------------------
Damaged(c) ==
    \/ c \in rotten
    \/ FilePos(chunkSize, c) + Len(c) > length

(***************************************************************************)
(* --check finds every damaged chunk and accuses no other: although it     *)
(* never seeks to a chunk, and although a short read leaves its position   *)
(* short of where the next chunk should begin.  Its findings, all of them, *)
(* reach the disk when the loop is over, if the metadata was not in use.   *)
(***************************************************************************)
CheckIsExact ==
    /\ error = {c \in ok : c < i /\ Damaged(c)}
    /\ saved = IF i > NumChunks(fileSize, chunkSize) /\ inUse = 0
               THEN {c \in ok : Damaged(c)} ELSE {}

(***************************************************************************)
(* The loop is where the next chunk begins, or stuck where the file was    *)
(* cut.  At the end it has been through the whole file: the chunks tile    *)
(* it, whatever the sizes.                                                 *)
(***************************************************************************)
Start(c) == IF c \in Chunk THEN FilePos(chunkSize, c) ELSE fileSize

Aligned ==
    /\ pos <= Start(i)
    /\ pos = Start(i) \/ pos >= length
=============================================================================
