-------------------------- MODULE MhSharingProofs --------------------------
(***************************************************************************)
(* The safety of MhSharing: for every number of clients, of runs of        *)
(* mhstatus and of chunks, programs that overwrite each other's metadata   *)
(* never record as OK a chunk that is missing, and lose no chunk that one  *)
(* of them has not lost by dying.                                          *)
(***************************************************************************)
EXTENDS MhSharing, MhMetadataProofs


LEMMA InitInv == Init => SharingInv
<1> SUFFICES ASSUME Init PROVE SharingInv
  OBVIOUS
<1> USE InitialType DEF Init
<1>1. TypeOK
  BY DEF TypeOK, Metadata, InUse, NoCopy, Data
<1>2. PlaceInv
  BY SharingAssumption DEF PlaceInv, ClientPC, ToolPC, Program, Working
<1>3. OkInv /\ MarkInv
  BY DEF OkInv, MarkInv, Truthful, InitControlData, NoCopy, Program
<1>4. DrainInv
  BY DEF DrainInv
<1> QED
  BY <1>1, <1>2, <1>3, <1>4 DEF SharingInv

(* The copies that a client loads, and the digest that it records. *)
LEMMA ClientCopies ==
    ASSUME TypeOK
    PROVE  /\ [file EXCEPT !.inUse = 0] \in Metadata
           /\ [file EXCEPT !.inUse = 1] \in Metadata
           /\ NoCopy \in Metadata
           /\ NextPendingChunk(file.info) # -1 =>
                /\ NextPendingChunk(file.info) \in Chunk
                /\ [file EXCEPT !.info = SetStatus(@, NextPendingChunk(@), "DOWNLOAD")]
                     \in Metadata
           /\ \A c \in Chunk :
                /\ [file EXCEPT !.info = SetChunk(@, c, "OK", MD5(c))] \in Metadata
                /\ [file EXCEPT !.info = SetChunk(@, c, "ERROR", JunkDigest)]
                     \in Metadata
<1>1. /\ [file EXCEPT !.inUse = 0] \in Metadata
      /\ [file EXCEPT !.inUse = 1] \in Metadata
      /\ NoCopy \in Metadata
  BY InitialType DEF TypeOK, Metadata, InUse, NoCopy
<1>2. ASSUME NextPendingChunk(file.info) # -1
      PROVE  /\ NextPendingChunk(file.info) \in Chunk
             /\ [file EXCEPT !.info = SetStatus(@, NextPendingChunk(@), "DOWNLOAD")]
                  \in Metadata
  <2>1. NextPendingChunk(file.info) \in Chunk
    BY <1>2, NextPendingChunkIsClaimable DEF Claimable
  <2> QED
    BY <2>1, SetStatusType DEF TypeOK, Metadata, ChunkStatus
<1>3. ASSUME NEW c \in Chunk
      PROVE  /\ [file EXCEPT !.info = SetChunk(@, c, "OK", MD5(c))] \in Metadata
             /\ [file EXCEPT !.info = SetChunk(@, c, "ERROR", JunkDigest)] \in Metadata
  <2>1. MD5(c) \in Digest /\ JunkDigest \in Digest
    BY DEF Digest, Data
  <2> QED
    BY <2>1, SetChunkType DEF TypeOK, Metadata, ChunkStatus
<1> QED
  BY <1>1, <1>2, <1>3

(* Loads, saves and moves keep their types. *)
LEMMA LoadType ==
    ASSUME TypeOK, NEW p \in Program, NEW copy \in Metadata, Load(p, copy)
    PROVE  file' \in Metadata /\ mem' \in [Program -> Metadata]
BY DEF Load, TypeOK

LEMMA SaveType ==
    ASSUME TypeOK, NEW p \in Program, Save(p) \/ SaveArray(p)
    PROVE  file' \in Metadata /\ mem' \in [Program -> Metadata]
<1>1. mem' \in [Program -> Metadata]
  BY ClientCopies DEF Save, SaveArray, Drop, TypeOK
<1>2. file' \in Metadata
  BY DEF Save, SaveArray, TypeOK, Metadata
<1> QED
  BY <1>1, <1>2

Places == {"off", "save", "refused"} \cup Running \cup Over

LEMMA GoType ==
    ASSUME TypeOK, NEW p \in Program, NEW there \in Places, Go(p, there)
    PROVE  pc' \in [Program -> Places]
BY DEF Go, TypeOK, Places

(***************************************************************************)
(* Types and places.  Each action is a load, a save, or neither, and goes  *)
(* from one place to another.                                              *)
(***************************************************************************)
LEMMA LeaveType ==
    ASSUME TypeOK, NEW p \in Client, NEW why \in {"drained", "failed", "stopped"},
           Leave(p, why)
    PROVE  /\ pc' \in [Program -> Places]
           /\ pc'[p] \in {"orphan", "hload", "fload"}
           /\ \A q \in Program : q # p => pc'[q] = pc[q]
           /\ fate' \in [Client -> {"none", "drained", "failed", "stopped"}]
           /\ \A q \in Client : q # p => fate'[q] = fate[q]
BY DEF Leave, Go, TypeOK, Program, Places, Running, Over, MainPC, Handler

LEMMA ClientType ==
    ASSUME TypeOK, PlaceInv, NEW p \in Client, BeginLoad(p) \/ ClientStep(p)
    PROVE  TypeOK' /\ PlaceInv'
<1> USE DEF Program
<1>0. pc \in [Program -> Places]
  BY DEF TypeOK, Places
<1>a. ASSUME file' \in Metadata, mem' \in [Program -> Metadata],
             UNCHANGED <<local, cur, intr, alone, fate>>,
             NEW there \in ClientPC, Go(p, there),
             there \in Working \cup {"claim"} => cur[p] \in Chunk,
             there \in WorkerPC \cup {"off", "begin"} => fate[p] = "none"
      PROVE  TypeOK' /\ PlaceInv'
  <2>1. there \in Places
    BY <1>a DEF Places, ClientPC
  <2>2. pc' \in [Program -> Places]
    BY <1>a, <2>1, GoType
  <2>3. TypeOK'
    BY <1>a, <2>2 DEF TypeOK, Places
  <2>4. pc' = [pc EXCEPT ![p] = there]
    BY <1>a DEF Go
  <2>5. p \notin Tool
    BY SharingAssumption
  <2>6. PlaceInv'
    BY <1>a, <1>0, <2>4, <2>5 DEF PlaceInv
  <2> QED
    BY <2>3, <2>6
<1>b. ASSUME file' \in Metadata, mem' \in [Program -> Metadata],
             UNCHANGED <<local, cur, intr, alone>>,
             NEW why \in {"drained", "failed", "stopped"}, Leave(p, why)
      PROVE  TypeOK' /\ PlaceInv'
  <2>1. /\ pc' \in [Program -> Places]
        /\ pc'[p] \in {"orphan", "hload", "fload"}
        /\ \A q \in Program : q # p => pc'[q] = pc[q]
        /\ fate' \in [Client -> {"none", "drained", "failed", "stopped"}]
        /\ \A q \in Client : q # p => fate'[q] = fate[q]
    BY <1>b, LeaveType
  <2>2. TypeOK'
    BY <1>b, <2>1 DEF TypeOK, Places
  <2>3. p \notin Tool
    BY SharingAssumption
  <2>4. PlaceInv'
    BY <1>b, <2>1, <2>3 DEF PlaceInv, ClientPC, Running, Over, MainPC, Handler,
                            WorkerPC, Working
  <2> QED
    BY <2>2, <2>4
<1>1. CASE BeginLoad(p)
  <2>1. file' \in Metadata /\ mem' \in [Program -> Metadata]
    BY <1>1, ClientCopies, LoadType DEF BeginLoad
  <2>2. fate[p] = "none"
    BY <1>1 DEF BeginLoad, PlaceInv
  <2>3. "begin" \in ClientPC /\ "begin" \notin Working \cup {"claim"}
    BY DEF ClientPC, Running, MainPC, Working
  <2> QED
    BY <1>1, <1>a, <2>1, <2>2, <2>3 DEF BeginLoad
<1>2. CASE BeginSave(p)
  <2>1. file' \in Metadata /\ mem' \in [Program -> Metadata]
    BY <1>2, SaveType DEF BeginSave
  <2>2. fate[p] = "none"
    BY <1>2 DEF BeginSave, PlaceInv
  <2>3. "top" \in ClientPC /\ "top" \notin Working \cup {"claim"}
    BY DEF ClientPC, Running, WorkerPC, Working
  <2> QED
    BY <1>2, <1>a, <2>1, <2>2, <2>3 DEF BeginSave
<1>3. CASE Claim(p)
  <2> DEFINE n == NextPendingChunk(file.info)
  <2>1. /\ pc[p] = "top" /\ n # -1
        /\ cur' = [cur EXCEPT ![p] = n]
        /\ Load(p, [file EXCEPT !.info = SetStatus(@, n, "DOWNLOAD")])
        /\ pc' = [pc EXCEPT ![p] = "claim"]
        /\ UNCHANGED <<local, intr, alone, fate>>
    BY <1>3 DEF Claim, Go
  <2>2. n \in Chunk /\ [file EXCEPT !.info = SetStatus(@, n, "DOWNLOAD")] \in Metadata
    BY <2>1, ClientCopies DEF TypeOK, Metadata
  <2>3. file' \in Metadata /\ mem' \in [Program -> Metadata]
    BY <2>1, <2>2, LoadType
  <2>4. pc' \in [Program -> Places] /\ cur' \in [Client -> Chunk \cup {-1}]
    BY <1>0, <2>1, <2>2 DEF Places, Running, WorkerPC, TypeOK
  <2>5. TypeOK'
    BY <2>1, <2>3, <2>4 DEF TypeOK, Places
  <2>6. p \notin Tool
    BY SharingAssumption
  <2>7. "claim" \in ClientPC /\ fate[p] = "none"
    BY <2>1 DEF ClientPC, Running, WorkerPC, PlaceInv
  <2>8. PlaceInv'
    BY <1>0, <2>1, <2>2, <2>4, <2>6, <2>7 DEF PlaceInv, TypeOK
  <2> QED
    BY <2>5, <2>8
<1>4. CASE NothingLeft(p)
  BY <1>4, <1>b DEF NothingLeft, TypeOK
<1>5. CASE CommitClaim(p)
  <2>1. file' \in Metadata /\ mem' \in [Program -> Metadata]
    BY <1>5, SaveType DEF CommitClaim
  <2>2. fate[p] = "none" /\ cur[p] \in Chunk
    BY <1>5 DEF CommitClaim, PlaceInv, WorkerPC
  <2>3. "fetch" \in ClientPC
    BY DEF ClientPC, Running, WorkerPC, Working
  <2> QED
    BY <1>5, <1>a, <2>1, <2>2, <2>3 DEF CommitClaim
<1>6. CASE Fetch(p)
  <2>1. /\ pc[p] = "fetch"
        /\ local' = [local EXCEPT ![cur[p]] = cur[p]]
        /\ pc' = [pc EXCEPT ![p] = "update"]
        /\ UNCHANGED <<file, mem, cur, intr, alone, fate>>
    BY <1>6 DEF Fetch, Go
  <2>2. cur[p] \in Chunk /\ fate[p] = "none"
    BY <2>1 DEF PlaceInv, WorkerPC, Working
  <2>3. local' \in [Chunk -> Data]
    BY <2>1, <2>2 DEF TypeOK, Data
  <2>4. pc' \in [Program -> Places]
    BY <1>0, <2>1 DEF Places, Running, WorkerPC, Working
  <2>5. TypeOK'
    BY <2>1, <2>3, <2>4 DEF TypeOK, Places
  <2>6. p \notin Tool /\ "update" \in ClientPC
    BY SharingAssumption DEF ClientPC, Running, WorkerPC, Working
  <2>7. PlaceInv'
    BY <1>0, <2>1, <2>2, <2>6 DEF PlaceInv
  <2> QED
    BY <2>5, <2>7
<1>7. CASE FetchFails(p)
  <2>1. cur[p] \in Chunk /\ fate[p] = "none"
    BY <1>7 DEF FetchFails, PlaceInv, WorkerPC, Working
  <2>2. "fail" \in ClientPC
    BY DEF ClientPC, Running, WorkerPC, Working
  <2> QED
    BY <1>7, <1>a, <2>1, <2>2 DEF FetchFails, TypeOK
<1>8. CASE UpdateLoad(p)
  <2>1. cur[p] \in Chunk /\ fate[p] = "none"
    BY <1>8 DEF UpdateLoad, PlaceInv, WorkerPC, Working
  <2>2. file' \in Metadata /\ mem' \in [Program -> Metadata]
    BY <1>8, <2>1, ClientCopies, LoadType DEF UpdateLoad
  <2>3. PICK there \in {"commit", "commitErr"} : Go(p, there)
    BY <1>8 DEF UpdateLoad
  <2>4. there \in ClientPC
    BY <2>3 DEF ClientPC, Running, WorkerPC, Working
  <2>5. UNCHANGED <<local, cur, intr, alone, fate>>
    BY <1>8 DEF UpdateLoad
  <2> QED
    BY <1>a, <2>1, <2>2, <2>3, <2>4, <2>5
<1>9. CASE CommitUpdate(p)
  <2>1. file' \in Metadata /\ mem' \in [Program -> Metadata]
    BY <1>9, SaveType DEF CommitUpdate
  <2>2. fate[p] = "none"
    BY <1>9 DEF CommitUpdate, PlaceInv, WorkerPC, Working
  <2>3. "top" \in ClientPC /\ "top" \notin Working \cup {"claim"}
    BY DEF ClientPC, Running, WorkerPC, Working
  <2> QED
    BY <1>9, <1>a, <1>b, <2>1, <2>2, <2>3 DEF CommitUpdate
<1>10. CASE FinishLoad(p)
  <2>1. file' \in Metadata /\ mem' \in [Program -> Metadata]
    BY <1>10, ClientCopies, LoadType DEF FinishLoad
  <2>2. "fsave" \in ClientPC \ (WorkerPC \cup {"off", "begin"})
    BY DEF ClientPC, Running, MainPC, WorkerPC, Working
  <2> QED
    BY <1>10, <1>a, <2>1, <2>2 DEF FinishLoad, WorkerPC
<1>11. CASE FinishSave(p)
  <2>1. file' \in Metadata /\ mem' \in [Program -> Metadata]
    BY <1>11, SaveType DEF FinishSave
  <2>2. "end" \in ClientPC \ (WorkerPC \cup {"off", "begin"})
    BY DEF ClientPC, Over, WorkerPC, Working
  <2> QED
    BY <1>11, <1>a, <2>1, <2>2 DEF FinishSave, WorkerPC
<1>12. CASE HandlerLoad(p)
  <2>1. ResetDownloadingChunks(file) \in Metadata
    BY ResetDownloadingType DEF TypeOK
  <2>2. file' \in Metadata /\ mem' \in [Program -> Metadata]
    BY <1>12, <2>1, LoadType DEF HandlerLoad
  <2>3. "hsave" \in ClientPC \ (WorkerPC \cup {"off", "begin"})
    BY DEF ClientPC, Running, Handler, WorkerPC, Working
  <2> QED
    BY <1>12, <1>a, <2>2, <2>3 DEF HandlerLoad, WorkerPC
<1>13. CASE HandlerSave(p)
  <2>1. file' \in Metadata /\ mem' \in [Program -> Metadata]
    BY <1>13, SaveType DEF HandlerSave
  <2>2. "interrupted" \in ClientPC \ (WorkerPC \cup {"off", "begin"})
    BY DEF ClientPC, Over, WorkerPC, Working
  <2> QED
    BY <1>13, <1>a, <2>1, <2>2 DEF HandlerSave, WorkerPC
<1> QED
  BY <1>1, <1>2, <1>3, <1>4, <1>5, <1>6, <1>7, <1>8, <1>9, <1>10, <1>11, <1>12,
     <1>13 DEF ClientStep

LEMMA OtherType ==
    ASSUME TypeOK, PlaceInv
    PROVE  /\ \A p \in Client : Sigint(p) \/ MainKilled(p) \/ Killed(p)
                                  => TypeOK' /\ PlaceInv'
           /\ \A p \in Tool : ToolLoad(p) \/ ToolSave(p) => TypeOK' /\ PlaceInv'
<1> USE DEF Program
<1>0. pc \in [Program -> Places]
  BY DEF TypeOK, Places
<1>1. ASSUME NEW p \in Client, Sigint(p)
      PROVE  TypeOK' /\ PlaceInv'
  <2> DEFINE there == IF pc[p] \in MainPC THEN "hload" ELSE pc[p]
  <2>1. /\ pc[p] \in MainPC \cup WorkerPC
        /\ pc' = [pc EXCEPT ![p] = there]
        /\ intr' = [intr EXCEPT ![p] = TRUE]
        /\ UNCHANGED <<file, local, mem, cur, alone, fate>>
    BY <1>1 DEF Sigint, Go
  <2>2. there \in ClientPC /\ (there = pc[p] \/ there = "hload")
    BY <2>1 DEF ClientPC, Running, Handler
  <2>3. "hload" \notin Working \cup {"claim"} \cup WorkerPC \cup {"off", "begin"}
    BY DEF Working, WorkerPC
  <2>4. p \notin Tool /\ there \in Places
    BY <2>2, SharingAssumption DEF ClientPC, Places
  <2> HIDE DEF there
  <2>5. TypeOK'
    BY <1>0, <2>1, <2>4 DEF TypeOK, Places
  <2>6. PlaceInv'
    BY <1>0, <2>1, <2>2, <2>3, <2>4 DEF PlaceInv
  <2> QED
    BY <2>5, <2>6
<1>2. ASSUME NEW p \in Client, MainKilled(p)
      PROVE  TypeOK' /\ PlaceInv'
  BY <1>2 DEF MainKilled, TypeOK, PlaceInv
<1>3. ASSUME NEW p \in Client, Killed(p)
      PROVE  TypeOK' /\ PlaceInv'
  <2>1. /\ pc' = [pc EXCEPT ![p] = "killed"]
        /\ mem' = [mem EXCEPT ![p] = NoCopy]
        /\ UNCHANGED <<file, local, cur, intr, alone, fate>>
    BY <1>3 DEF Killed, Go, Drop
  <2>2. p \notin Tool /\ "killed" \in Places \cap ClientPC
    BY SharingAssumption DEF Places, ClientPC, Over
  <2>3. "killed" \notin Working \cup {"claim"} \cup WorkerPC \cup {"off", "begin"}
    BY DEF Working, WorkerPC
  <2>4. TypeOK'
    BY <1>0, <2>1, <2>2, ClientCopies DEF TypeOK, Places
  <2>5. PlaceInv'
    BY <1>0, <2>1, <2>2, <2>3 DEF PlaceInv
  <2> QED
    BY <2>4, <2>5
<1>4. ASSUME NEW p \in Tool, ToolLoad(p)
      PROVE  TypeOK' /\ PlaceInv'
  <2>1. PICK there \in {"save", "refused"} : Go(p, there)
    BY <1>4 DEF ToolLoad
  <2>2. file' \in Metadata /\ mem' \in [Program -> Metadata]
    BY <1>4, LoadType, ResetDownloadingType, ResetAllType, CheckType
       DEF ToolLoad, TypeOK
  <2>3. UNCHANGED <<local, cur, intr, alone, fate>>
    BY <1>4 DEF ToolLoad
  <2>4. p \notin Client /\ there \in Places \cap ToolPC
    BY SharingAssumption DEF Places, ToolPC
  <2>5. TypeOK'
    BY <2>1, <2>2, <2>3, <2>4, GoType DEF TypeOK, Places
  <2>6. PlaceInv'
    BY <1>0, <2>1, <2>3, <2>4 DEF PlaceInv, Go
  <2> QED
    BY <2>5, <2>6
<1>5. ASSUME NEW p \in Tool, ToolSave(p)
      PROVE  TypeOK' /\ PlaceInv'
  <2>1. Go(p, "end")
    BY <1>5 DEF ToolSave
  <2>2. file' \in Metadata /\ mem' \in [Program -> Metadata]
    BY <1>5, SaveType DEF ToolSave
  <2>3. UNCHANGED <<local, cur, intr, alone, fate>>
    BY <1>5 DEF ToolSave
  <2>4. p \notin Client /\ "end" \in Places \cap ToolPC
    BY SharingAssumption DEF Places, ToolPC, Over
  <2>5. TypeOK'
    BY <2>1, <2>2, <2>3, <2>4, GoType DEF TypeOK, Places
  <2>6. PlaceInv'
    BY <1>0, <2>1, <2>3, <2>4 DEF PlaceInv, Go
  <2> QED
    BY <2>5, <2>6
<1> QED
  BY <1>1, <1>2, <1>3, <1>4, <1>5

LEMMA TypeStep ==
    TypeOK /\ PlaceInv /\ [Next]_vars => TypeOK' /\ PlaceInv'
<1> SUFFICES ASSUME TypeOK, PlaceInv, [Next]_vars
             PROVE  TypeOK' /\ PlaceInv'
  OBVIOUS
<1>1. CASE UNCHANGED vars
  BY <1>1 DEF vars, TypeOK, PlaceInv
<1>2. CASE Next
  BY <1>2, ClientType, OtherType DEF Next
<1> QED
  BY <1>1, <1>2

(***************************************************************************)
(* Every program keeps its types: in particular a worker in the middle of  *)
(* a chunk has a chunk, whoever else writes the metadata.                  *)
(***************************************************************************)
THEOREM TypeCorrect == Spec => []TypeOK
<1>1. Init => TypeOK /\ PlaceInv
  BY InitInv DEF SharingInv
<1> QED
  BY <1>1, TypeStep, PTL DEF Spec
-----------------------------------------------------------------------------
(***************************************************************************)
(* What a step may do, whoever takes it: the arrays that are loaded, the   *)
(* one that is saved, and where a client goes.                             *)
(***************************************************************************)
Weaker(new, old) ==
    \A c \in Chunk : new[c] = old[c] \/ new[c].status \in {"PENDING", "ERROR"}

SameBut(new, old, c) == \A d \in Chunk : d # c => new[d] = old[d]

LocalStep == \A c \in Chunk : local[c] = c => local'[c] = c

FileStep ==
    \/ file'.info = file.info
    \/ \E p \in Program :
         /\ file'.info = mem[p].info
         /\ p \in Client /\ pc[p] = "claim" => pc'[p] = "fetch" /\ cur'[p] = cur[p]

MemStep(p) ==
    \/ /\ mem'[p] = mem[p]
       /\ p \in Client /\ pc[p] = "claim" => pc'[p] = "claim" /\ cur'[p] = cur[p]
    \/ Weaker(mem'[p].info, file.info)
    \/ /\ p \in Client /\ pc'[p] = "claim"
       /\ SameBut(mem'[p].info, file.info, cur'[p])
       /\ mem'[p].info[cur'[p]].status = "DOWNLOAD"
    \/ /\ p \in Client /\ pc[p] = "update"
       /\ SameBut(mem'[p].info, file.info, cur[p])
       /\ mem'[p].info[cur[p]] = [md5sum |-> MD5(cur[p]), status |-> "OK"]

MoveStep(p) ==
    /\ pc'[p] \in {"update", "commit"} =>
         /\ cur'[p] = cur[p]
         /\ pc[p] \in {"update", "commit"} \/ local'[cur[p]] = cur[p]
    /\ HadIt(p) => pc[p] = "commit" \/ (HadIt(p)' /\ cur'[p] = cur[p])
    /\ fate'[p] = "drained" => fate[p] = "drained" \/ Claimable(file.info) = {}

Footprint ==
    /\ LocalStep /\ FileStep
    /\ \A p \in Program : MemStep(p)
    /\ \A p \in Client : MoveStep(p)

(* The steps of one program leave the others where they are. *)
OnlyOf(p) ==
    /\ \A q \in Program : q # p => pc'[q] = pc[q] /\ mem'[q] = mem[q]
    /\ \A q \in Client : q # p => cur'[q] = cur[q] /\ fate'[q] = fate[q]

LEMMA OneProgram ==
    ASSUME NEW p \in Program, OnlyOf(p), LocalStep, FileStep, MemStep(p),
           p \in Client => MoveStep(p)
    PROVE  Footprint
<1>1. ASSUME NEW q \in Program, q # p
      PROVE  MemStep(q)
  BY <1>1 DEF OnlyOf, MemStep, Program
<1>2. ASSUME NEW q \in Client, q # p
      PROVE  MoveStep(q)
  <2>1. pc'[q] = pc[q] /\ cur'[q] = cur[q] /\ fate'[q] = fate[q]
    BY <1>2 DEF OnlyOf, Program
  <2> QED
    BY <2>1 DEF MoveStep, HadIt
<1> QED
  BY <1>1, <1>2 DEF Footprint

(* What is loaded is the file, at most weaker, but for a claim and an OK. *)
LEMMA WeakerCopies ==
    ASSUME TypeOK
    PROVE  /\ \A u \in InUse : Weaker([file EXCEPT !.inUse = u].info, file.info)
           /\ Weaker(NoCopy.info, file.info)
           /\ Weaker(ResetDownloadingChunks(file).info, file.info)
           /\ Weaker(ResetAllChunks(file).info, file.info)
           /\ Weaker(CheckDataChunks(file, local).info, file.info)
           /\ \A c \in Chunk :
                Weaker([file EXCEPT !.info = SetChunk(@, c, "ERROR", JunkDigest)].info,
                       file.info)
<1>1. \A u \in InUse : Weaker([file EXCEPT !.inUse = u].info, file.info)
  BY DEF Weaker, TypeOK, Metadata
<1>2. Weaker(NoCopy.info, file.info)
  BY DEF Weaker, NoCopy, InitControlData
<1>3. Weaker(ResetDownloadingChunks(file).info, file.info)
  BY DEF ResetDownloadingChunks, Weaker, TypeOK, Metadata, ControlData, ChunkInfo
<1>4. Weaker(ResetAllChunks(file).info, file.info)
  BY ResetAllType DEF Weaker, TypeOK
<1>5. Weaker(CheckDataChunks(file, local).info, file.info)
  BY CheckType DEF Weaker, TypeOK
<1>6. ASSUME NEW c \in Chunk
      PROVE  Weaker([file EXCEPT !.info = SetChunk(@, c, "ERROR", JunkDigest)].info,
                    file.info)
  <2>1. JunkDigest \in Digest /\ "ERROR" \in ChunkStatus
    BY DEF Digest, ChunkStatus
  <2>2. file.info \in ControlData
    BY DEF TypeOK, Metadata
  <2>3. /\ SetChunk(file.info, c, "ERROR", JunkDigest)[c]
             = [md5sum |-> JunkDigest, status |-> "ERROR"]
        /\ \A d \in Chunk : d # c =>
              SetChunk(file.info, c, "ERROR", JunkDigest)[d] = file.info[d]
    BY <2>1, <2>2, SetChunkType
  <2>4. [file EXCEPT !.info = SetChunk(@, c, "ERROR", JunkDigest)].info
          = SetChunk(file.info, c, "ERROR", JunkDigest)
    BY DEF TypeOK, Metadata
  <2> QED
    BY <2>3, <2>4 DEF Weaker
<1> QED
  BY <1>1, <1>2, <1>3, <1>4, <1>5, <1>6

LEMMA ClientFootprint ==
    ASSUME TypeOK, PlaceInv, NEW p \in Client, BeginLoad(p) \/ ClientStep(p)
    PROVE  Footprint
<1> USE DEF Program
<1>0. /\ pc \in [Program -> Places]
      /\ mem \in [Program -> Metadata]
      /\ cur \in [Client -> Chunk \cup {-1}]
      /\ file \in Metadata
      /\ fate \in [Client -> {"none", "drained", "failed", "stopped"}]
  BY DEF TypeOK, Places
<1>1. CASE BeginLoad(p)
  <2>1. /\ pc[p] = "off" /\ pc' = [pc EXCEPT ![p] = "begin"]
        /\ mem' = [mem EXCEPT ![p] = [file EXCEPT !.inUse = 1]]
        /\ UNCHANGED <<file, local, cur, fate>>
    BY <1>1 DEF BeginLoad, Load, Go
  <2>2. OnlyOf(p) /\ LocalStep /\ FileStep
    BY <1>0, <2>1 DEF OnlyOf, LocalStep, FileStep
  <2>3. MemStep(p)
    BY <1>0, <2>1, WeakerCopies DEF MemStep, InUse
  <2>4. MoveStep(p)
    BY <1>0, <2>1 DEF MoveStep, HadIt, Working, PlaceInv
  <2> QED
    BY <2>2, <2>3, <2>4, OneProgram
<1>2. CASE BeginSave(p)
  <2>1. /\ pc[p] = "begin" /\ pc' = [pc EXCEPT ![p] = "top"]
        /\ mem' = [mem EXCEPT ![p] = NoCopy]
        /\ file' = mem[p]
        /\ UNCHANGED <<local, cur, fate>>
    BY <1>2 DEF BeginSave, Save, Drop, Go
  <2>2. OnlyOf(p) /\ LocalStep /\ FileStep
    BY <1>0, <2>1 DEF OnlyOf, LocalStep, FileStep
  <2>3. MemStep(p)
    BY <1>0, <2>1, WeakerCopies DEF MemStep
  <2>4. MoveStep(p)
    BY <1>0, <2>1 DEF MoveStep, HadIt, Working, PlaceInv
  <2> QED
    BY <2>2, <2>3, <2>4, OneProgram
<1>3. CASE Claim(p)
  <2> DEFINE n == NextPendingChunk(file.info)
  <2>1. /\ pc[p] = "top" /\ pc' = [pc EXCEPT ![p] = "claim"] /\ n # -1
        /\ mem' = [mem EXCEPT ![p] =
                     [file EXCEPT !.info = SetStatus(@, n, "DOWNLOAD")]]
        /\ cur' = [cur EXCEPT ![p] = n]
        /\ UNCHANGED <<file, local, fate>>
    BY <1>3 DEF Claim, Load, Go
  <2>2. OnlyOf(p) /\ LocalStep /\ FileStep
    BY <1>0, <2>1 DEF OnlyOf, LocalStep, FileStep
  <2>3. n \in Chunk /\ "DOWNLOAD" \in ChunkStatus /\ file.info \in ControlData
    BY <1>0, <2>1, ClientCopies DEF ChunkStatus, Metadata
  <2>4. mem'[p].info = SetStatus(file.info, n, "DOWNLOAD") /\ cur'[p] = n
    BY <1>0, <2>1 DEF Metadata
  <2> HIDE DEF n
  <2>5. /\ SameBut(mem'[p].info, file.info, n)
        /\ mem'[p].info[n].status = "DOWNLOAD"
    BY <2>3, <2>4, SetStatusType DEF SameBut
  <2>6. MemStep(p)
    BY <1>0, <2>1, <2>4, <2>5 DEF MemStep
  <2>7. MoveStep(p)
    BY <1>0, <2>1 DEF MoveStep, HadIt, Working, PlaceInv, WorkerPC
  <2> QED
    BY <2>2, <2>6, <2>7, OneProgram
<1>4. CASE NothingLeft(p)
  <2>1. /\ pc[p] = "top" /\ NextPendingChunk(file.info) = -1
        /\ UNCHANGED <<file, local, mem, cur>>
        /\ Leave(p, "drained")
    BY <1>4 DEF NothingLeft
  <2>2. /\ pc'[p] \in {"orphan", "hload", "fload"}
        /\ \A q \in Program : q # p => pc'[q] = pc[q]
        /\ \A q \in Client : q # p => fate'[q] = fate[q]
    BY <2>1, LeaveType
  <2>3. OnlyOf(p) /\ LocalStep /\ FileStep /\ MemStep(p)
    BY <2>1, <2>2 DEF OnlyOf, LocalStep, FileStep, MemStep
  <2>4. Claimable(file.info) = {}
    <3>1. \A c \in Claimable(file.info) : c # -1
      BY ChunksAssumption DEF Claimable, Chunk
    <3> QED
      BY <2>1, <3>1, NextPendingChunkIsClaimable
  <2>5. MoveStep(p)
    BY <2>1, <2>2, <2>4 DEF MoveStep, HadIt, Working, PlaceInv, WorkerPC
  <2> QED
    BY <2>3, <2>5, OneProgram
<1>5. CASE CommitClaim(p)
  <2>1. /\ pc[p] = "claim" /\ pc' = [pc EXCEPT ![p] = "fetch"]
        /\ mem' = [mem EXCEPT ![p] = NoCopy]
        /\ file' = [file EXCEPT !.info = mem[p].info]
        /\ UNCHANGED <<local, cur, fate>>
    BY <1>5 DEF CommitClaim, SaveArray, Drop, Go
  <2>2. file'.info = mem[p].info /\ pc'[p] = "fetch" /\ cur'[p] = cur[p]
    BY <1>0, <2>1 DEF Metadata
  <2>3. OnlyOf(p) /\ LocalStep
    BY <1>0, <2>1 DEF OnlyOf, LocalStep
  <2>4. FileStep
    BY <2>2 DEF FileStep
  <2>5. MemStep(p)
    BY <1>0, <2>1, WeakerCopies DEF MemStep
  <2>6. MoveStep(p)
    BY <1>0, <2>1 DEF MoveStep, HadIt, Working
  <2> QED
    BY <2>3, <2>4, <2>5, <2>6, OneProgram
<1>6. CASE Fetch(p)
  <2>1. /\ pc[p] = "fetch" /\ pc' = [pc EXCEPT ![p] = "update"]
        /\ local' = [local EXCEPT ![cur[p]] = cur[p]]
        /\ UNCHANGED <<file, mem, cur, fate>>
    BY <1>6 DEF Fetch, Go
  <2>2. cur[p] \in Chunk /\ local \in [Chunk -> Data]
    BY <2>1 DEF TypeOK, PlaceInv, Working
  <2>3. OnlyOf(p) /\ FileStep /\ MemStep(p)
    BY <1>0, <2>1 DEF OnlyOf, FileStep, MemStep
  <2>4. LocalStep /\ local'[cur[p]] = cur[p]
    BY <2>1, <2>2 DEF LocalStep
  <2>5. MoveStep(p)
    BY <1>0, <2>1, <2>4 DEF MoveStep, HadIt, Working
  <2> QED
    BY <2>3, <2>4, <2>5, OneProgram
<1>7. CASE FetchFails(p)
  <2>1. /\ pc[p] = "fetch" /\ pc' = [pc EXCEPT ![p] = "fail"]
        /\ UNCHANGED <<file, local, mem, cur, fate>>
    BY <1>7 DEF FetchFails, Go
  <2>2. OnlyOf(p) /\ LocalStep /\ FileStep /\ MemStep(p)
    BY <1>0, <2>1 DEF OnlyOf, LocalStep, FileStep, MemStep
  <2>3. MoveStep(p)
    BY <1>0, <2>1 DEF MoveStep, HadIt, Working
  <2> QED
    BY <2>2, <2>3, OneProgram
<1>8. CASE UpdateLoad(p)
  <2> DEFINE c == cur[p]
  <2>1. c \in Chunk
    BY <1>8 DEF UpdateLoad, PlaceInv, Working
  <2>2. UNCHANGED <<file, local, cur, fate>>
    BY <1>8 DEF UpdateLoad, Load
  <2>3. LocalStep /\ FileStep
    BY <2>2 DEF LocalStep, FileStep
  <2>4. CASE pc[p] = "update"
    <3>1. /\ pc' = [pc EXCEPT ![p] = "commit"]
          /\ mem' = [mem EXCEPT ![p] =
                       [file EXCEPT !.info = SetChunk(@, c, "OK", MD5(c))]]
      BY <1>8, <2>4 DEF UpdateLoad, Load, Go
    <3>2. MD5(c) \in Digest /\ "OK" \in ChunkStatus /\ file.info \in ControlData
      BY <1>0, <2>1 DEF Digest, Data, ChunkStatus, Metadata
    <3>3. mem'[p].info = SetChunk(file.info, c, "OK", MD5(c))
      BY <1>0, <3>1 DEF Metadata
    <3>4. /\ SameBut(mem'[p].info, file.info, c)
          /\ mem'[p].info[c] = [md5sum |-> MD5(c), status |-> "OK"]
      BY <2>1, <3>2, <3>3, SetChunkType DEF SameBut
    <3>5. MemStep(p)
      BY <2>4, <3>4 DEF MemStep
    <3>6. OnlyOf(p) /\ MoveStep(p)
      BY <1>0, <2>2, <2>4, <3>1 DEF OnlyOf, MoveStep, HadIt, Working
    <3> QED
      BY <2>3, <3>5, <3>6, OneProgram
  <2>5. CASE pc[p] = "fail"
    <3>1. /\ pc' = [pc EXCEPT ![p] = "commitErr"]
          /\ mem' = [mem EXCEPT ![p] =
                       [file EXCEPT !.info = SetChunk(@, c, "ERROR", JunkDigest)]]
      BY <1>8, <2>5 DEF UpdateLoad, Load, Go
    <3>2. MemStep(p)
      BY <1>0, <2>1, <3>1, WeakerCopies DEF MemStep
    <3>3. OnlyOf(p) /\ MoveStep(p)
      BY <1>0, <2>2, <2>5, <3>1 DEF OnlyOf, MoveStep, HadIt, Working
    <3> QED
      BY <2>3, <3>2, <3>3, OneProgram
  <2> QED
    BY <1>8, <2>4, <2>5 DEF UpdateLoad
<1>9. CASE CommitUpdate(p)
  <2>1. /\ pc[p] \in {"commit", "commitErr"}
        /\ mem' = [mem EXCEPT ![p] = NoCopy]
        /\ file' = [file EXCEPT !.info = mem[p].info]
        /\ UNCHANGED <<local, cur>>
    BY <1>9 DEF CommitUpdate, SaveArray, Drop
  <2>2. file'.info = mem[p].info
    BY <1>0, <2>1 DEF Metadata
  <2>3. LocalStep /\ FileStep
    BY <2>1, <2>2 DEF LocalStep, FileStep
  <2>4. MemStep(p)
    BY <1>0, <2>1, WeakerCopies DEF MemStep
  <2>5. CASE pc[p] = "commitErr" /\ Leave(p, "failed")
    <3>1. /\ pc'[p] \in {"orphan", "hload", "fload"}
          /\ \A q \in Program : q # p => pc'[q] = pc[q]
          /\ \A q \in Client : q # p => fate'[q] = fate[q]
          /\ fate'[p] = "failed"
      BY <1>0, <2>5, LeaveType DEF Leave
    <3>2. OnlyOf(p) /\ MoveStep(p)
      BY <1>0, <2>1, <3>1 DEF OnlyOf, MoveStep, HadIt, Working
    <3> QED
      BY <2>3, <2>4, <3>2, OneProgram
  <2>6. CASE pc[p] = "commit" /\ Leave(p, "stopped")
    <3>1. /\ pc'[p] \in {"orphan", "hload", "fload"}
          /\ \A q \in Program : q # p => pc'[q] = pc[q]
          /\ \A q \in Client : q # p => fate'[q] = fate[q]
          /\ fate'[p] = "stopped"
      BY <1>0, <2>6, LeaveType DEF Leave
    <3>2. OnlyOf(p) /\ MoveStep(p)
      BY <1>0, <2>1, <2>6, <3>1 DEF OnlyOf, MoveStep, HadIt, Working
    <3> QED
      BY <2>3, <2>4, <3>2, OneProgram
  <2>7. CASE pc[p] = "commit" /\ Go(p, "top") /\ UNCHANGED fate
    <3>1. OnlyOf(p) /\ MoveStep(p)
      BY <1>0, <2>1, <2>7 DEF OnlyOf, MoveStep, HadIt, Working, Go
    <3> QED
      BY <2>3, <2>4, <3>1, OneProgram
  <2> QED
    BY <1>9, <2>5, <2>6, <2>7 DEF CommitUpdate
<1>10. CASE FinishLoad(p) \/ HandlerLoad(p)
  <2>1. PICK copy \in {[file EXCEPT !.inUse = 0], ResetDownloadingChunks(file)},
             there \in {"fsave", "hsave"} :
        /\ pc[p] \in {"fload", "hload"} /\ pc' = [pc EXCEPT ![p] = there]
        /\ mem' = [mem EXCEPT ![p] = copy]
        /\ UNCHANGED <<file, local, cur, fate>>
    BY <1>10 DEF FinishLoad, HandlerLoad, Load, Go
  <2>2. OnlyOf(p) /\ LocalStep /\ FileStep
    BY <1>0, <2>1 DEF OnlyOf, LocalStep, FileStep
  <2>3. Weaker(copy.info, file.info)
    <3>1. 0 \in InUse
      BY DEF InUse
    <3> QED
      BY <2>1, <3>1, WeakerCopies
  <2>4. MemStep(p)
    BY <1>0, <2>1, <2>3 DEF MemStep
  <2>5. MoveStep(p)
    BY <1>0, <2>1 DEF MoveStep, HadIt, Working
  <2> QED
    BY <2>2, <2>4, <2>5, OneProgram
<1>11. CASE FinishSave(p) \/ HandlerSave(p)
  <2>1. PICK there \in {"end", "interrupted"} :
        /\ pc[p] \in {"fsave", "hsave"} /\ pc' = [pc EXCEPT ![p] = there]
        /\ mem' = [mem EXCEPT ![p] = NoCopy]
        /\ file' = mem[p]
        /\ UNCHANGED <<local, cur, fate>>
    BY <1>11 DEF FinishSave, HandlerSave, Save, Drop, Go
  <2>2. OnlyOf(p) /\ LocalStep /\ FileStep
    BY <1>0, <2>1 DEF OnlyOf, LocalStep, FileStep
  <2>3. MemStep(p)
    BY <1>0, <2>1, WeakerCopies DEF MemStep
  <2>4. MoveStep(p)
    BY <1>0, <2>1 DEF MoveStep, HadIt, Working
  <2> QED
    BY <2>2, <2>3, <2>4, OneProgram
<1> QED
  BY <1>1, <1>2, <1>3, <1>4, <1>5, <1>6, <1>7, <1>8, <1>9, <1>10, <1>11
     DEF ClientStep

LEMMA OtherFootprint ==
    ASSUME TypeOK, PlaceInv
    PROVE  /\ \A p \in Client : Sigint(p) \/ MainKilled(p) \/ Killed(p)
                                  => Footprint
           /\ \A p \in Tool : ToolLoad(p) \/ ToolSave(p) => Footprint
<1> USE DEF Program
<1>0. /\ pc \in [Program -> Places]
      /\ mem \in [Program -> Metadata]
  BY DEF TypeOK, Places
<1>1. ASSUME NEW p \in Client, Sigint(p)
      PROVE  Footprint
  <2>1. /\ pc' = [pc EXCEPT ![p] = IF pc[p] \in MainPC THEN "hload" ELSE pc[p]]
        /\ UNCHANGED <<file, local, mem, cur, fate>>
    BY <1>1 DEF Sigint, Go
  <2>2. OnlyOf(p) /\ LocalStep /\ FileStep /\ MemStep(p)
    BY <1>0, <2>1 DEF OnlyOf, LocalStep, FileStep, MemStep, MainPC
  <2>3. MoveStep(p)
    BY <1>0, <2>1 DEF MoveStep, HadIt, Working, MainPC
  <2> QED
    BY <2>2, <2>3, OneProgram
<1>2. ASSUME NEW p \in Client, MainKilled(p)
      PROVE  Footprint
  BY <1>2, OneProgram DEF MainKilled, OnlyOf, LocalStep, FileStep, MemStep,
                          MoveStep, HadIt
<1>3. ASSUME NEW p \in Client, Killed(p)
      PROVE  Footprint
  <2>1. /\ pc' = [pc EXCEPT ![p] = "killed"]
        /\ mem' = [mem EXCEPT ![p] = NoCopy]
        /\ UNCHANGED <<file, local, cur, fate>>
    BY <1>3 DEF Killed, Go, Drop
  <2>2. OnlyOf(p) /\ LocalStep /\ FileStep
    BY <1>0, <2>1 DEF OnlyOf, LocalStep, FileStep
  <2>3. MemStep(p)
    BY <1>0, <2>1, WeakerCopies DEF MemStep
  <2>4. MoveStep(p)
    BY <1>0, <2>1 DEF MoveStep, HadIt
  <2> QED
    BY <2>2, <2>3, <2>4, OneProgram
<1>4. ASSUME NEW p \in Tool, ToolLoad(p)
      PROVE  Footprint
  <2>1. p \notin Client
    BY SharingAssumption
  <2>2. UNCHANGED <<file, local, cur, fate>>
    BY <1>4 DEF ToolLoad, Load
  <2>3. PICK there \in {"save", "refused"} : pc' = [pc EXCEPT ![p] = there]
    BY <1>4 DEF ToolLoad, Go
  <2>4. \/ mem' = mem
        \/ \E copy \in {ResetDownloadingChunks(file), ResetAllChunks(file),
                        CheckDataChunks(file, local)} :
             mem' = [mem EXCEPT ![p] = copy]
    BY <1>4 DEF ToolLoad, Load
  <2>5. MemStep(p)
    BY <1>0, <2>1, <2>4, WeakerCopies DEF MemStep
  <2>6. OnlyOf(p) /\ LocalStep /\ FileStep
    BY <1>0, <2>2, <2>3, <2>4 DEF OnlyOf, LocalStep, FileStep
  <2> QED
    BY <2>1, <2>5, <2>6, OneProgram
<1>5. ASSUME NEW p \in Tool, ToolSave(p)
      PROVE  Footprint
  <2>1. /\ pc' = [pc EXCEPT ![p] = "end"]
        /\ mem' = [mem EXCEPT ![p] = NoCopy]
        /\ file' = mem[p]
        /\ UNCHANGED <<local, cur, fate>>
        /\ p \notin Client
    BY <1>5, SharingAssumption DEF ToolSave, Save, Drop, Go
  <2>2. OnlyOf(p) /\ LocalStep /\ FileStep
    BY <1>0, <2>1 DEF OnlyOf, LocalStep, FileStep
  <2>3. MemStep(p)
    BY <1>0, <2>1, WeakerCopies DEF MemStep
  <2> QED
    BY <2>1, <2>2, <2>3, OneProgram
<1> QED
  BY <1>1, <1>2, <1>3, <1>4, <1>5

LEMMA StepFootprint ==
    ASSUME TypeOK, PlaceInv, [Next]_vars
    PROVE  Footprint
<1>1. CASE UNCHANGED vars
  BY <1>1 DEF vars, Footprint, LocalStep, FileStep, MemStep, MoveStep, HadIt
<1>2. CASE Next
  BY <1>2, ClientFootprint, OtherFootprint DEF Next
<1> QED
  BY <1>1, <1>2
-----------------------------------------------------------------------------
(* Truth about OK: what is loaded is as truthful as the file. *)
LEMMA OkStep ==
    ASSUME TypeOK, PlaceInv, OkInv, TypeOK', PlaceInv', Footprint
    PROVE  OkInv'
<1>1. ASSUME NEW info, Truthful(info, local)
      PROVE  Truthful(info, local')
  BY <1>1 DEF Truthful, Footprint, LocalStep
<1>2. Truthful(file'.info, local')
  BY <1>1 DEF Footprint, FileStep, OkInv
<1>3. ASSUME NEW p \in Program
      PROVE  Truthful(mem'[p].info, local')
  <2>1. CASE mem'[p] = mem[p]
    BY <1>1, <2>1 DEF OkInv
  <2>2. CASE Weaker(mem'[p].info, file.info)
    BY <1>1, <2>2 DEF OkInv, Weaker, Truthful
  <2>3. CASE /\ p \in Client /\ pc'[p] = "claim"
             /\ SameBut(mem'[p].info, file.info, cur'[p])
             /\ mem'[p].info[cur'[p]].status = "DOWNLOAD"
    BY <1>1, <2>3 DEF OkInv, SameBut, Truthful
  <2>4. CASE /\ p \in Client /\ pc[p] = "update"
             /\ SameBut(mem'[p].info, file.info, cur[p])
             /\ mem'[p].info[cur[p]] = [md5sum |-> MD5(cur[p]), status |-> "OK"]
    <3>1. local[cur[p]] = cur[p]
      BY <2>4 DEF OkInv
    <3>2. Truthful(mem'[p].info, local)
      BY <2>4, <3>1 DEF OkInv, SameBut, Truthful
    <3> QED
      BY <1>1, <3>2
  <2> QED
    BY <2>1, <2>2, <2>3, <2>4 DEF Footprint, MemStep
<1>4. ASSUME NEW p \in Client, pc'[p] \in {"update", "commit"}
      PROVE  local'[cur'[p]] = cur'[p]
  <2>1. /\ cur'[p] = cur[p]
        /\ pc[p] \in {"update", "commit"} \/ local'[cur[p]] = cur[p]
    BY <1>4 DEF Footprint, MoveStep
  <2>2. cur'[p] \in Chunk
    BY <1>4 DEF PlaceInv, Working
  <2> QED
    BY <2>1, <2>2 DEF OkInv, Footprint, LocalStep
<1> QED
  BY <1>2, <1>3, <1>4 DEF OkInv

(* A chunk once accounted for stays so. *)
LEMMA AccountedStays ==
    ASSUME TypeOK, PlaceInv, OkInv, Footprint, NEW c \in Chunk, Accounted(c)
    PROVE  Accounted(c)'
<1>1. CASE local[c] = c
  BY <1>1 DEF Footprint, LocalStep, Accounted
<1>2. ASSUME NEW p \in Client, cur[p] = c, HadIt(p)
      PROVE  Accounted(c)'
  <2>1. CASE pc[p] = "commit"
    BY <1>1, <1>2, <2>1 DEF OkInv
  <2>2. CASE HadIt(p)' /\ cur'[p] = cur[p]
    BY <1>2, <2>2 DEF Accounted
  <2> QED
    BY <1>2, <2>1, <2>2 DEF Footprint, MoveStep
<1> QED
  BY <1>1, <1>2 DEF Accounted

LEMMA MarkStep ==
    ASSUME TypeOK, PlaceInv, OkInv, MarkInv, Footprint
    PROVE  MarkInv'
<1> SUFFICES ASSUME NEW c \in Chunk
             PROVE  /\ file'.info[c].status # "UPLOAD"
                    /\ file'.info[c].status = "DOWNLOAD" => Accounted(c)'
                    /\ \A p \in Program :
                         /\ mem'[p].info[c].status # "UPLOAD"
                         /\ mem'[p].info[c].status = "DOWNLOAD" =>
                              \/ Accounted(c)'
                              \/ p \in Client /\ pc'[p] = "claim" /\ cur'[p] = c
  BY DEF MarkInv
<1>0. Accounted(c) => Accounted(c)'
  BY AccountedStays
<1>1. /\ file'.info[c].status # "UPLOAD"
      /\ file'.info[c].status = "DOWNLOAD" => Accounted(c)'
  <2>1. CASE file'.info = file.info
    BY <1>0, <2>1 DEF MarkInv
  <2>2. ASSUME NEW p \in Program, file'.info = mem[p].info,
               p \in Client /\ pc[p] = "claim" =>
                 pc'[p] = "fetch" /\ cur'[p] = cur[p]
        PROVE  /\ file'.info[c].status # "UPLOAD"
               /\ file'.info[c].status = "DOWNLOAD" => Accounted(c)'
    <3>1. CASE p \in Client /\ pc[p] = "claim" /\ cur[p] = c
      <4>1. HadIt(p)' /\ cur'[p] = c
        BY <2>2, <3>1 DEF HadIt, Working
      <4>2. Accounted(c)'
        BY <3>1, <4>1 DEF Accounted
      <4> QED
        BY <2>2, <4>2 DEF MarkInv
    <3>2. CASE ~(p \in Client /\ pc[p] = "claim" /\ cur[p] = c)
      BY <1>0, <2>2, <3>2 DEF MarkInv
    <3> QED
      BY <3>1, <3>2
  <2> QED
    BY <2>1, <2>2 DEF Footprint, FileStep
<1>2. ASSUME NEW p \in Program
      PROVE  /\ mem'[p].info[c].status # "UPLOAD"
             /\ mem'[p].info[c].status = "DOWNLOAD" =>
                  \/ Accounted(c)'
                  \/ p \in Client /\ pc'[p] = "claim" /\ cur'[p] = c
  <2>1. CASE /\ mem'[p] = mem[p]
             /\ p \in Client /\ pc[p] = "claim" =>
                  pc'[p] = "claim" /\ cur'[p] = cur[p]
    BY <1>0, <2>1 DEF MarkInv
  <2>2. CASE Weaker(mem'[p].info, file.info)
    BY <1>0, <2>2 DEF MarkInv, Weaker
  <2>3. CASE /\ p \in Client /\ pc'[p] = "claim"
             /\ SameBut(mem'[p].info, file.info, cur'[p])
             /\ mem'[p].info[cur'[p]].status = "DOWNLOAD"
    BY <1>0, <2>3 DEF MarkInv, SameBut
  <2>4. CASE /\ p \in Client /\ pc[p] = "update"
             /\ SameBut(mem'[p].info, file.info, cur[p])
             /\ mem'[p].info[cur[p]] = [md5sum |-> MD5(cur[p]), status |-> "OK"]
    BY <1>0, <2>4 DEF MarkInv, SameBut
  <2> QED
    BY <2>1, <2>2, <2>3, <2>4 DEF Footprint, MemStep
<1> QED
  BY <1>1, <1>2

(* Nothing left to claim: every chunk is recorded or marked. *)
LEMMA DrainStep ==
    ASSUME TypeOK, PlaceInv, OkInv, MarkInv, DrainInv, Footprint
    PROVE  DrainInv'
<1> SUFFICES ASSUME NEW p \in Client, fate'[p] = "drained", NEW c \in Chunk
             PROVE  Accounted(c)'
  BY DEF DrainInv
<1>1. CASE fate[p] = "drained"
  BY <1>1, AccountedStays DEF DrainInv
<1>2. CASE Claimable(file.info) = {}
  <2>1. file.info[c].status \in {"OK", "DOWNLOAD", "UPLOAD"}
    BY <1>2 DEF Claimable
  <2>2. Accounted(c)
    BY <2>1 DEF MarkInv, OkInv, Truthful, Accounted
  <2> QED
    BY <2>2, AccountedStays
<1> QED
  BY <1>1, <1>2 DEF Footprint, MoveStep

LEMMA StepInv == SharingInv /\ [Next]_vars => SharingInv'
<1> SUFFICES ASSUME SharingInv, [Next]_vars
             PROVE  SharingInv'
  OBVIOUS
<1>1. TypeOK' /\ PlaceInv'
  BY TypeStep DEF SharingInv
<1>2. Footprint
  BY StepFootprint DEF SharingInv
<1> QED
  BY <1>1, <1>2, OkStep, MarkStep, DrainStep DEF SharingInv

(* The inductive invariant holds of every behaviour. *)
THEOREM SharingIsSafe == Spec => []SharingInv
BY InitInv, StepInv, PTL DEF Spec

(***************************************************************************)
(* However many programs save old arrays over one another's records, a     *)
(* chunk recorded as OK is in the local file: a stale copy is still        *)
(* truthful, because a stored chunk is never overwritten.                  *)
(***************************************************************************)
THEOREM RecordedIsStored == Spec => []OkMeansData
<1>1. SharingInv => OkMeansData
  BY DEF SharingInv, OkInv, Truthful, OkMeansData
<1> QED
  BY <1>1, SharingIsSafe, PTL

(***************************************************************************)
(* A chunk that every client skips is stored, or one of them has it, or    *)
(* lost it when it was killed or its connection broke.                     *)
(***************************************************************************)
THEOREM MarksAreAccounted == Spec => []MarkedIsAccounted
<1>1. SharingInv => MarkedIsAccounted
  BY DEF SharingInv, MarkInv, Accounted, MarkedIsAccounted
<1> QED
  BY <1>1, SharingIsSafe, PTL

(***************************************************************************)
(* When all clients have ended without failure and one of them found       *)
(* nothing left to do, the file is whole.                                  *)
(***************************************************************************)
THEOREM SharedFileIsWhole == Spec => []SharedIsWhole
<1>1. SharingInv => SharedIsWhole
  <2> SUFFICES ASSUME SharingInv,
                      \A p \in Client : /\ pc[p] \in Over /\ pc[p] # "killed"
                                        /\ fate[p] # "failed",
                      \E p \in Client : fate[p] = "drained",
                      NEW c \in Chunk
               PROVE  local[c] = c
    BY DEF SharedIsWhole
  <2>1. Accounted(c)
    BY DEF SharingInv, DrainInv
  <2>2. \A p \in Client : ~HadIt(p)
    BY DEF HadIt, Over, Working
  <2> QED
    BY <2>1, <2>2 DEF Accounted
<1> QED
  BY <1>1, SharingIsSafe, PTL
=============================================================================
