--------------------------- MODULE MhRepairProofs ---------------------------
(***************************************************************************)
(* Why a disk that failed can be repaired: the safety of MhRepair, for     *)
(* every number of chunks and connections, of sessions, of signals and of  *)
(* power failures.  What a session of mhclient keeps comes from the layers *)
(* of MhDownloadProofs and MhLedgerProofs; what it does not keep over a    *)
(* power failure is proved again here from less.                           *)
(***************************************************************************)
EXTENDS MhRepair, MhLedgerProofs

(* Every entry of a copy of the metadata is honest. *)
HonestCopy(info) == \A c \in Chunk : Honest(info[c], c)

LEMMA HonestFresh == HonestCopy(InitControlData) /\ HonestCopy(NoCopy.info)
BY DEF HonestCopy, Honest, InitControlData, NoCopy

(* What mhstatus and the handler make of an honest copy is honest. *)
LEMMA HonestRepair ==
    ASSUME NEW meta \in Metadata, HonestCopy(meta.info), NEW data
    PROVE  /\ HonestCopy(ResetDownloadingChunks(meta).info)
           /\ HonestCopy(ResetAllChunks(meta).info)
           /\ HonestCopy(CheckDataChunks(meta, data).info)
<1> DEFINE reset == ResetDownloadingChunks(meta).info
           all == ResetAllChunks(meta).info
           check == CheckDataChunks(meta, data).info
<1>1. \A c \in Chunk :
          /\ reset[c].md5sum = meta.info[c].md5sum
          /\ reset[c].status = IF meta.info[c].status \in {"DOWNLOAD", "ERROR"}
                               THEN "PENDING" ELSE meta.info[c].status
  BY ResetDownloadingType
<1>2. \A c \in Chunk : all[c].status = "PENDING"
  BY ResetAllType
<1>3. \A c \in Chunk : check[c] = meta.info[c] \/ check[c].status = "ERROR"
  BY CheckType
<1> HIDE DEF reset, all, check
<1>4. HonestCopy(reset) /\ HonestCopy(all) /\ HonestCopy(check)
  BY <1>1, <1>2, <1>3 DEF HonestCopy, Honest
<1> QED
  BY <1>4 DEF reset, all, check

(* The copies of the metadata that the processes have, and the file. *)
HonestNow ==
    /\ HonestCopy(file.info)
    /\ HonestCopy(mmem.info)
    /\ \A w \in Link : HonestCopy(wmem[w])

(* A copy moves to the file, or is dropped, or is made from the file. *)
LEMMA HonestMoves ==
    ASSUME HonestNow,
           \/ file'.info = file.info
           \/ file'.info = mmem.info
           \/ \E w \in Link : file'.info = wmem[w]
           \/ HonestCopy(file'.info),
           mmem' = mmem \/ mmem' = NoCopy \/ HonestCopy(mmem'.info),
           \A w \in Link : \/ wmem'[w] = wmem[w]
                           \/ wmem'[w] = InitControlData
                           \/ HonestCopy(wmem'[w])
    PROVE  HonestNow'
<1>1. HonestCopy(file'.info)
  BY DEF HonestNow
<1>2. HonestCopy(mmem'.info)
  BY HonestFresh DEF HonestNow
<1>3. \A w \in Link : HonestCopy(wmem'[w])
  BY HonestFresh DEF HonestNow
<1> QED
  BY <1>1, <1>2, <1>3 DEF HonestNow, HonestCopy, Honest

(* A worker's step, which touches no copy but its own and the file. *)
LEMMA HonestWorker ==
    ASSUME TypeOK, LinkInv, HonestNow, IdleInv, NEW w \in Link, WorkerStep(w)
    PROVE  HonestNow' /\ IdleInv'
<1>m. file \in Metadata /\ file.info \in ControlData
  BY DEF TypeOK, Metadata
<1>0. UNCHANGED <<mmem, main>>
  BY DEF WorkerStep, WorkerStart, AcquireForClaim, CommitClaim, RequestChunk,
         ReceiveChunk, ReceiveFails, StoreChunk, AcquireForUpdate, CommitUpdate
<1>1. ASSUME UNCHANGED <<file, wmem>>, NEW p, p \notin Critical,
             wpc' = [wpc EXCEPT ![w] = p], wpc[w] \notin Critical
      PROVE  HonestNow' /\ IdleInv'
  BY <1>0, <1>1, HonestMoves DEF IdleInv, TypeOK
<1>2. ASSUME UNCHANGED file, Die(w)
      PROVE  HonestNow' /\ IdleInv'
  <2>1. \A v \in Link : wmem'[v] = wmem[v] \/ wmem'[v] = InitControlData
    BY <1>2 DEF Die, TypeOK
  <2>2. IdleInv'
    BY <1>0, <1>2 DEF IdleInv, Die, TypeOK
  <2> QED
    BY <1>0, <1>2, <2>1, <2>2, HonestMoves
<1>3. ASSUME UNCHANGED file, NEW image, HonestCopy(image),
             wmem' = [wmem EXCEPT ![w] = image], NEW p \in Critical,
             wpc' = [wpc EXCEPT ![w] = p]
      PROVE  HonestNow' /\ IdleInv'
  <2>1. \A v \in Link : wmem'[v] = wmem[v] \/ HonestCopy(wmem'[v])
    BY <1>3 DEF TypeOK
  <2>2. IdleInv'
    BY <1>0, <1>3 DEF IdleInv, TypeOK
  <2> QED
    BY <1>0, <1>3, <2>1, <2>2, HonestMoves
<1>4. ASSUME WriteAndRelease(w), NEW p, wpc' = [wpc EXCEPT ![w] = p]
      PROVE  HonestNow' /\ IdleInv'
  <2>1. file'.info = wmem[w]
    BY <1>4, <1>m DEF WriteAndRelease, Metadata
  <2>2. \A v \in Link : wmem'[v] = wmem[v] \/ wmem'[v] = InitControlData
    BY <1>4 DEF WriteAndRelease, TypeOK
  <2>3. IdleInv'
    BY <1>0, <1>4 DEF WriteAndRelease, IdleInv, TypeOK
  <2> QED
    BY <1>0, <2>1, <2>2, <2>3, HonestMoves
<1>5. CASE WorkerStart(w) \/ RequestChunk(w)
  BY <1>1, <1>2, <1>5 DEF WorkerStart, RequestChunk, Critical
<1>6. CASE ReceiveChunk(w) \/ ReceiveFails(w) \/ StoreChunk(w)
  BY <1>1, <1>6 DEF ReceiveChunk, ReceiveFails, StoreChunk, Critical
<1>7. CASE CommitClaim(w) \/ CommitUpdate(w)
  <2> DEFINE p == IF wpc[w] = "commitErr" THEN "failed"
                  ELSE IF killProc = 0 THEN "top" ELSE "stopped"
  <2>1. CASE CommitClaim(w)
    BY <1>4, <2>1 DEF CommitClaim
  <2>2. CASE CommitUpdate(w)
    <3>1. WriteAndRelease(w) /\ wpc' = [wpc EXCEPT ![w] = p]
      BY <2>2 DEF CommitUpdate
    <3> QED
      BY <1>4, <3>1
  <2> QED
    BY <1>7, <2>1, <2>2
<1>8. CASE AcquireForClaim(w)
  <2> DEFINE c == NextPendingChunk(file.info)
             image == SetStatus(file.info, c, "DOWNLOAD")
  <2>1. CASE c = -1
    BY <1>1, <1>8, <2>1 DEF AcquireForClaim, Critical
  <2>2. CASE c # -1
    <3>1. c \in Chunk
      BY <2>2, NextPendingChunkIsClaimable DEF Claimable
    <3>2. /\ image[c].status = "DOWNLOAD"
          /\ \A d \in Chunk : d # c => image[d] = file.info[d]
      BY <1>m, <3>1, SetStatusType DEF ChunkStatus
    <3>3. HonestCopy(image)
      <4> HIDE DEF image, c
      <4> QED
        BY <3>2 DEF HonestCopy, Honest, HonestNow
    <3>4. /\ UNCHANGED file
          /\ wmem' = [wmem EXCEPT ![w] = image]
          /\ wpc' = [wpc EXCEPT ![w] = "claim"]
      BY <1>8, <2>2 DEF AcquireForClaim
    <3> QED
      BY <1>3, <3>3, <3>4 DEF Critical
  <2> QED
    BY <2>1, <2>2
<1>9. CASE AcquireForUpdate(w)
  <2> DEFINE s == IF wpc[w] = "ok" THEN "OK" ELSE "ERROR"
             p == IF wpc[w] = "ok" THEN "commitOk" ELSE "commitErr"
             image == SetChunk(file.info, cur[w], s, rcv[w].md5sum)
  <2>1. /\ cur[w] \in Chunk /\ rcv[w].md5sum \in Digest
        /\ wpc[w] = "ok" => rcv[w].md5sum = MD5(cur[w])
    BY <1>9, AnswerType
       DEF AcquireForUpdate, LinkInv, Working, TypeOK, Response
  <2>2. /\ image[cur[w]] = [md5sum |-> rcv[w].md5sum, status |-> s]
        /\ \A d \in Chunk : d # cur[w] => image[d] = file.info[d]
    BY <1>m, <2>1, SetChunkType DEF ChunkStatus
  <2>3. HonestCopy(image)
    <3>1. Honest(image[cur[w]], cur[w])
      BY <2>1, <2>2 DEF Honest
    <3> HIDE DEF image
    <3> QED
      BY <2>2, <3>1 DEF HonestCopy, HonestNow
  <2>4. /\ UNCHANGED file
        /\ wmem' = [wmem EXCEPT ![w] = image]
        /\ wpc' = [wpc EXCEPT ![w] = p] /\ p \in Critical
    BY <1>9 DEF AcquireForUpdate, Critical
  <2> HIDE DEF image, p
  <2> QED
    BY <1>3, <2>3, <2>4
<1> QED
  BY <1>5, <1>6, <1>7, <1>8, <1>9 DEF WorkerStep

LEMMA HonestStep ==
    ASSUME TypeOK, LinkInv, HonestNow, IdleInv, [Next]_vars
    PROVE  HonestNow' /\ IdleInv'
<1>m. file \in Metadata /\ HonestCopy(file.info)
  BY DEF TypeOK, HonestNow
<1>1. ASSUME \/ file'.info = file.info
             \/ HonestCopy(file'.info),
             UNCHANGED <<mmem, wmem, wpc>>,
             main' = main \/ main \notin Handler
      PROVE  HonestNow' /\ IdleInv'
  BY <1>1, HonestMoves DEF IdleInv
<1>2. CASE MainStep
  <2>1. /\ file'.info = file.info /\ UNCHANGED <<mmem, wmem, wpc>>
        /\ main \notin Handler
    BY <1>2 DEF Handler, MainStep, MainBegin, ForkMonitor, MainFinish, MainEnd,
                TypeOK, Metadata
  <2> QED
    BY <1>1, <2>1
<1>3. CASE HandlerWaited
  <2>1. UNCHANGED <<file, mmem, wmem, wpc>> /\ main' \in Handler
    BY <1>3 DEF HandlerWaited, Handler
  <2> QED
    BY <2>1, HonestMoves DEF IdleInv
<1>4. CASE HandlerLoad
  <2>1. HonestCopy(mmem'.info)
    BY <1>m, <1>4, HonestRepair DEF HandlerLoad
  <2>2. UNCHANGED <<file, wmem, wpc>> /\ main' = "hsave"
    BY <1>4 DEF HandlerLoad
  <2> QED
    BY <2>1, <2>2, HonestMoves DEF IdleInv, Handler
<1>5. CASE HandlerSave
  <2>1. file' = mmem /\ mmem' = NoCopy /\ UNCHANGED <<wmem, wpc>>
    BY <1>5 DEF HandlerSave
  <2> QED
    BY <2>1, HonestMoves DEF IdleInv
<1>6. CASE MonitorTurn \/ CloseConnections \/ UNCHANGED vars
  <2>1. UNCHANGED <<file, mmem, wmem, wpc, main>>
    BY <1>6 DEF MonitorTurn, CloseConnections, procVars, vars
  <2> QED
    BY <1>1, <2>1
<1>7. CASE Sigint
  <2>1. UNCHANGED <<file, mmem, wmem, wpc>> /\ main' \in Handler
    BY <1>7 DEF Sigint, Handler
  <2> QED
    BY <2>1, HonestMoves DEF IdleInv, Handler
<1>8. ASSUME NEW w \in Link, ForkWorker(w)
      PROVE  HonestNow' /\ IdleInv'
  BY <1>8, HonestMoves DEF ForkWorker, IdleInv, TypeOK, Critical
<1>9. ASSUME NEW w \in Link, WorkerStep(w)
      PROVE  HonestNow' /\ IdleInv'
  BY <1>9, HonestWorker
<1>10. ASSUME NEW w \in Link, WorkerKilled(w) \/ LastWrite(w)
       PROVE  HonestNow' /\ IdleInv'
  <2>1. Die(w) /\ UNCHANGED <<mmem, main>>
    BY <1>10 DEF WorkerKilled, LastWrite
  <2>2. file'.info = file.info \/ file'.info = wmem[w]
    BY <1>10, <1>m DEF WorkerKilled, LastWrite, Metadata
  <2>3. \A v \in Link : wmem'[v] = wmem[v] \/ wmem'[v] = InitControlData
    BY <2>1 DEF Die, TypeOK
  <2>4. IdleInv'
    BY <2>1 DEF Die, IdleInv, TypeOK
  <2> QED
    BY <2>1, <2>2, <2>3, <2>4, HonestMoves
<1>11. ASSUME NEW l \in Link, ServerStep(l) \/ LinkBreaks(l)
       PROVE  HonestNow' /\ IdleInv'
  <2>1. UNCHANGED <<file, mmem, wmem, wpc, main>>
    BY <1>11 DEF ServerStep, LinkBreaks, procVars
  <2> QED
    BY <1>1, <2>1
<1>12. CASE Crash \/ Rerun
  <2>1. /\ file' = file /\ mmem' = NoCopy
        /\ \A w \in Link : wmem'[w] = InitControlData
    BY <1>12 DEF Crash, Rerun
  <2> QED
    BY <2>1, HonestMoves DEF IdleInv
<1>13. CASE Status
  <2>1. HonestCopy(file'.info)
    BY <1>m, <1>13, HonestRepair
       DEF Status, StatusRecover, StatusReset, StatusCheck
  <2>2. UNCHANGED <<mmem, wmem, wpc, main>>
    BY <1>13 DEF Status, StatusRecover, StatusReset, StatusCheck, procVars
  <2> QED
    BY <1>1, <2>1, <2>2
<1> QED
  BY <1>2, <1>3, <1>4, <1>5, <1>6, <1>7, <1>8, <1>9, <1>10, <1>11, <1>12, <1>13
     DEF Next, HandlerStep
-----------------------------------------------------------------------------
(* What main is about to write, over a power failure too. *)
LEMMA CopyStep ==
    ASSUME TypeOK, HonestCopy(file.info), CopyInv, [Next]_vars
    PROVE  CopyInv'
<1>1. CASE HandlerLoad
  <2>1. file \in Metadata /\ mmem' = ResetDownloadingChunks(file)
    BY <1>1 DEF HandlerLoad, TypeOK
  <2>2. ASSUME NEW c \in Chunk
        PROVE  mmem'.info[c].status \in {"OK", "PENDING"}
    <3>1. file.info[c].status \in {"OK", "PENDING", "ERROR", "DOWNLOAD"}
      BY DEF TypeOK, Metadata, ControlData, ChunkInfo, ChunkStatus, HonestCopy,
             Honest
    <3> QED
      BY <2>1, <3>1, ResetDownloadingType
  <2> QED
    BY <2>1, <2>2, ResetDownloadingType DEF CopyInv
<1>2. ASSUME main' # "hsave" \/ UNCHANGED <<main, mmem>>
      PROVE  CopyInv'
  BY <1>2 DEF CopyInv
<1>3. CASE MainStep \/ HandlerWaited \/ HandlerSave \/ Sigint \/ Crash \/ Rerun
  BY <1>2, <1>3 DEF MainStep, MainBegin, ForkMonitor, MainFinish, MainEnd,
                    HandlerWaited, HandlerSave, Sigint, Crash, Rerun
<1>4. ASSUME NEW w \in Link,
             ForkWorker(w) \/ WorkerStep(w) \/ WorkerKilled(w) \/ LastWrite(w)
      PROVE  UNCHANGED <<main, mmem>>
  BY <1>4 DEF ForkWorker, WorkerStep, WorkerStart, AcquireForClaim, CommitClaim,
              RequestChunk, ReceiveChunk, ReceiveFails, StoreChunk,
              AcquireForUpdate, CommitUpdate, WorkerKilled, LastWrite
<1>5. ASSUME NEW l \in Link, ServerStep(l) \/ LinkBreaks(l)
      PROVE  UNCHANGED <<main, mmem>>
  BY <1>5 DEF ServerStep, LinkBreaks, procVars
<1>6. CASE MonitorTurn \/ CloseConnections \/ Status \/ UNCHANGED vars
  BY <1>2, <1>6 DEF MonitorTurn, CloseConnections, Status, StatusRecover,
                    StatusReset, StatusCheck, procVars, vars
<1> QED
  BY <1>1, <1>2, <1>3, <1>4, <1>5, <1>6 DEF Next, HandlerStep
-----------------------------------------------------------------------------
(* What the pages of the files may hold after a power failure. *)
PastInv ==
    /\ \A c \in Chunk : /\ pastInfo[c] \subseteq ChunkInfo
                        /\ \A entry \in pastInfo[c] : Honest(entry, c)
                        /\ pastData[c] \subseteq Data
    /\ pastUse \subseteq InUse
    /\ outages \in 0 .. MaxOutages

(* What no failure of the disk takes away. *)
Sound ==
    /\ Layer1 /\ Layer2
    /\ HonestNow /\ IdleInv /\ PastInv
    /\ SignalInv /\ CopyInv /\ NothingForgotten

LEMMA HonestStatus == ASSUME HonestNow PROVE StatusInv
BY DEF HonestNow, HonestCopy, Honest, StatusInv, NoUpload

(* The steps of mhclient and mhstatus, as MhDownload has them. *)
LEMMA ProgramStep ==
    ASSUME ChunksFitWire, Sound, [Next]_vars
    PROVE  /\ Layer1' /\ Layer2' /\ HonestNow' /\ IdleInv'
           /\ SignalInv' /\ CopyInv' /\ NothingForgotten'
           /\ OkInv => OkInv'
           /\ DownloadHasOwner => DownloadHasOwner'
<1> USE DEF Sound
<1>1. Layer1' /\ Layer2'
  BY Step1, Step2
<1>2. HonestNow' /\ IdleInv'
  BY HonestStep DEF Layer1
<1>3. SignalInv' /\ CopyInv'
  BY StepSignal, CopyStep DEF Layer1, HonestNow
<1>4. NothingForgotten'
  BY HonestStatus, StepForgotten
<1>5. OkInv => OkInv'
  BY HonestStatus, Step3 DEF Layer3
<1>6. DownloadHasOwner => DownloadHasOwner'
  BY StepOwner
<1> QED
  BY <1>1, <1>2, <1>3, <1>4, <1>5, <1>6

LEMMA EntryTypes ==
    ASSUME TypeOK
    PROVE  \A c \in Chunk : file.info[c] \in ChunkInfo /\ local[c] \in Data
BY DEF TypeOK, Metadata, ControlData

LEMMA PastStep ==
    ASSUME PastInv, Remember, TypeOK', HonestNow'
    PROVE  PastInv'
<1>1. \A c \in Chunk : file'.info[c] \in ChunkInfo /\ local'[c] \in Data
  BY DEF TypeOK, Metadata, ControlData
<1>2. \A c \in Chunk : Honest(file'.info[c], c)
  BY DEF HonestNow, HonestCopy, Honest
<1>3. file'.inUse \in InUse
  BY DEF TypeOK, Metadata
<1>4. ASSUME NEW c \in Chunk
      PROVE  /\ pastInfo'[c] = pastInfo[c] \cup {file'.info[c]}
             /\ pastData'[c] = pastData[c] \cup {local'[c]}
  BY DEF Remember
<1>5. ASSUME NEW c \in Chunk
      PROVE  /\ pastInfo'[c] \subseteq ChunkInfo
             /\ pastData'[c] \subseteq Data
             /\ \A entry \in pastInfo'[c] : Honest(entry, c)
  BY <1>1, <1>2, <1>4 DEF PastInv
<1>6. pastUse' \subseteq InUse /\ outages' = outages
  BY <1>3 DEF Remember, PastInv
<1> QED
  BY <1>5, <1>6 DEF PastInv, Honest

(* A write that the disk refuses: the worker goes on as if it had not. *)
LEMMA RefusedStep ==
    ASSUME Sound, NEW w \in Link, StoreRefused(w)
    PROVE  Sound'
<1> USE DEF Sound
<1>1. /\ wpc[w] = "store" /\ wpc' = [wpc EXCEPT ![w] = "ok"]
      /\ UNCHANGED <<linkVars, file, sem, killProc, main, mmem, mon, wmem, cur,
                     rcv, session, stale>>
      /\ Remember
  BY DEF StoreRefused
<1>2. local' \in [Chunk -> Data]
  BY DEF StoreRefused, Layer1, TypeOK, Data
<1>3. Layer1'
  <2>1. TypeOK'
    BY <1>1, <1>2 DEF Layer1, TypeOK, LinkTypeOK, linkVars, WorkerPC, Working
  <2>2. LockInv'
    BY <1>1 DEF Layer1, TypeOK, LockInv, Critical
  <2>3. LinkInv'
    BY <1>1 DEF Layer1, TypeOK, LinkInv, linkVars, Working
  <2> QED
    BY <2>1, <2>2, <2>3 DEF Layer1
<1>4. Layer2'
  BY <1>1, Move2 DEF Layer1, Alive, Ended, WorkerPC, Working, Critical
<1>5. HonestNow' /\ IdleInv'
  BY <1>1, HonestMoves DEF IdleInv, Layer1, TypeOK, Critical
<1>6. PastInv'
  BY <1>1, <1>3, <1>5, PastStep DEF Layer1
<1>7. SignalInv' /\ CopyInv'
  BY <1>1 DEF SignalInv, CopyInv
<1>8. NothingForgotten'
  <2>1. ~SessionOver
    BY <1>1 DEF SessionOver, Alive, Ended
  <2>2. \A v \in Link : /\ wpc'[v] = "drained" => wpc[v] = "drained"
                        /\ wpc[v] = "failed" => wpc'[v] = "failed"
    BY <1>1 DEF Layer1, TypeOK
  <2> QED
    BY <1>1, <2>1, <2>2, Forgotten5
<1> QED
  BY <1>3, <1>4, <1>5, <1>6, <1>7, <1>8

(* Every page that comes back holds a value that it has had. *)
LEMMA OneEachKeeps ==
    ASSUME NEW values, NEW f \in OneEach(values)
    PROVE  \A c \in Chunk : f[c] \in values[c]
BY DEF OneEach

LEMMA OneEachType ==
    ASSUME NEW values, NEW S, \A c \in Chunk : values[c] \subseteq S,
           NEW f \in OneEach(values)
    PROVE  f \in [Chunk -> S]
BY DEF OneEach

LEMMA PowerStep ==
    ASSUME Sound, PowerFailure
    PROVE  Sound' /\ SessionOver'
<1> USE DEF Sound
<1>1. PICK info \in OneEach(pastInfo), use \in pastUse :
          file' = [inUse |-> use, info |-> info]
  BY DEF PowerFailure
<1>2. /\ local' \in OneEach(pastData)
      /\ conn' = [l \in Link |-> "closed"]
      /\ main' = "crashed" /\ mmem' = NoCopy /\ mon' = MonitorOff
      /\ wpc' = [w \in Link |-> IF Alive(w) THEN "killed" ELSE wpc[w]]
      /\ wmem' = [w \in Link |-> InitControlData]
      /\ sem' = 1
      /\ UNCHANGED <<cmd, req, rsp, srv, killProc, cur, rcv, session, stale>>
  BY DEF PowerFailure
<1>3. /\ info \in ControlData /\ file' \in Metadata /\ local' \in [Chunk -> Data]
      /\ \A c \in Chunk : Honest(info[c], c)
  <2>1. info \in [Chunk -> ChunkInfo] /\ local' \in [Chunk -> Data]
    BY <1>2, OneEachType DEF PastInv
  <2>2. \A c \in Chunk : Honest(info[c], c)
    BY OneEachKeeps DEF PastInv
  <2> QED
    BY <1>1, <2>1, <2>2 DEF ControlData, Metadata, PastInv
<1>4. \A w \in Link : /\ wpc'[w] \in Ended \cup {"none"}
                      /\ wpc'[w] = "killed" \/ wpc'[w] = wpc[w]
                      /\ wmem'[w] = InitControlData
  BY <1>2 DEF Alive, Ended
<1>5. SessionOver'
  BY <1>2, <1>4 DEF SessionOver, Over, MonitorOff, Alive
<1>6. Layer1'
  <2>1. TypeOK'
    BY <1>2, <1>3, <1>4, InitialType
       DEF Layer1, TypeOK, LinkTypeOK, WorkerPC, Ended, MainPC, Over, MonitorOff,
           NoCopy, Metadata, InUse
  <2>2. LockInv'
    BY <1>4 DEF LockInv, Critical, Ended
  <2>3. LinkInv'
    BY <1>2, <1>4 DEF Layer1, LinkInv, Working, Ended
  <2> QED
    BY <2>1, <2>2, <2>3 DEF Layer1
<1>7. Layer2'
  BY <1>4 DEF Layer2, PhaseInv, ClaimInv, ImageInv, ExclusiveClaim, Alive,
              Ended, Working, Critical
<1>8. HonestNow' /\ IdleInv'
  <2>1. HonestCopy(file'.info)
    BY <1>1, <1>3 DEF HonestCopy
  <2> QED
    BY <1>2, <1>4, <2>1, HonestMoves DEF IdleInv
<1>9. PastInv'
  <2>1. ASSUME NEW c \in Chunk
        PROVE  /\ pastInfo'[c] = {info[c]} /\ pastData'[c] = {local'[c]}
               /\ info[c] \in ChunkInfo /\ local'[c] \in Data
    BY <1>1, <1>3 DEF PowerFailure, ControlData
  <2>2. pastUse' \subseteq InUse
    BY <1>1 DEF PowerFailure, PastInv
  <2>3. outages' \in 0 .. MaxOutages
    BY RepairAssumption DEF PowerFailure, PastInv
  <2> QED
    BY <1>3, <2>1, <2>2, <2>3 DEF PastInv, Honest
<1>10. SignalInv' /\ CopyInv' /\ NothingForgotten'
  BY <1>2, <1>5 DEF SignalInv, CopyInv, NothingForgotten, Handler
<1> QED
  BY <1>5, <1>6, <1>7, <1>8, <1>9, <1>10
-----------------------------------------------------------------------------
(* mhclient was given a host: with none, no chunk is transferred. *)
SomeHost == Link # {}

(* What the user may rely on, and until when. *)
History ==
    /\ {recovered, checked, ready} \subseteq BOOLEAN
    /\ checked => OkInv
    /\ RecoveredInv
    /\ ReadyInv
    /\ SomeHost => RepairedIsWhole

LEMMA RepairStarts == RepairInit => Sound /\ History
<1> SUFFICES ASSUME RepairInit PROVE Sound /\ History
  OBVIOUS
<1>0. Init
  BY DEF RepairInit
<1>1. Layer1 /\ Layer2 /\ Layer4 /\ Layer5
  BY <1>0, Init1, Init2, Init4, Init5
<1>2. HonestNow /\ IdleInv
  BY <1>0, HonestFresh DEF Init, ProcInit, HonestNow, IdleInv
<1>3. PastInv
  <2>1. \A c \in Chunk : file.info[c] \in ChunkInfo /\ local[c] \in Data
    BY <1>1, EntryTypes DEF Layer1
  <2>2. \A c \in Chunk : Honest(file.info[c], c)
    BY <1>2 DEF HonestNow, HonestCopy
  <2>3. \A c \in Chunk : /\ pastInfo[c] = {file.info[c]}
                         /\ pastData[c] = {local[c]}
    BY DEF RepairInit
  <2>4. pastUse \subseteq InUse /\ outages \in 0 .. MaxOutages
    BY <1>1, RepairAssumption DEF RepairInit, Layer1, TypeOK, Metadata
  <2> QED
    BY <2>1, <2>2, <2>3, <2>4 DEF PastInv
<1>4. History
  BY DEF RepairInit, History, RecoveredInv, ReadyInv, RepairedIsWhole
<1> QED
  BY <1>1, <1>2, <1>3, <1>4 DEF Sound, Layer4, Layer5

(* A --check that saves leaves as OK only chunks that are stored. *)
LEMMA CheckIsRight ==
    ASSUME Sound, StatusCheck, file.inUse = 0
    PROVE  OkInv'
<1> USE DEF Sound
<1>1. /\ file' = CheckDataChunks(file, local) /\ SessionOver
      /\ UNCHANGED <<procVars, local>>
  BY DEF StatusCheck
<1>2. Truthful(file.info)'
  <2> SUFFICES ASSUME NEW c \in Chunk, file'.info[c].status = "OK"
               PROVE  local[c] = c /\ file'.info[c].md5sum = MD5(c)
    BY <1>1 DEF Truthful
  <2>1. /\ file.info[c].status = "OK" /\ MD5(local[c]) = file.info[c].md5sum
        /\ file'.info[c] = file.info[c]
    BY <1>1 DEF CheckDataChunks, Layer1, TypeOK, Metadata, ControlData, ChunkInfo
  <2>2. file.info[c].md5sum = MD5(c)
    BY <2>1 DEF HonestNow, HonestCopy, Honest
  <2> QED
    BY <2>1, <2>2 DEF MD5
<1>3. /\ mmem' = NoCopy
      /\ \A w \in Link : wmem'[w] = InitControlData /\ wpc'[w] # "ok"
  BY <1>1 DEF procVars, SessionOver, Over, Handler, Alive, Ended, IdleInv,
              Critical
<1> QED
  BY <1>2, <1>3, FreshCopy DEF OkInv, NoCopy

(* A step of the workers moves only the part of a worker that is alive. *)
LEMMA Asleep ==
    ASSUME TypeOK, \A w \in Link : ~Alive(w), main # "fork", [Next]_vars, ~Rerun
    PROVE  wpc' = wpc /\ local' = local
<1>1. ASSUME NEW w \in Link,
             ForkWorker(w) \/ WorkerStep(w) \/ WorkerKilled(w) \/ LastWrite(w)
      PROVE  FALSE
  BY <1>1 DEF ForkWorker, WorkerStep, WorkerStart, AcquireForClaim, CommitClaim,
              RequestChunk, ReceiveChunk, ReceiveFails, StoreChunk,
              AcquireForUpdate, CommitUpdate, WorkerKilled, LastWrite, Alive,
              Ended, Critical
<1>2. ASSUME NEW l \in Link, ServerStep(l) \/ LinkBreaks(l)
      PROVE  wpc' = wpc /\ local' = local
  BY <1>2 DEF ServerStep, LinkBreaks, procVars
<1>3. CASE Crash
  BY <1>3 DEF Crash, TypeOK
<1>4. CASE MainStep \/ HandlerStep \/ MonitorTurn \/ Sigint
  BY <1>4 DEF MainStep, MainBegin, ForkMonitor, MainFinish, MainEnd, HandlerStep,
              HandlerWaited, HandlerLoad, HandlerSave, MonitorTurn, Sigint
<1>5. CASE CloseConnections \/ Status \/ UNCHANGED vars
  BY <1>5 DEF CloseConnections, Status, StatusRecover, StatusReset, StatusCheck,
              procVars, vars
<1> QED
  BY <1>1, <1>2, <1>3, <1>4, <1>5 DEF Next

(***************************************************************************)
(* Nothing is left to do when all the workers of a repaired run say so:    *)
(* no chunk is in ERROR, for no worker failed, and none is marked, for no  *)
(* mark is older than the run.                                             *)
(***************************************************************************)
LEMMA DrainedIsWhole ==
    ASSUME SomeHost, Sound, History, ready, main = "check",
           \A w \in Link : wpc[w] = "drained"
    PROVE  \A c \in Chunk : local[c] = c
<1> USE DEF Sound, History
<1>1. killProc = 0 /\ ~SessionOver /\ ~Doomed
  BY DEF SignalInv, SessionOver, Over, Doomed
<1>2. \E v \in Link : wpc[v] = "drained"
  BY DEF SomeHost
<1>3. ASSUME NEW c \in Chunk
      PROVE  file.info[c].status = "OK"
  <2>1. \/ file.info[c].status = "OK"
        \/ file.info[c].status = "DOWNLOAD"
        \/ \E w \in Link : wpc[w] = "failed"
    BY <1>1, <1>2 DEF NothingForgotten
  <2>2. file.info[c].status # "DOWNLOAD"
    BY <1>1 DEF ReadyInv, DownloadHasOwner, Working
  <2> QED
    BY <2>1, <2>2
<1> QED
  BY <1>3 DEF ReadyInv, OkInv, Truthful

LEMMA WholeStep ==
    ASSUME SomeHost, Sound, History, [Next]_vars, ready' => ready \/ Rerun
    PROVE  RepairedIsWhole'
<1> USE DEF Sound
<1> SUFFICES ASSUME ready', main' = "end", \A w \in Link : wpc'[w] = "drained"
             PROVE  \A c \in Chunk : local'[c] = c
  BY DEF RepairedIsWhole
<1>0. ready /\ ~Rerun
  BY DEF Rerun
<1>1. main \in {"check", "end"}
  <2>1. main' = main \/ MainEnd
    <3>1. CASE MainStep \/ HandlerStep \/ Sigint \/ Crash
      BY <3>1 DEF MainStep, MainBegin, ForkMonitor, MainFinish, HandlerStep,
                  HandlerWaited, HandlerLoad, HandlerSave, Sigint, Crash
    <3>2. ASSUME NEW w \in Link, \/ ForkWorker(w) \/ WorkerStep(w)
                                 \/ WorkerKilled(w) \/ LastWrite(w)
          PROVE  main' = main
      BY <3>2 DEF ForkWorker, WorkerStep, WorkerStart, AcquireForClaim,
                  CommitClaim, RequestChunk, ReceiveChunk, ReceiveFails,
                  StoreChunk, AcquireForUpdate, CommitUpdate, WorkerKilled,
                  LastWrite
    <3>3. ASSUME NEW l \in Link, ServerStep(l) \/ LinkBreaks(l)
          PROVE  main' = main
      BY <3>3 DEF ServerStep, LinkBreaks, procVars
    <3>4. CASE MonitorTurn \/ CloseConnections \/ Status \/ UNCHANGED vars
      BY <3>4 DEF MonitorTurn, CloseConnections, Status, StatusRecover,
                  StatusReset, StatusCheck, procVars, vars
    <3> QED
      BY <1>0, <3>1, <3>2, <3>3, <3>4 DEF Next
  <2> QED
    BY <2>1 DEF MainEnd
<1>2. \A w \in Link : ~Alive(w)
  BY <1>1 DEF SignalInv, Doomed, Layer2, PhaseInv
<1>3. wpc' = wpc /\ local' = local
  BY <1>0, <1>1, <1>2, Asleep DEF Layer1
<1>4. CASE main = "check"
  BY <1>0, <1>3, <1>4, DrainedIsWhole
<1>5. CASE main = "end"
  BY <1>0, <1>3, <1>5 DEF History, RepairedIsWhole
<1> QED
  BY <1>1, <1>4, <1>5

(* A step of the programs that takes no history back. *)
LEMMA KeepsHistory ==
    ASSUME Sound, History, [Next]_vars, ~Rerun, Sound',
           OkInv => OkInv', DownloadHasOwner => DownloadHasOwner',
           ready' = ready, checked' = checked
    PROVE  /\ (checked' => OkInv') /\ ReadyInv'
           /\ SomeHost => RepairedIsWhole'
<1>1. stale' = stale
  <2>1. ASSUME NEW w \in Link, \/ ForkWorker(w) \/ WorkerStep(w)
                               \/ WorkerKilled(w) \/ LastWrite(w)
        PROVE  stale' = stale
    BY <2>1 DEF ForkWorker, WorkerStep, WorkerStart, AcquireForClaim,
                CommitClaim, RequestChunk, ReceiveChunk, ReceiveFails,
                StoreChunk, AcquireForUpdate, CommitUpdate, WorkerKilled,
                LastWrite
  <2>2. ASSUME NEW l \in Link, ServerStep(l) \/ LinkBreaks(l)
        PROVE  stale' = stale
    BY <2>2 DEF ServerStep, LinkBreaks
  <2>3. CASE MainStep \/ HandlerStep \/ MonitorTurn \/ Sigint \/ Crash
    BY <2>3 DEF MainStep, MainBegin, ForkMonitor, MainFinish, MainEnd,
                HandlerStep, HandlerWaited, HandlerLoad, HandlerSave,
                MonitorTurn, Sigint, Crash
  <2>4. CASE CloseConnections \/ Status \/ UNCHANGED vars
    BY <2>4 DEF CloseConnections, Status, StatusRecover, StatusReset,
                StatusCheck, vars
  <2> QED
    BY <2>1, <2>2, <2>3, <2>4 DEF Next
<1>2. SomeHost => RepairedIsWhole'
  BY WholeStep
<1>3. ReadyInv' /\ (checked' => OkInv')
  BY <1>1 DEF History, ReadyInv
<1> QED
  BY <1>2, <1>3

LEMMA RepairStep ==
    ASSUME ChunksFitWire, Sound, History, [RepairNext]_repairVars
    PROVE  Sound' /\ History'
<1>p. ASSUME [Next]_vars, Remember \/ UNCHANGED <<past, outages>>
      PROVE  /\ Sound' /\ (OkInv => OkInv')
             /\ DownloadHasOwner => DownloadHasOwner'
  <2>1. /\ Layer1' /\ Layer2' /\ HonestNow' /\ IdleInv'
        /\ SignalInv' /\ CopyInv' /\ NothingForgotten'
        /\ OkInv => OkInv'
        /\ DownloadHasOwner => DownloadHasOwner'
    BY <1>p, ProgramStep
  <2>2. PastInv'
    <3>1. CASE Remember
      BY <2>1, <3>1, PastStep DEF Sound, Layer1
    <3>2. CASE UNCHANGED <<past, outages>>
      BY <3>2 DEF Sound, PastInv, past, Honest
    <3> QED
      BY <1>p, <3>1, <3>2
  <2> QED
    BY <2>1, <2>2 DEF Sound
<1>1. CASE UNCHANGED repairVars
  <2>1. UNCHANGED <<vars, past, outages>> /\ UNCHANGED <<recovered, checked, ready>>
    BY <1>1 DEF repairVars, repair
  <2>2. Sound' /\ (OkInv => OkInv') /\ (DownloadHasOwner => DownloadHasOwner')
    BY <1>p, <2>1
  <2>3. UNCHANGED <<file, main, mon, wpc, stale, local>>
    BY <2>1 DEF vars
  <2>4. RecoveredInv'
    BY <2>1, <2>3 DEF History, RecoveredInv, SessionOver, Alive
  <2>5. ReadyInv' /\ (SomeHost => RepairedIsWhole') /\ (checked' => OkInv')
    BY <2>1, <2>2, <2>3 DEF History, ReadyInv, RepairedIsWhole
  <2> QED
    BY <2>1, <2>2, <2>4, <2>5 DEF History
<1>2. CASE SessionStep
  <2>1. /\ ~SessionOver /\ [Next]_vars /\ Remember
        /\ UNCHANGED <<recovered, checked, ready>>
    BY <1>2 DEF SessionStep, repair
  <2>2. ~Rerun
    BY <2>1 DEF Rerun
  <2>3. (checked' => OkInv') /\ ReadyInv' /\ (SomeHost => RepairedIsWhole')
    BY <1>p, <2>1, <2>2, KeepsHistory
  <2>4. RecoveredInv'
    BY <2>1 DEF History, RecoveredInv
  <2> QED
    BY <1>p, <2>1, <2>3, <2>4 DEF History
<1>3. CASE PowerFailure
  <2>1. recovered' = FALSE /\ checked' = FALSE /\ ready' = FALSE
    BY <1>3 DEF PowerFailure
  <2> QED
    BY <1>3, <2>1, PowerStep DEF History, RecoveredInv, ReadyInv, RepairedIsWhole
<1>4. CASE RunAgain
  <2>1. /\ Rerun /\ Remember /\ UNCHANGED checked
        /\ ready' = (recovered /\ checked) /\ recovered' = FALSE
    BY <1>4 DEF RunAgain
  <2>2. [Next]_vars
    BY <2>1 DEF Next
  <2>3. Sound' /\ (checked' => OkInv')
    BY <1>p, <2>1, <2>2 DEF History
  <2>4. ReadyInv'
    <3>1. /\ stale' = {c \in Chunk : file.info[c].status = "DOWNLOAD"}
          /\ file' = file
      BY <2>1 DEF Rerun
    <3>2. DownloadHasOwner'
      BY <3>1 DEF DownloadHasOwner
    <3>3. ready' => recovered /\ checked'
      BY <2>1
    <3>4. ready' => stale' = {}
      BY <3>1, <3>3 DEF History, RecoveredInv
    <3> QED
      BY <3>2, <3>3, <3>4 DEF ReadyInv
  <2>5. RecoveredInv' /\ RepairedIsWhole'
    BY <2>1 DEF RecoveredInv, RepairedIsWhole, Rerun
  <2>6. {recovered', checked', ready'} \subseteq BOOLEAN
    <3>1. recovered \in BOOLEAN /\ checked \in BOOLEAN
      BY DEF History
    <3> QED
      BY <2>1, <3>1
  <2> QED
    BY <2>3, <2>4, <2>5, <2>6 DEF History
<1>5. CASE Checks
  <2>1. /\ StatusCheck /\ Remember /\ UNCHANGED <<recovered, ready>>
        /\ checked' = (checked \/ file.inUse = 0)
    BY <1>5 DEF Checks
  <2>2. [Next]_vars
    BY <2>1 DEF Next, Status
  <2>3. Sound' /\ (OkInv => OkInv') /\ (DownloadHasOwner => DownloadHasOwner')
    BY <1>p, <2>1, <2>2
  <2>4. checked' => OkInv'
    BY <2>1, <2>3, CheckIsRight DEF History
  <2>5. /\ UNCHANGED <<main, mon, wpc, local, stale>> /\ SessionOver
        /\ file' = CheckDataChunks(file, local)
    BY <2>1 DEF StatusCheck, procVars
  <2>6. RecoveredInv'
    <3>1. \A c \in Chunk : \/ file'.info[c] = file.info[c]
                           \/ file'.info[c].status = "ERROR"
      BY <2>5, CheckType DEF Sound, Layer1, TypeOK
    <3> QED
      BY <2>1, <2>5, <3>1 DEF History, RecoveredInv, SessionOver, Alive
  <2>7. ReadyInv' /\ (SomeHost => RepairedIsWhole')
    BY <2>1, <2>3, <2>5 DEF History, ReadyInv, RepairedIsWhole
  <2>8. {recovered', checked', ready'} \subseteq BOOLEAN
    <3>1. checked' \in BOOLEAN
      BY <2>1
    <3> QED
      BY <2>1, <3>1 DEF History
  <2> QED
    BY <2>3, <2>4, <2>6, <2>7, <2>8 DEF History
<1>6. ASSUME NEW w \in Link, StoreRefused(w)
      PROVE  Sound' /\ History'
  <2>1. /\ checked' = FALSE /\ ready' = FALSE /\ recovered' = recovered
        /\ wpc[w] = "store"
    BY <1>6 DEF StoreRefused
  <2>2. ~recovered
    BY <2>1 DEF History, RecoveredInv, SessionOver, Alive, Ended
  <2> QED
    BY <1>6, <2>1, <2>2, RefusedStep
       DEF History, RecoveredInv, ReadyInv, RepairedIsWhole
<1>7. ASSUME NEW force \in BOOLEAN, Recovers(force)
      PROVE  Sound' /\ History'
  <2>1. /\ StatusRecover(force) \/ StatusReset(force)
        /\ Remember /\ UNCHANGED <<checked, ready>> /\ recovered' = TRUE
    BY <1>7 DEF Recovers
  <2>2. [Next]_vars
    BY <2>1 DEF Next, Status
  <2>3. Sound' /\ (OkInv => OkInv') /\ (DownloadHasOwner => DownloadHasOwner')
    BY <1>p, <2>1, <2>2
  <2>4. /\ UNCHANGED <<main, mon, wpc, local, stale>> /\ SessionOver
        /\ \/ file' = ResetDownloadingChunks(file)
           \/ file' = ResetAllChunks(file)
    BY <2>1 DEF StatusRecover, StatusReset, procVars
  <2>5. RecoveredInv'
    <3>1. \A c \in Chunk : file'.info[c].status # "DOWNLOAD"
      BY <2>4, ResetDownloadingType, ResetAllType DEF Sound, Layer1, TypeOK
    <3> QED
      BY <2>4, <3>1 DEF RecoveredInv, SessionOver, Alive
  <2>6. ReadyInv' /\ (SomeHost => RepairedIsWhole') /\ (checked' => OkInv')
    BY <2>1, <2>3, <2>4 DEF History, ReadyInv, RepairedIsWhole
  <2>7. {recovered', checked', ready'} \subseteq BOOLEAN
    BY <2>1 DEF History
  <2> QED
    BY <2>3, <2>5, <2>6, <2>7 DEF History
<1> QED
  BY <1>1, <1>2, <1>3, <1>4, <1>5, <1>6, <1>7 DEF RepairNext
-----------------------------------------------------------------------------
LEMMA RepairIsSound ==
    ASSUME ChunksFitWire PROVE RepairSpec => [](Sound /\ History)
<1>1. Sound /\ History /\ [RepairNext]_repairVars => (Sound /\ History)'
  BY RepairStep
<1> QED
  BY RepairStarts, <1>1, PTL DEF RepairSpec

(***************************************************************************)
(* The whole invariant of MhRepair, every part of it.                      *)
(***************************************************************************)
THEOREM RepairIsSafe ==
    ASSUME ChunksFitWire, SomeHost PROVE RepairSpec => []RepairInv
<1>1. Sound /\ History => RepairInv
  <2> SUFFICES ASSUME Sound, History PROVE RepairInv
    OBVIOUS
  <2>1. EntryInv
    BY DEF Sound, HonestNow, HonestCopy, PastInv, EntryInv
  <2>2. RepairTypeOK
    BY DEF Sound, Layer1, PastInv, History, RepairTypeOK
  <2> QED
    BY <2>1, <2>2 DEF Sound, History, Layer1, Layer2, RepairInv
<1> QED
  BY <1>1, RepairIsSound, PTL

(* Types, and those of the pages that a power failure may bring back. *)
THEOREM RepairTypeCorrect ==
    ASSUME ChunksFitWire PROVE RepairSpec => []RepairTypeOK
<1>1. Sound /\ History => RepairTypeOK
  BY DEF Sound, Layer1, PastInv, History, RepairTypeOK
<1> QED
  BY <1>1, RepairIsSound, PTL

(***************************************************************************)
(* After an accepted mhstatus --check, and until the disk fails again, a   *)
(* chunk recorded as OK is in the local file.                              *)
(***************************************************************************)
THEOREM CheckedIsTrue ==
    ASSUME ChunksFitWire PROVE RepairSpec => []CheckedMeansData
<1>1. Sound /\ History => CheckedMeansData
  BY DEF History, CheckedMeansData, OkInv, Truthful, OkMeansData
<1> QED
  BY <1>1, RepairIsSound, PTL

(***************************************************************************)
(* README.md:73-75: --recover, --check and mhclient again, in which every  *)
(* worker finds the work done, leave the whole file.                       *)
(***************************************************************************)
THEOREM RepairWorks ==
    ASSUME ChunksFitWire, SomeHost PROVE RepairSpec => []RepairedIsWhole
<1>1. RepairInv => RepairedIsWhole
  BY DEF RepairInv
<1> QED
  BY <1>1, RepairIsSafe, PTL
=============================================================================
