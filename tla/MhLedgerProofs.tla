--------------------------- MODULE MhLedgerProofs ---------------------------
(***************************************************************************)
(* What becomes of a chunk's entry in the metadata file, step by step: an  *)
(* OK is never taken back while a client runs, and one CTRL+C leaves a     *)
(* clean file.  Built on the layers of MhDownloadProofs.                   *)
(***************************************************************************)
EXTENDS MhDownloadProofs

(* Layer 4: what a claim and the handler's repair were prepared from. *)
Layer4 == FreshInv /\ HandlerInv /\ CopyInv /\ InterruptIsClean

LEMMA Init4 == Init => Layer4
BY DEF Init, ProcInit, Layer4, FreshInv, HandlerInv, CopyInv, InterruptIsClean

(* The steps that write the statuses of chunks. *)
StatusWrite ==
    \/ \E w \in Link : ~Doomed /\ (CommitClaim(w) \/ CommitUpdate(w))
    \/ \E w \in Link : LastWrite(w)
    \/ HandlerSave
    \/ Status

LEMMA OtherSteps ==
    ASSUME TypeOK, [Next]_vars, ~StatusWrite
    PROVE  file'.info = file.info
<1> USE DEF StatusWrite
<1>1. CASE UNCHANGED vars
  BY <1>1 DEF vars
<1>2. CASE MainStep
  BY <1>2 DEF MainStep, MainBegin, ForkMonitor, MainFinish, MainEnd, TypeOK,
              Metadata
<1>3. CASE HandlerStep
  BY <1>3 DEF HandlerStep, HandlerWaited, HandlerLoad
<1>4. CASE MonitorTurn \/ Sigint
  BY <1>4 DEF MonitorTurn, Sigint
<1>5. ASSUME NEW w \in Link, ForkWorker(w) \/ WorkerStep(w)
      PROVE  file' = file
  BY <1>5 DEF ForkWorker, WorkerStep, WorkerStart, AcquireForClaim,
              RequestChunk, ReceiveChunk, ReceiveFails, StoreChunk,
              AcquireForUpdate
<1>6. ASSUME NEW w \in Link, WorkerKilled(w) \/ LastWrite(w)
      PROVE  file' = file
  BY <1>6 DEF WorkerKilled
<1>7. ASSUME NEW l \in Link, ServerStep(l) \/ LinkBreaks(l)
      PROVE  file' = file
  BY <1>7 DEF ServerStep, LinkBreaks
<1>8. CASE Crash \/ CloseConnections \/ Rerun
  BY <1>8 DEF Crash, CloseConnections, Rerun
<1> QED
  BY <1>1, <1>2, <1>3, <1>4, <1>5, <1>6, <1>7, <1>8 DEF Next

(* A worker in its critical section writes alone. *)
LEMMA CommitAlone ==
    ASSUME Layer1, Layer2, ~Doomed, NEW w \in Link,
           CommitClaim(w) \/ CommitUpdate(w)
    PROVE  /\ wpc[w] \in Critical /\ Alive(w) /\ cur[w] \in Chunk
           /\ \A v \in Link : v # w => wpc[v] \notin Critical
           /\ \A c \in Chunk : c # cur[w] => file'.info[c] = file.info[c]
           /\ file'.info[cur[w]] = wmem[w][cur[w]]
           /\ UNCHANGED <<main, killProc, cur, mmem, local>>
           /\ wpc' = [wpc EXCEPT ![w] = wpc'[w]]
           /\ wpc'[w] \in {"ask", "top", "failed", "stopped"}
<1> USE DEF Layer1
<1>1. wpc[w] \in Critical /\ Alive(w)
  BY DEF CommitClaim, CommitUpdate, Critical, Alive, Ended
<1>2. cur[w] \in Chunk
  BY <1>1 DEF LinkInv, Critical, Working
<1>3. \A v \in Link : v # w => wpc[v] \notin Critical
  BY <1>1 DEF LockInv
<1>4. file'.info = wmem[w]
  BY DEF CommitClaim, CommitUpdate, WriteAndRelease, TypeOK, Metadata
<1>5. \A c \in Chunk : c # cur[w] => wmem[w][c] = file.info[c]
  BY <1>1 DEF Layer2, ImageInv
<1>6. UNCHANGED <<main, killProc, cur, mmem, local>>
  BY DEF CommitClaim, CommitUpdate
<1>7. /\ wpc' = [wpc EXCEPT ![w] = wpc'[w]]
      /\ wpc'[w] \in {"ask", "top", "failed", "stopped"}
  BY DEF CommitClaim, CommitUpdate, TypeOK
<1> QED
  BY <1>1, <1>2, <1>3, <1>4, <1>5, <1>6, <1>7
-----------------------------------------------------------------------------
(* A claim keeps its ground as long as no status is written. *)
LEMMA Fresh4 ==
    ASSUME Layer4, file'.info = file.info, Doomed => Doomed',
           \A w \in Link : wpc'[w] = "claim" =>
                \/ wpc[w] = "claim" /\ cur'[w] = cur[w]
                \/ cur'[w] \in Claimable(file.info)
    PROVE  FreshInv'
BY DEF Layer4, FreshInv, Claimable

(* Main is not in its handler, or neither it nor the file moves. *)
LEMMA Handler4 ==
    ASSUME Layer4, Doomed => Doomed',
           main' # "hsave" \/ UNCHANGED <<main, mmem, file>>
    PROVE  HandlerInv' /\ CopyInv'
<1>1. ResetDownloadingChunks(file)' = ResetDownloadingChunks(file')
  BY DEF ResetDownloadingChunks
<1>2. CASE main' # "hsave"
  BY <1>2 DEF HandlerInv, CopyInv
<1>3. CASE UNCHANGED <<main, mmem, file>>
  BY <1>1, <1>3 DEF Layer4, HandlerInv, CopyInv
<1> QED
  BY <1>2, <1>3

LEMMA Quiet4 ==
    ASSUME Layer4, file' = file, UNCHANGED <<main, mmem, killProc, cur>>,
           \A w \in Link : wpc'[w] = "claim" => wpc[w] = "claim"
    PROVE  Layer4'
<1>1. FreshInv'
  BY Fresh4 DEF Doomed
<1>2. HandlerInv' /\ CopyInv'
  BY Handler4 DEF Doomed
<1>3. InterruptIsClean'
  BY DEF Layer4, InterruptIsClean
<1> QED
  BY <1>1, <1>2, <1>3 DEF Layer4

LEMMA Worker4 ==
    ASSUME Layer1, Layer2, Layer4, NEW w \in Link, WorkerStep(w)
    PROVE  Layer4'
<1>d. ~Doomed /\ UNCHANGED <<main, killProc, mmem>>
  BY DEF WorkerStep, WorkerStart, AcquireForClaim, CommitClaim, RequestChunk,
         ReceiveChunk, ReceiveFails, StoreChunk, AcquireForUpdate, CommitUpdate
<1>1. CASE CommitClaim(w) \/ CommitUpdate(w)
  <2>1. /\ Alive(w) /\ wpc' = [wpc EXCEPT ![w] = wpc'[w]]
        /\ \A v \in Link : v # w => wpc[v] \notin Critical
        /\ wpc'[w] \in {"ask", "top", "failed", "stopped"}
    BY <1>1, <1>d, CommitAlone
  <2>2. main \in {"fork", "wait", "hwait"}
    BY <1>d, <2>1 DEF Layer2, PhaseInv
  <2>3. \A v \in Link : wpc'[v] # "claim"
    BY <2>1 DEF Layer1, TypeOK, Critical
  <2> QED
    BY <1>d, <2>2, <2>3 DEF Layer4, FreshInv, HandlerInv, CopyInv,
                            InterruptIsClean
<1>2. CASE AcquireForClaim(w)
  <2>1. file' = file
    BY <1>2 DEF AcquireForClaim
  <2>2. \A v \in Link : wpc'[v] = "claim" =>
            \/ wpc[v] = "claim" /\ cur'[v] = cur[v]
            \/ cur'[v] \in Claimable(file.info)
    <3>1. CASE NextPendingChunk(file.info) = -1
      BY <1>2, <3>1 DEF AcquireForClaim, Layer1, TypeOK
    <3>2. CASE NextPendingChunk(file.info) # -1
      <4>1. NextPendingChunk(file.info) \in Claimable(file.info)
        BY <3>2, NextPendingChunkIsClaimable
      <4> QED
        BY <1>2, <3>2, <4>1 DEF AcquireForClaim, Layer1, TypeOK
    <3> QED
      BY <3>1, <3>2
  <2>3. FreshInv'
    BY <1>d, <2>1, <2>2, Fresh4 DEF Doomed
  <2>4. HandlerInv' /\ CopyInv'
    BY <1>d, <2>1, Handler4 DEF Doomed
  <2>5. InterruptIsClean'
    BY <1>d, <2>1 DEF Layer4, InterruptIsClean
  <2> QED
    BY <2>3, <2>4, <2>5 DEF Layer4
<1>3. ASSUME UNCHANGED <<file, cur>>, NEW p, p # "claim",
             wpc' = [wpc EXCEPT ![w] = p]
      PROVE  Layer4'
  BY <1>d, <1>3, Quiet4 DEF Layer1, TypeOK
<1>4. CASE WorkerStart(w) \/ RequestChunk(w)
  BY <1>4, <1>3 DEF WorkerStart, RequestChunk, Die
<1>5. CASE ReceiveChunk(w) \/ ReceiveFails(w) \/ StoreChunk(w)
  BY <1>5, <1>3 DEF ReceiveChunk, ReceiveFails, StoreChunk
<1>6. CASE AcquireForUpdate(w)
  <2> DEFINE p == IF wpc[w] = "ok" THEN "commitOk" ELSE "commitErr"
  <2>1. p # "claim" /\ wpc' = [wpc EXCEPT ![w] = p] /\ UNCHANGED <<file, cur>>
    BY <1>6 DEF AcquireForUpdate
  <2> HIDE DEF p
  <2> QED
    BY <2>1, <1>3
<1> QED
  BY <1>1, <1>2, <1>4, <1>5, <1>6 DEF WorkerStep

LEMMA Step4 ==
    ASSUME Layer1, Layer2, Layer3, Layer4, [Next]_vars
    PROVE  Layer4'
<1> USE DEF Layer1
<1>m. file \in Metadata /\ mmem \in Metadata
  BY DEF TypeOK
<1>r. /\ ResetDownloadingChunks(file).inUse = 0
      /\ \A c \in Chunk : ResetDownloadingChunks(file).info[c].status
                             \in {"OK", "PENDING"}
  BY <1>m, ResetDownloadingType, RepairIsTruthful
     DEF Layer3, OkInv, StatusInv
<1>1. CASE UNCHANGED vars
  BY <1>1, Quiet4 DEF vars
<1>2. CASE MainStep
  <2>1. /\ UNCHANGED <<wpc, cur, mmem, killProc>> /\ file'.info = file.info
        /\ main' \in {"fork", "wait", "check", "end"}
    BY <1>2 DEF MainStep, MainBegin, ForkMonitor, MainFinish, MainEnd, TypeOK,
                Metadata
  <2>2. FreshInv'
    BY <2>1, Fresh4 DEF Doomed
  <2> QED
    BY <2>1, <2>2 DEF Layer4, HandlerInv, CopyInv, InterruptIsClean
<1>3. CASE HandlerStep
  <2>1. CASE HandlerWaited
    BY <2>1, Fresh4 DEF HandlerWaited, Layer4, HandlerInv, CopyInv,
                        InterruptIsClean, Doomed
  <2>2. CASE HandlerLoad
    <3>1. /\ file' = file /\ UNCHANGED <<wpc, cur, killProc>>
          /\ main' = "hsave" /\ mmem' = ResetDownloadingChunks(file)
      BY <2>2 DEF HandlerLoad
    <3>2. FreshInv'
      BY <3>1, Fresh4 DEF Doomed
    <3>3. HandlerInv' /\ CopyInv'
      BY <3>1, <1>r DEF HandlerInv, CopyInv, ResetDownloadingChunks
    <3>4. InterruptIsClean'
      BY <3>1 DEF InterruptIsClean
    <3> QED
      BY <3>2, <3>3, <3>4 DEF Layer4
  <2>3. CASE HandlerSave
    <3>1. /\ file' = mmem /\ UNCHANGED <<wpc, cur, killProc>>
          /\ main = "hsave" /\ main' = "interrupted"
      BY <2>3 DEF HandlerSave
    <3>2. FreshInv'
      BY <3>1 DEF FreshInv, Layer2, PhaseInv, Alive, Ended, Doomed
    <3>3. HandlerInv' /\ CopyInv'
      BY <3>1 DEF HandlerInv, CopyInv
    <3>4. InterruptIsClean'
      BY <3>1 DEF InterruptIsClean, Layer4, CopyInv
    <3> QED
      BY <3>2, <3>3, <3>4 DEF Layer4
  <2> QED
    BY <1>3, <2>1, <2>2, <2>3 DEF HandlerStep
<1>4. CASE MonitorTurn
  BY <1>4, Quiet4 DEF MonitorTurn
<1>5. CASE Sigint
  <2>1. /\ UNCHANGED <<file, wpc, cur, mmem>> /\ main' \in {"hwait", "hload"}
        /\ Doomed => Doomed'
    BY <1>5 DEF Sigint, Doomed, TypeOK
  <2>2. FreshInv'
    BY <2>1, Fresh4
  <2> QED
    BY <2>1, <2>2 DEF Layer4, HandlerInv, CopyInv, InterruptIsClean
<1>6. ASSUME NEW w \in Link, ForkWorker(w)
      PROVE  Layer4'
  BY <1>6, Quiet4 DEF ForkWorker, TypeOK
<1>7. ASSUME NEW w \in Link, WorkerStep(w)
      PROVE  Layer4'
  BY <1>7, Worker4
<1>8. ASSUME NEW w \in Link, WorkerKilled(w)
      PROVE  Layer4'
  BY <1>8, Quiet4 DEF WorkerKilled, Die, TypeOK
<1>9. ASSUME NEW w \in Link, LastWrite(w)
      PROVE  Layer4'
  <2>1. Doomed /\ UNCHANGED <<main, mmem, killProc>>
    BY <1>9 DEF LastWrite
  <2> QED
    BY <2>1 DEF Layer4, FreshInv, HandlerInv, CopyInv, InterruptIsClean,
                Doomed, TypeOK
<1>10. ASSUME NEW l \in Link, ServerStep(l) \/ LinkBreaks(l)
       PROVE  Layer4'
  BY <1>10, Quiet4 DEF ServerStep, LinkBreaks, procVars
<1>11. CASE Crash
  <2>1. /\ UNCHANGED <<file, cur, killProc>> /\ main' = "crashed"
        /\ \A w \in Link : wpc'[w] # "claim"
    BY <1>11 DEF Crash, Alive, Ended
  <2> QED
    BY <2>1 DEF Layer4, FreshInv, HandlerInv, CopyInv, InterruptIsClean
<1>12. CASE CloseConnections
  BY <1>12, Quiet4 DEF CloseConnections, procVars
<1>13. CASE Rerun
  <2>1. main' = "begin" /\ \A w \in Link : wpc'[w] # "claim"
    BY <1>13 DEF Rerun
  <2> QED
    BY <2>1 DEF Layer4, FreshInv, HandlerInv, CopyInv, InterruptIsClean
<1>14. CASE Status
  <2>1. UNCHANGED <<main, killProc, wpc>> /\ SessionOver
    BY <1>14 DEF Status, StatusRecover, StatusReset, StatusCheck, procVars
  <2>2. main' # "hsave" /\ \A w \in Link : wpc'[w] # "claim"
    BY <2>1 DEF SessionOver, Over, Alive, Ended
  <2>3. \/ file' = ResetDownloadingChunks(file)
        \/ file' = ResetAllChunks(file)
        \/ file' = CheckDataChunks(file, local)
    BY <1>14 DEF Status, StatusRecover, StatusReset, StatusCheck
  <2>4. InterruptIsClean'
    <3>1. CASE file' = ResetDownloadingChunks(file)
      BY <3>1, <1>r DEF InterruptIsClean
    <3>2. CASE file' = ResetAllChunks(file)
      BY <3>2, <1>m, ResetAllType DEF InterruptIsClean, ResetAllChunks
    <3>3. CASE file' = CheckDataChunks(file, local)
      <4>1. \A c \in Chunk : file'.info[c] = file.info[c]
        BY <3>3, <1>m, RepairIsTruthful DEF Layer3, OkInv, StatusInv
      <4>2. file'.inUse = file.inUse
        BY <3>3, <1>m DEF CheckDataChunks, Metadata
      <4> QED
        BY <2>1, <4>1, <4>2 DEF Layer4, InterruptIsClean
    <3> QED
      BY <2>3, <3>1, <3>2, <3>3
  <2> QED
    BY <2>2, <2>4 DEF Layer4, FreshInv, HandlerInv, CopyInv
<1> QED
  BY <1>1, <1>2, <1>3, <1>4, <1>5, <1>6, <1>7, <1>8, <1>9, <1>10, <1>11, <1>12,
     <1>13, <1>14 DEF Next

-----------------------------------------------------------------------------
(* Layer 5: whose the chunks marked DOWNLOAD are, and those left over. *)
Layer5 == SignalInv /\ DownloadHasOwner /\ NothingForgotten

LEMMA Init5 == Init => Layer5
BY DEF Init, ProcInit, Layer5, SignalInv, Handler, DownloadHasOwner,
       NothingForgotten, InitControlData

LEMMA StepSignal ==
    ASSUME TypeOK, SignalInv, [Next]_vars
    PROVE  SignalInv'
<1> USE DEF SignalInv, Handler
<1>1. CASE Sigint
  BY <1>1, DownloadAssumption DEF Sigint, TypeOK
<1>2. CASE MainStep \/ HandlerStep
  BY <1>2 DEF MainStep, MainBegin, ForkMonitor, MainFinish, MainEnd, HandlerStep,
              HandlerWaited, HandlerLoad, HandlerSave
<1>3. CASE Crash \/ Rerun
  BY <1>3 DEF Crash, Rerun
<1>4. CASE UNCHANGED <<main, killProc>>
  BY <1>4
<1>5. ASSUME NEW w \in Link,
             ForkWorker(w) \/ WorkerStep(w) \/ WorkerKilled(w) \/ LastWrite(w)
      PROVE  UNCHANGED <<main, killProc>>
  BY <1>5 DEF ForkWorker, WorkerStep, WorkerStart, AcquireForClaim, CommitClaim,
              RequestChunk, ReceiveChunk, ReceiveFails, StoreChunk,
              AcquireForUpdate, CommitUpdate, WorkerKilled, LastWrite
<1>6. ASSUME NEW l \in Link, ServerStep(l) \/ LinkBreaks(l)
      PROVE  UNCHANGED <<main, killProc>>
  BY <1>6 DEF ServerStep, LinkBreaks, procVars
<1>7. CASE MonitorTurn \/ CloseConnections \/ Status \/ UNCHANGED vars
  BY <1>7, <1>4 DEF MonitorTurn, CloseConnections, Status, StatusRecover,
                    StatusReset, StatusCheck, procVars, vars
<1> QED
  BY <1>1, <1>2, <1>3, <1>4, <1>5, <1>6, <1>7 DEF Next

(***************************************************************************)
(* What a step of a worker does to the chunk that it has.                  *)
(***************************************************************************)
Owning(w) == wpc[w] \in Working \cup {"killed"}

LEMMA WorkerMoves ==
    ASSUME TypeOK, NEW w \in Link, WorkerStep(w)
    PROVE  /\ Alive(w) /\ ~Doomed /\ UNCHANGED <<main, killProc, mon, stale>>
           /\ \A v \in Link : v # w => wpc'[v] = wpc[v] /\ cur'[v] = cur[v]
           /\ ~CommitUpdate(w) =>
                 /\ wpc'[w] # "failed"
                 /\ Owning(w) => wpc'[w] \in Working \cup {"killed"}
                                 /\ cur'[w] = cur[w]
           /\ wpc'[w] = "drained" =>
                 Claimable(file.info) = {} /\ file' = file
<1>0. ~Doomed
  BY DEF WorkerStep
<1>1. ASSUME Die(w), Alive(w), UNCHANGED <<main, killProc, mon, cur, stale>>
      PROVE  /\ \A v \in Link : v # w => wpc'[v] = wpc[v] /\ cur'[v] = cur[v]
             /\ wpc'[w] = "killed" /\ cur'[w] = cur[w]
  BY <1>1 DEF Die, TypeOK
<1>2. CASE WorkerStart(w)
  <2>1. CASE Die(w)
    BY <1>0, <1>1, <1>2, <2>1 DEF WorkerStart, Alive, Ended
  <2>2. CASE wpc' = [wpc EXCEPT ![w] = "top"]
    BY <1>0, <1>2, <2>2 DEF WorkerStart, Alive, Ended, TypeOK, Owning, Working
  <2> QED
    BY <1>2, <2>1, <2>2 DEF WorkerStart
<1>3. CASE AcquireForClaim(w)
  <2>1. ~Owning(w) /\ Alive(w)
    BY <1>3 DEF AcquireForClaim, Owning, Working, Alive, Ended
  <2>2. CASE NextPendingChunk(file.info) = -1
    <3>1. Claimable(file.info) = {}
      BY <2>2, NextPendingChunkIsClaimable, ChunksAssumption
         DEF Claimable, Chunk
    <3> QED
      BY <1>0, <1>3, <2>1, <2>2, <3>1 DEF AcquireForClaim, TypeOK
  <2>3. CASE NextPendingChunk(file.info) # -1
    BY <1>0, <1>3, <2>1, <2>3 DEF AcquireForClaim, TypeOK
  <2> QED
    BY <2>2, <2>3
<1>4. CASE RequestChunk(w)
  <2>1. CASE Die(w)
    BY <1>0, <1>1, <1>4, <2>1 DEF RequestChunk, Alive, Ended
  <2>2. CASE wpc' = [wpc EXCEPT ![w] = "recv"]
    BY <1>0, <1>4, <2>2 DEF RequestChunk, Alive, Ended, TypeOK, Working
  <2> QED
    BY <1>4, <2>1, <2>2 DEF RequestChunk
<1>5. CASE CommitClaim(w) \/ ReceiveChunk(w) \/ ReceiveFails(w) \/ StoreChunk(w)
  BY <1>0, <1>5 DEF CommitClaim, ReceiveChunk, ReceiveFails, StoreChunk, Alive,
                    Ended, TypeOK, Working
<1>6. CASE AcquireForUpdate(w)
  BY <1>0, <1>6 DEF AcquireForUpdate, Alive, Ended, TypeOK, Working
<1>7. CASE CommitUpdate(w)
  BY <1>0, <1>7 DEF CommitUpdate, Alive, Ended, TypeOK
<1> QED
  BY <1>2, <1>3, <1>4, <1>5, <1>6, <1>7 DEF WorkerStep

(* No new mark, and the owners are as they were. *)
LEMMA Owner5 ==
    ASSUME DownloadHasOwner, Doomed => Doomed', stale' = stale,
           \A c \in Chunk : file'.info[c].status = "DOWNLOAD" =>
                             file.info[c].status = "DOWNLOAD",
           \A w \in Link : Owning(w) =>
               wpc'[w] \in Working \cup {"killed"} /\ cur'[w] = cur[w]
    PROVE  DownloadHasOwner'
BY DEF DownloadHasOwner, Owning

LEMMA StepOwner ==
    ASSUME Layer1, Layer2, CopyInv, DownloadHasOwner, [Next]_vars
    PROVE  DownloadHasOwner'
<1> USE DEF Layer1
<1>m. file \in Metadata
  BY DEF TypeOK
<1>1. ASSUME NEW w \in Link, WorkerStep(w)
      PROVE  DownloadHasOwner'
  <2>1. /\ ~Doomed /\ UNCHANGED <<killProc, stale>>
        /\ \A v \in Link : v # w => wpc'[v] = wpc[v] /\ cur'[v] = cur[v]
        /\ ~CommitUpdate(w) => (Owning(w) => /\ wpc'[w] \in Working \cup {"killed"}
                                            /\ cur'[w] = cur[w])
    BY <1>1, WorkerMoves
  <2>2. CASE CommitClaim(w) \/ CommitUpdate(w)
    <3>1. /\ \A c \in Chunk : c # cur[w] => file'.info[c] = file.info[c]
          /\ file'.info[cur[w]] = wmem[w][cur[w]]
          /\ wpc[w] \in Critical /\ cur' = cur
      BY <2>1, <2>2, CommitAlone
    <3> SUFFICES ASSUME NEW c \in Chunk, file'.info[c].status = "DOWNLOAD",
                        c \notin stale
                 PROVE  \E v \in Link : /\ cur[v] = c
                                       /\ wpc'[v] \in Working \cup {"killed"}
      BY <2>1, <3>1 DEF DownloadHasOwner
    <3>2. CASE c = cur[w]
      <4>1. wpc[w] = "claim"
        BY <2>1, <3>1, <3>2 DEF Layer2, ImageInv, Critical
      <4>2. wpc'[w] = "ask"
        BY <2>2, <4>1 DEF CommitClaim, CommitUpdate, TypeOK
      <4> QED
        BY <3>2, <4>2 DEF Working
    <3>3. CASE c # cur[w]
      <4>1. PICK v \in Link : cur[v] = c /\ Owning(v)
        BY <2>1, <3>1, <3>3 DEF DownloadHasOwner, Owning
      <4> QED
        BY <2>1, <3>3, <4>1 DEF Owning
    <3> QED
      BY <3>2, <3>3
  <2>3. CASE ~(CommitClaim(w) \/ CommitUpdate(w))
    <3>1. file' = file
      BY <1>1, <2>3 DEF WorkerStep, WorkerStart, AcquireForClaim, RequestChunk,
                        ReceiveChunk, ReceiveFails, StoreChunk, AcquireForUpdate
    <3> QED
      BY <2>1, <2>3, <3>1, Owner5 DEF Doomed, Owning
  <2> QED
    BY <2>2, <2>3
<1>2. ASSUME NEW w \in Link, WorkerKilled(w) \/ ForkWorker(w)
      PROVE  DownloadHasOwner'
  <2>1. UNCHANGED <<file, stale, cur, killProc>>
    BY <1>2 DEF WorkerKilled, ForkWorker
  <2>2. \A v \in Link : Owning(v) => wpc'[v] \in Working \cup {"killed"}
    BY <1>2 DEF WorkerKilled, Die, ForkWorker, Owning, TypeOK, Working
  <2> QED
    BY <2>1, <2>2, Owner5 DEF Doomed
<1>3. ASSUME NEW w \in Link, LastWrite(w)
      PROVE  DownloadHasOwner'
  BY <1>3 DEF LastWrite, Doomed, DownloadHasOwner
<1>4. CASE Crash
  <2>1. UNCHANGED <<file, stale, cur, killProc>>
    BY <1>4 DEF Crash
  <2>2. \A v \in Link : Owning(v) => wpc'[v] \in Working \cup {"killed"}
    BY <1>4 DEF Crash, Owning, Alive
  <2> QED
    BY <2>1, <2>2, Owner5 DEF Doomed
<1>5. CASE Rerun
  BY <1>5 DEF Rerun, DownloadHasOwner
<1>6. CASE HandlerSave
  BY <1>6 DEF HandlerSave, CopyInv, DownloadHasOwner
<1>7. ASSUME UNCHANGED <<stale, cur, wpc>>, Doomed => Doomed',
             \A c \in Chunk : file'.info[c].status = "DOWNLOAD" =>
                               file.info[c].status = "DOWNLOAD"
      PROVE  DownloadHasOwner'
  BY <1>7, Owner5 DEF Owning
<1>8. CASE MainStep
  <2>1. UNCHANGED <<stale, cur, wpc, killProc>> /\ file'.info = file.info
    BY <1>8, <1>m DEF MainStep, MainBegin, ForkMonitor, MainFinish, MainEnd,
                      Metadata
  <2> QED
    BY <2>1, <1>7 DEF Doomed
<1>9. CASE HandlerWaited \/ HandlerLoad
  BY <1>9, <1>7 DEF HandlerWaited, HandlerLoad, Doomed
<1>10. CASE MonitorTurn \/ Sigint
  BY <1>10, <1>7 DEF MonitorTurn, Sigint, Doomed, TypeOK
<1>11. ASSUME NEW l \in Link, ServerStep(l) \/ LinkBreaks(l)
       PROVE  DownloadHasOwner'
  BY <1>11, <1>7 DEF ServerStep, LinkBreaks, procVars, Doomed
<1>12. CASE CloseConnections \/ UNCHANGED vars
  BY <1>12, <1>7 DEF CloseConnections, procVars, vars, Doomed
<1>13. CASE Status
  <2>1. UNCHANGED <<stale, cur, wpc, killProc>>
    BY <1>13 DEF Status, StatusRecover, StatusReset, StatusCheck, procVars
  <2>2. \A c \in Chunk : file'.info[c].status = "DOWNLOAD" =>
                          file.info[c].status = "DOWNLOAD"
    <3>1. CASE file' = ResetDownloadingChunks(file)
      BY <3>1, <1>m, ResetDownloadingType
    <3>2. CASE file' = ResetAllChunks(file)
      BY <3>2, <1>m, ResetAllType
    <3>3. CASE file' = CheckDataChunks(file, local)
      BY <3>3, <1>m, CheckType
    <3> QED
      BY <1>13, <3>1, <3>2, <3>3 DEF Status, StatusRecover, StatusReset,
                                     StatusCheck
  <2> QED
    BY <2>1, <2>2, <1>7 DEF Doomed
<1> QED
  BY <1>1, <1>2, <1>3, <1>4, <1>5, <1>6, <1>8, <1>9, <1>10, <1>11, <1>12, <1>13
     DEF Next, HandlerStep

(* The session goes on as it was, and nobody has left it since. *)
LEMMA Forgotten5 ==
    ASSUME NothingForgotten, file'.info = file.info,
           killProc' = 0 => killProc = 0, SessionOver => SessionOver',
           \A w \in Link : /\ wpc'[w] = "drained" => wpc[w] = "drained"
                           /\ wpc[w] = "failed" =>
                                 wpc'[w] = "failed" /\ cur'[w] = cur[w]
    PROVE  NothingForgotten'
BY DEF NothingForgotten

LEMMA WorkerForgotten ==
    ASSUME Layer1, Layer2, StatusInv, NothingForgotten, NEW w \in Link,
           WorkerStep(w)
    PROVE  NothingForgotten'
<1> USE DEF Layer1
<1>1. /\ Alive(w) /\ ~Doomed /\ UNCHANGED killProc
      /\ \A v \in Link : v # w => wpc'[v] = wpc[v] /\ cur'[v] = cur[v]
      /\ ~CommitUpdate(w) => wpc'[w] # "failed"
      /\ wpc'[w] = "drained" => Claimable(file.info) = {} /\ file' = file
  BY WorkerMoves
<1>2. ~SessionOver /\ wpc[w] \notin {"drained", "failed"}
  BY <1>1 DEF SessionOver, Alive, Ended
<1> SUFFICES ASSUME killProc = 0, NEW u \in Link, wpc'[u] = "drained",
                    NEW c \in Chunk
             PROVE  \/ file'.info[c].status \in {"OK", "DOWNLOAD"}
                    \/ /\ file'.info[c].status = "ERROR"
                       /\ \E v \in Link : cur'[v] = c /\ wpc'[v] = "failed"
  BY <1>1 DEF NothingForgotten
<1>3. CASE u = w
  <2>1. Claimable(file.info) = {} /\ file' = file
    BY <1>1, <1>3
  <2>2. file.info[c].status \in ChunkStatus \ {"UPLOAD"}
    BY DEF TypeOK, Metadata, ControlData, ChunkInfo, StatusInv, NoUpload
  <2> QED
    BY <2>1, <2>2 DEF Claimable, ChunkStatus
<1>4. CASE u # w
  <2>1. \/ file.info[c].status \in {"OK", "DOWNLOAD"}
        \/ /\ file.info[c].status = "ERROR"
           /\ \E v \in Link : cur[v] = c /\ wpc[v] = "failed"
    BY <1>1, <1>2, <1>4 DEF NothingForgotten
  <2>2. ASSUME file'.info[c] = file.info[c]
        PROVE  \/ file'.info[c].status \in {"OK", "DOWNLOAD"}
               \/ /\ file'.info[c].status = "ERROR"
                  /\ \E v \in Link : cur'[v] = c /\ wpc'[v] = "failed"
    BY <1>1, <1>2, <2>1, <2>2
  <2>3. CASE CommitClaim(w) \/ CommitUpdate(w)
    <3>1. /\ \A d \in Chunk : d # cur[w] => file'.info[d] = file.info[d]
          /\ file'.info[cur[w]] = wmem[w][cur[w]]
          /\ wpc[w] \in Critical /\ cur' = cur
      BY <1>1, <2>3, CommitAlone
    <3>2. CASE c = cur[w]
      <4>1. \/ wpc[w] = "claim" /\ file'.info[c].status = "DOWNLOAD"
            \/ wpc[w] = "commitOk" /\ file'.info[c].status = "OK"
            \/ wpc[w] = "commitErr" /\ file'.info[c].status = "ERROR"
        BY <1>1, <3>1, <3>2 DEF Layer2, ImageInv, Critical
      <4>2. wpc[w] = "commitErr" => wpc'[w] = "failed"
        BY <2>3 DEF CommitClaim, CommitUpdate, TypeOK
      <4> QED
        BY <3>1, <3>2, <4>1, <4>2
    <3> QED
      BY <2>2, <3>1, <3>2
  <2>4. CASE ~(CommitClaim(w) \/ CommitUpdate(w))
    <3>1. file' = file
      BY <2>4 DEF WorkerStep, WorkerStart, AcquireForClaim, RequestChunk,
                  ReceiveChunk, ReceiveFails, StoreChunk, AcquireForUpdate
    <3> QED
      BY <2>2, <3>1
  <2> QED
    BY <2>3, <2>4
<1> QED
  BY <1>3, <1>4

LEMMA StepForgotten ==
    ASSUME Layer1, Layer2, StatusInv, SignalInv, NothingForgotten, [Next]_vars
    PROVE  NothingForgotten'
<1> USE DEF Layer1
<1>1. ASSUME NEW w \in Link, WorkerStep(w)
      PROVE  NothingForgotten'
  BY <1>1, WorkerForgotten
<1>2. ASSUME NEW w \in Link, WorkerKilled(w) \/ ForkWorker(w)
      PROVE  NothingForgotten'
  <2>1. UNCHANGED <<file, killProc, cur>> /\ ~SessionOver
    BY <1>2 DEF WorkerKilled, ForkWorker, SessionOver, Over
  <2>2. \A v \in Link : /\ wpc'[v] = "drained" => wpc[v] = "drained"
                        /\ wpc[v] = "failed" => wpc'[v] = "failed"
    BY <1>2 DEF WorkerKilled, Die, ForkWorker, TypeOK, Alive, Ended
  <2> QED
    BY <2>1, <2>2, Forgotten5
<1>3. ASSUME NEW w \in Link, LastWrite(w)
      PROVE  NothingForgotten'
  BY <1>3 DEF LastWrite, Doomed, NothingForgotten, TypeOK
<1>4. CASE Crash
  <2>1. SessionOver'
    BY <1>4 DEF Crash, SessionOver, Over, MonitorOff, Alive, Ended
  <2> QED
    BY <2>1 DEF NothingForgotten
<1>5. CASE Rerun
  BY <1>5 DEF Rerun, NothingForgotten
<1>6. CASE HandlerStep \/ Sigint
  <2>1. killProc' # 0
    BY <1>6, DownloadAssumption
       DEF HandlerStep, HandlerWaited, HandlerLoad, HandlerSave, Sigint,
           SignalInv, Handler, TypeOK
  <2> QED
    BY <2>1 DEF NothingForgotten
<1>7. ASSUME UNCHANGED <<killProc, cur, wpc>>, file'.info = file.info,
             SessionOver => SessionOver'
      PROVE  NothingForgotten'
  BY <1>7, Forgotten5
<1>8. CASE MainStep
  <2>1. UNCHANGED <<cur, wpc, killProc>> /\ file'.info = file.info
    BY <1>8 DEF MainStep, MainBegin, ForkMonitor, MainFinish, MainEnd,
                      Metadata, TypeOK
  <2>2. ~SessionOver
    BY <1>8 DEF MainStep, MainBegin, ForkMonitor, MainFinish, MainEnd,
                SessionOver, Over
  <2> QED
    BY <2>1, <2>2, <1>7
<1>9. CASE MonitorTurn
  BY <1>9, <1>7 DEF MonitorTurn, SessionOver
<1>10. ASSUME UNCHANGED procVars, file'.info = file.info
       PROVE  NothingForgotten'
  BY <1>10, <1>7 DEF procVars, SessionOver, Alive
<1>11. ASSUME NEW l \in Link, ServerStep(l) \/ LinkBreaks(l)
       PROVE  NothingForgotten'
  BY <1>11, <1>10 DEF ServerStep, LinkBreaks
<1>12. CASE CloseConnections \/ UNCHANGED vars
  BY <1>12, <1>10 DEF CloseConnections, procVars, vars
<1>13. CASE Status
  <2>1. UNCHANGED procVars /\ SessionOver
    BY <1>13 DEF Status, StatusRecover, StatusReset, StatusCheck
  <2> QED
    BY <2>1 DEF procVars, SessionOver, Alive, NothingForgotten
<1> QED
  BY <1>1, <1>2, <1>3, <1>4, <1>5, <1>6, <1>8, <1>9, <1>11, <1>12, <1>13
     DEF Next

LEMMA Step5 ==
    ASSUME Layer1, Layer2, Layer3, Layer4, Layer5, [Next]_vars
    PROVE  Layer5'
BY StepSignal, StepOwner, StepForgotten
   DEF Layer1, Layer3, Layer4, Layer5
-----------------------------------------------------------------------------
Layers == Layer1 /\ Layer2 /\ Layer3 /\ Layer4 /\ Layer5

LEMMA LayersInv == ASSUME ChunksFitWire PROVE Spec => []Layers
<1>1. Init => Layers
  BY Init1, Init2, Init3, Init4, Init5 DEF Layers
<1>2. Layers /\ [Next]_vars => Layers'
  BY Step1, Step2, Step3, Step4, Step5 DEF Layers
<1> QED
  BY <1>1, <1>2, PTL DEF Spec

(***************************************************************************)
(* The whole invariant of MhDownloadInv, every part of it.                 *)
(***************************************************************************)
THEOREM DownloadIsSafe == ASSUME ChunksFitWire PROVE Spec => []IInv
<1>1. Layers => IInv
  BY DEF Layers, Layer1, Layer2, Layer3, Layer4, Layer5, IInv
<1> QED
  BY <1>1, LayersInv, PTL

(***************************************************************************)
(* A chunk that is marked DOWNLOAD, so that every worker skips it, has a   *)
(* worker to finish it, or one that was killed with it, or was so marked   *)
(* when the session began.                                                 *)
(***************************************************************************)
THEOREM MarksHaveOwners ==
    ASSUME ChunksFitWire PROVE Spec => []DownloadHasOwner
<1>1. Layers => DownloadHasOwner
  BY DEF Layers, Layer5
<1> QED
  BY <1>1, LayersInv, PTL

(***************************************************************************)
(* When a worker has left for want of work, no chunk is PENDING, and one   *)
(* in ERROR is that of a worker whose connection broke.                    *)
(***************************************************************************)
THEOREM NoChunkIsForgotten ==
    ASSUME ChunksFitWire PROVE Spec => []NothingForgotten
<1>1. Layers => NothingForgotten
  BY DEF Layers, Layer5
<1> QED
  BY <1>1, LayersInv, PTL

(***************************************************************************)
(* One CTRL+C leaves the metadata unlocked, with no chunk that the next    *)
(* run would skip without having it.                                       *)
(***************************************************************************)
THEOREM OneInterruptIsClean ==
    ASSUME ChunksFitWire PROVE Spec => []InterruptIsClean
<1>1. Layers => InterruptIsClean
  BY DEF Layers, Layer4
<1> QED
  BY <1>1, LayersInv, PTL

(* What OkIsKept says of one step. *)
OkStays ==
    \A c \in Chunk :
        /\ file.info[c].status = "OK"
        /\ ~Doomed
        /\ ~SessionOver
        => file'.info[c].status = "OK"

LEMMA OkStep == ASSUME Layers, [Next]_vars PROVE OkStays
<1> USE DEF Layers
<1> SUFFICES ASSUME NEW c \in Chunk, file.info[c].status = "OK", ~Doomed,
                    ~SessionOver
             PROVE  file'.info[c].status = "OK"
  BY DEF OkStays
<1>1. CASE ~StatusWrite
  BY <1>1, OtherSteps DEF Layer1
<1>2. ASSUME NEW w \in Link, CommitClaim(w) \/ CommitUpdate(w)
      PROVE  file'.info[c].status = "OK"
  <2>1. /\ \A d \in Chunk : d # cur[w] => file'.info[d] = file.info[d]
        /\ wpc[w] \in Critical
    BY <1>2, CommitAlone
  <2>2. cur[w] # c
    <3>1. CASE wpc[w] = "claim"
      BY <3>1 DEF Layer4, FreshInv, Claimable
    <3>2. CASE wpc[w] # "claim"
      BY <2>1, <3>2 DEF Layer2, ClaimInv, Critical, Working
    <3> QED
      BY <3>1, <3>2
  <2> QED
    BY <2>1, <2>2
<1>3. CASE HandlerSave
  <2>1. file' = ResetDownloadingChunks(file)
    BY <1>3 DEF HandlerSave, Layer4, HandlerInv
  <2> QED
    BY <2>1, ResetDownloadingType DEF Layer1, TypeOK
<1>4. ASSUME NEW w \in Link, LastWrite(w)
      PROVE  FALSE
  BY <1>4 DEF LastWrite
<1>5. CASE Status
  BY <1>5 DEF Status, StatusRecover, StatusReset, StatusCheck
<1> QED
  BY <1>1, <1>2, <1>3, <1>4, <1>5 DEF StatusWrite

(***************************************************************************)
(* No step of a client takes OK back from a chunk, although every worker   *)
(* writes the whole array (up to the second SIGINT).                       *)
(***************************************************************************)
THEOREM OkIsNeverTakenBack ==
    ASSUME ChunksFitWire PROVE Spec => OkIsKept
<1>1. Layers /\ [Next]_vars => [OkStays]_vars
  BY OkStep
<1>2. Spec => [][OkStays]_vars
  BY <1>1, LayersInv, PTL DEF Spec
<1> QED
  BY <1>2 DEF OkIsKept, OkStays
-----------------------------------------------------------------------------
(* MhDownload implements ChunkLedger, step by step. *)

LEMMA HeldChunk ==
    ASSUME NEW c
    PROVE  /\ c \in Held <=> \E w \in Link : wpc[w] \in Working /\ cur[w] = c
           /\ c \in Held' <=> \E w \in Link : wpc'[w] \in Working /\ cur'[w] = c
BY DEF Held

LEMMA LedgerInit == Init => Ledger!Init
<1> SUFFICES ASSUME Init PROVE Ledger!Init
  OBVIOUS
<1>1. Recorded = {} /\ Lost = {}
  BY DEF Init, Recorded, Lost, InitControlData
<1>2. Held = {}
  BY HeldChunk DEF Init, ProcInit, Working
<1>3. Stored = {}
  BY ChunksAssumption DEF Init, Stored, Chunk, Hole
<1> QED
  BY <1>1, <1>2, <1>3 DEF Ledger!Init

(* A step that moves no worker in or out of its work, and writes nothing. *)
LEMMA LedgerStutters ==
    ASSUME \A c \in Chunk : file'.info[c].status = file.info[c].status,
           local' = local,
           \A w \in Link : wpc'[w] \in Working <=> wpc[w] \in Working,
           \A w \in Link : wpc[w] \in Working => cur'[w] = cur[w]
    PROVE  UNCHANGED Ledger!ledger
<1>1. Held' = Held
  BY HeldChunk
<1> QED
  BY <1>1 DEF Ledger!ledger, Recorded, Lost, Stored

(* Workers die: what they held is lost, for it is still marked. *)
LEMMA LedgerLoses ==
    ASSUME LinkInv, ClaimInv, ~Doomed, file' = file, local' = local,
           UNCHANGED cur,
           \A w \in Link : wpc'[w] = wpc[w] \/ wpc'[w] = "killed"
    PROVE  \E C \in SUBSET Chunk : Ledger!Lose(C)
<1> DEFINE C == Held \ Held'
<1>1. Held \subseteq Chunk
  BY HeldChunk DEF LinkInv
<1>2. Held' \subseteq Held
  BY HeldChunk DEF Working
<1>3. \A c \in Held : file.info[c].status = "DOWNLOAD"
  BY HeldChunk DEF ClaimInv
<1>4. Lost' = Lost \cup C
  BY <1>1, <1>2, <1>3 DEF Lost
<1>5. Held' = Held \ C /\ Recorded' = Recorded /\ Stored' = Stored
  BY <1>2 DEF Recorded, Stored
<1> QED
  BY <1>1, <1>4, <1>5 DEF Ledger!Lose

(***************************************************************************)
(* The two writes of a worker: although each is of the whole array, the    *)
(* effect is on one chunk.                                                 *)
(***************************************************************************)
LEMMA LedgerWrite ==
    ASSUME Layers, ~Doomed, NEW w \in Link, CommitClaim(w) \/ CommitUpdate(w)
    PROVE  \E c \in Chunk : \/ Ledger!Take(c)
                           \/ Ledger!Record(c)
                           \/ Ledger!GiveBack(c)
<1> USE DEF Layers, Layer1
<1> DEFINE c == cur[w]
<1>1. /\ c \in Chunk /\ UNCHANGED <<cur, local>> /\ wpc[w] \in Critical
      /\ \A d \in Chunk : d # c => file'.info[d] = file.info[d]
      /\ file'.info[c] = wmem[w][c]
      /\ \A v \in Link : v # w => wpc'[v] = wpc[v]
  BY CommitAlone DEF TypeOK
<1>2. Stored' = Stored
  BY <1>1 DEF Stored
<1>3. \A d \in Held : file.info[d].status = "DOWNLOAD"
  BY HeldChunk DEF Layer2, ClaimInv
<1>4. CASE CommitClaim(w)
  <2>1. wpc[w] = "claim" /\ wpc'[w] = "ask"
    BY <1>4 DEF CommitClaim, TypeOK
  <2>2. file'.info[c].status = "DOWNLOAD"
    BY <1>1, <2>1 DEF Layer2, ImageInv
  <2>3. file.info[c].status \notin {"OK", "DOWNLOAD"}
    BY <2>1 DEF Layer4, FreshInv, Claimable
  <2>4. Held' = Held \cup {c}
    <3>1. ASSUME NEW d
          PROVE  d \in Held' <=> d \in Held \/ d = c
      BY <1>1, <2>1, HeldChunk DEF Working
    <3> QED
      BY <3>1
  <2>5. c \notin Recorded \cup Held \cup Lost
    BY <1>3, <2>3 DEF Recorded, Lost
  <2>6. Recorded' = Recorded
    BY <1>1, <2>2, <2>3 DEF Recorded
  <2>7. Lost' = Lost
    BY <1>1, <2>2, <2>3, <2>4 DEF Lost
  <2> QED
    BY <1>1, <1>2, <2>4, <2>5, <2>6, <2>7 DEF Ledger!Take
<1>5. CASE CommitUpdate(w)
  <2>1. wpc[w] \in {"commitOk", "commitErr"} /\ wpc'[w] \notin Working
    BY <1>5 DEF CommitUpdate, TypeOK, Working
  <2>2. Held' = Held \ {c} /\ c \in Held
    <3>1. \A v \in Link : v # w /\ wpc[v] \in Working => cur[v] # c
      BY <2>1 DEF Layer2, ExclusiveClaim, Working
    <3>2. ASSUME NEW d
          PROVE  d \in Held' <=> d \in Held /\ d # c
      BY <1>1, <2>1, <3>1, HeldChunk DEF Working
    <3>3. c \in Held
      BY <2>1, HeldChunk DEF Working
    <3> QED
      BY <3>2, <3>3
  <2>3. file'.info[c].status = IF wpc[w] = "commitOk" THEN "OK" ELSE "ERROR"
    BY <1>1, <2>1 DEF Layer2, ImageInv, Critical
  <2>4. file.info[c].status = "DOWNLOAD"
    BY <1>3, <2>2
  <2>5. Lost' = Lost
    BY <1>1, <2>2, <2>3, <2>4 DEF Lost
  <2>6. CASE wpc[w] = "commitOk"
    <3>1. Recorded' = Recorded \cup {c}
      BY <1>1, <2>3, <2>6 DEF Recorded
    <3>2. c \in Stored
      BY <1>1, <2>3, <2>6 DEF Layer3, OkInv, Truthful, Stored
    <3> QED
      BY <1>1, <1>2, <2>2, <2>5, <3>1, <3>2 DEF Ledger!Record
  <2>7. CASE wpc[w] = "commitErr"
    <3>1. Recorded' = Recorded
      BY <1>1, <2>3, <2>4, <2>7 DEF Recorded
    <3> QED
      BY <1>1, <1>2, <2>2, <2>5, <3>1 DEF Ledger!GiveBack
  <2> QED
    BY <2>1, <2>6, <2>7
<1> QED
  BY <1>4, <1>5

LEMMA LedgerStep ==
    ASSUME Layers, ~Doomed, [Next]_vars
    PROVE  Ledger!Next \/ UNCHANGED Ledger!ledger
<1> USE DEF Layers, Layer1
<1>m. file \in Metadata
  BY DEF TypeOK
<1>1. ASSUME \E C \in SUBSET Chunk : Ledger!Lose(C)
      PROVE  Ledger!Next
  BY <1>1 DEF Ledger!Next
<1>2. ASSUME NEW w \in Link, WorkerStep(w)
      PROVE  Ledger!Next \/ UNCHANGED Ledger!ledger
  <2>1. ASSUME Die(w), UNCHANGED <<file, local, cur>>
        PROVE  Ledger!Next
    <3>1. \A v \in Link : wpc'[v] = wpc[v] \/ wpc'[v] = "killed"
      BY <2>1 DEF Die, TypeOK
    <3> QED
      BY <1>1, <2>1, <3>1, LedgerLoses DEF Layer2
  <2>2. ASSUME UNCHANGED <<file, local>>, NEW p,
               wpc' = [wpc EXCEPT ![w] = p],
               p \in Working <=> wpc[w] \in Working,
               \A v \in Link : wpc[v] \in Working => cur'[v] = cur[v]
        PROVE  UNCHANGED Ledger!ledger
    <3>1. \A v \in Link : wpc'[v] \in Working <=> wpc[v] \in Working
      BY <2>2 DEF TypeOK
    <3> QED
      BY <2>2, <3>1, LedgerStutters
  <2>3. CASE WorkerStart(w)
    <3>1. CASE Die(w)
      BY <2>1, <2>3, <3>1 DEF WorkerStart
    <3>2. CASE wpc' = [wpc EXCEPT ![w] = "top"]
      BY <2>2, <2>3, <3>2 DEF WorkerStart, Working
    <3> QED
      BY <2>3, <3>1, <3>2 DEF WorkerStart
  <2>4. CASE AcquireForClaim(w)
    <3>1. wpc[w] = "top" /\ UNCHANGED <<file, local>>
      BY <2>4 DEF AcquireForClaim
    <3>2. \A v \in Link : v # w => cur'[v] = cur[v]
      BY <2>4 DEF AcquireForClaim, TypeOK
    <3>3. \/ wpc' = [wpc EXCEPT ![w] = "drained"]
          \/ wpc' = [wpc EXCEPT ![w] = "claim"]
      BY <2>4 DEF AcquireForClaim
    <3>4. \A v \in Link : wpc[v] \in Working => cur'[v] = cur[v]
      BY <3>1, <3>2 DEF Working
    <3> QED
      BY <2>2, <3>1, <3>3, <3>4 DEF Working
  <2>5. CASE CommitClaim(w) \/ CommitUpdate(w)
    BY <2>5, LedgerWrite DEF Ledger!Next
  <2>6. CASE RequestChunk(w)
    <3>1. CASE Die(w)
      BY <2>1, <2>6, <3>1 DEF RequestChunk
    <3>2. CASE wpc' = [wpc EXCEPT ![w] = "recv"]
      BY <2>2, <2>6, <3>2 DEF RequestChunk, Working
    <3> QED
      BY <2>6, <3>1, <3>2 DEF RequestChunk
  <2>7. CASE ReceiveChunk(w)
    BY <2>2, <2>7 DEF ReceiveChunk, Working
  <2>8. CASE ReceiveFails(w)
    BY <2>2, <2>8 DEF ReceiveFails, Working
  <2>9. CASE StoreChunk(w)
    <3>1. /\ wpc[w] = "store" /\ UNCHANGED <<file, cur>>
          /\ local' = [local EXCEPT ![cur[w]] = rcv[w].data]
          /\ wpc' = [wpc EXCEPT ![w] = "ok"]
      BY <2>9 DEF StoreChunk
    <3>2. cur[w] \in Chunk /\ local'[cur[w]] = cur[w]
      BY <3>1, Stored3
    <3>3. Stored' = Stored \cup {cur[w]}
      BY <3>1, <3>2 DEF Stored, TypeOK
    <3>4. \A v \in Link : wpc'[v] \in Working <=> wpc[v] \in Working
      BY <3>1 DEF TypeOK, Working
    <3>5. Held' = Held /\ cur[w] \in Held
      BY <3>1, <3>4, HeldChunk DEF Working
    <3>6. Recorded' = Recorded /\ Lost' = Lost
      BY <3>1, <3>5 DEF Recorded, Lost
    <3>7. Ledger!Store(cur[w])
      BY <3>3, <3>5, <3>6 DEF Ledger!Store
    <3> QED
      BY <3>2, <3>7 DEF Ledger!Next
  <2>10. CASE AcquireForUpdate(w)
    <3>1. wpc[w] \in {"ok", "fail"} /\ UNCHANGED <<file, local, cur>>
      BY <2>10 DEF AcquireForUpdate
    <3>2. \/ wpc' = [wpc EXCEPT ![w] = "commitOk"]
          \/ wpc' = [wpc EXCEPT ![w] = "commitErr"]
      BY <2>10 DEF AcquireForUpdate
    <3> QED
      BY <2>2, <3>1, <3>2 DEF Working
  <2> QED
    BY <1>2, <2>3, <2>4, <2>5, <2>6, <2>7, <2>8, <2>9, <2>10 DEF WorkerStep
<1>3. ASSUME NEW w \in Link, WorkerKilled(w)
      PROVE  Ledger!Next
  <2>1. UNCHANGED <<file, local, cur>>
    BY <1>3 DEF WorkerKilled
  <2>2. \A v \in Link : wpc'[v] = wpc[v] \/ wpc'[v] = "killed"
    BY <1>3 DEF WorkerKilled, Die, TypeOK
  <2> QED
    BY <1>1, <2>1, <2>2, LedgerLoses DEF Layer2
<1>4. CASE Crash
  <2>1. UNCHANGED <<file, local, cur>>
    BY <1>4 DEF Crash
  <2>2. \A v \in Link : wpc'[v] = wpc[v] \/ wpc'[v] = "killed"
    BY <1>4 DEF Crash
  <2> QED
    BY <1>1, <2>1, <2>2, LedgerLoses DEF Layer2
<1>5. ASSUME NEW w \in Link, ForkWorker(w)
      PROVE  UNCHANGED Ledger!ledger
  <2>1. \A v \in Link : wpc'[v] \in Working <=> wpc[v] \in Working
    BY <1>5 DEF ForkWorker, TypeOK, Working
  <2> QED
    BY <1>5, <2>1, LedgerStutters DEF ForkWorker
<1>6. ASSUME \A w \in Link : ~Alive(w) /\ wpc'[w] \in {wpc[w], "none"},
             UNCHANGED local
      PROVE  /\ Held = {} /\ Held' = {} /\ Stored' = Stored
             /\ (\A c \in Chunk : file'.info[c].status = file.info[c].status)
                   => UNCHANGED Ledger!ledger
  <2>1. \A w \in Link : wpc[w] \notin Working /\ wpc'[w] \notin Working
    BY <1>6 DEF Alive, Working, Ended
  <2>2. Held = {} /\ Held' = {} /\ Stored' = Stored
    BY <1>6, <2>1, HeldChunk DEF Stored
  <2> QED
    BY <2>2 DEF Ledger!ledger, Recorded, Lost
<1>7. ASSUME Held = {}, Held' = {}, Stored' = Stored,
             file' = ResetDownloadingChunks(file)
      PROVE  Ledger!Next
  <2>1. \A c \in Chunk : /\ file'.info[c].status = "OK" <=>
                               file.info[c].status = "OK"
                         /\ file'.info[c].status # "DOWNLOAD"
    BY <1>m, <1>7, ResetDownloadingType
  <2>2. Recorded' = Recorded /\ Lost' = {}
    BY <2>1 DEF Recorded, Lost
  <2> QED
    BY <1>7, <2>2 DEF Ledger!Next, Ledger!Recover
<1>8. CASE HandlerSave
  <2>1. \A w \in Link : ~Alive(w)
    BY <1>8 DEF HandlerSave, Layer2, PhaseInv
  <2>2. file' = ResetDownloadingChunks(file) /\ UNCHANGED <<local, wpc>>
    BY <1>8 DEF HandlerSave, Layer4, HandlerInv
  <2> QED
    BY <2>1, <2>2, <1>6, <1>7
<1>9. CASE Status
  <2>1. /\ UNCHANGED <<local, wpc>> /\ \A w \in Link : ~Alive(w)
        /\ \/ file' = ResetDownloadingChunks(file)
           \/ file' = ResetAllChunks(file)
           \/ file' = CheckDataChunks(file, local)
    BY <1>9 DEF Status, StatusRecover, StatusReset, StatusCheck, procVars,
                SessionOver
  <2>2. CASE file' = ResetAllChunks(file)
    <3>1. \A c \in Chunk : file'.info[c].status = "PENDING"
      BY <1>m, <2>2, ResetAllType
    <3>2. Recorded' = {} /\ Lost' = {}
      BY <3>1 DEF Recorded, Lost
    <3> QED
      BY <2>1, <3>2, <1>6 DEF Ledger!Next, Ledger!Reset
  <2>3. CASE file' = CheckDataChunks(file, local)
    <3>1. \A c \in Chunk : file'.info[c] = file.info[c]
      BY <1>m, <2>3, RepairIsTruthful DEF Layer3, OkInv, StatusInv
    <3> QED
      BY <2>1, <3>1, <1>6
  <2> QED
    BY <2>1, <2>2, <2>3, <1>6, <1>7
<1>10. CASE Rerun
  <2>1. \A w \in Link : ~Alive(w) /\ wpc'[w] = "none"
    BY <1>10 DEF Rerun, SessionOver
  <2> QED
    BY <1>10, <2>1, <1>6 DEF Rerun
<1>11. ASSUME UNCHANGED <<local, cur, wpc>>, file'.info = file.info
       PROVE  UNCHANGED Ledger!ledger
  BY <1>11, LedgerStutters
<1>12. CASE MainStep
  BY <1>12, <1>11, <1>m DEF MainStep, MainBegin, ForkMonitor, MainFinish,
                            MainEnd, Metadata
<1>13. CASE HandlerWaited \/ HandlerLoad \/ MonitorTurn \/ Sigint
  BY <1>13, <1>11 DEF HandlerWaited, HandlerLoad, MonitorTurn, Sigint
<1>14. ASSUME NEW l \in Link, ServerStep(l) \/ LinkBreaks(l)
       PROVE  UNCHANGED Ledger!ledger
  BY <1>14, <1>11 DEF ServerStep, LinkBreaks, procVars
<1>15. CASE CloseConnections \/ UNCHANGED vars
  BY <1>15, <1>11 DEF CloseConnections, procVars, vars
<1>16. ASSUME NEW w \in Link, LastWrite(w)
       PROVE  FALSE
  BY <1>16 DEF LastWrite
<1> QED
  BY <1>2, <1>3, <1>4, <1>5, <1>8, <1>9, <1>10, <1>12, <1>13, <1>14, <1>15,
     <1>16 DEF Next, HandlerStep

(***************************************************************************)
(* A download implements the ledger: every load-change-write of the whole  *)
(* array under the semaphore, every death and every repair has the effect  *)
(* of one atomic step of ChunkLedger, or none.  For at most one SIGINT in  *)
(* a session: the second one lets a dying worker write after the repair.   *)
(***************************************************************************)
THEOREM DownloadIsALedger ==
    ASSUME ChunksFitWire, MaxSigint <= 1 PROVE Spec => LedgerSpec
<1>1. Layers /\ [Next]_vars => [Ledger!Next]_(Ledger!ledger)
  <2>1. Layers => ~Doomed
    BY DownloadAssumption DEF Layers, Layer1, TypeOK, Doomed
  <2> QED
    BY <2>1, LedgerStep
<1> QED
  BY <1>1, LedgerInit, LayersInv, PTL DEF Spec, LedgerSpec, Ledger!Spec
=============================================================================
