-------------------------- MODULE MhDownloadProofs --------------------------
(***************************************************************************)
(* The safety of MhDownload for every number of chunks and connections,    *)
(* of signals and of sessions.  The invariant IInv of MhDownloadInv is     *)
(* proved in layers; each layer uses the earlier ones as known invariants. *)
(***************************************************************************)
EXTENDS MhDownloadInv, MhMetadataProofs

(* The number that RequestChunk sends is the chunk's. *)
LEMMA WireNumberExact ==
    ASSUME ChunksFitWire, NEW c \in Chunk
    PROVE  WireNumber(c) = c
BY ChunksAssumption, ServerAssumption DEF ChunksFitWire, Chunk, WireNumber

LEMMA AnswerType ==
    ASSUME NEW c \in Chunk
    PROVE  /\ MD5(c) \in Digest
           /\ Answer(c) \in Response
           /\ Answer(c).data = c
           /\ Answer(c).md5sum = MD5(c)
BY DEF Answer, Response, Digest, Data

(* Layer 1: types, the semaphore, and what is on the wire. *)
Layer1 == TypeOK /\ LockInv /\ LinkInv

LEMMA Init1 == Init => Layer1
<1> SUFFICES ASSUME Init PROVE Layer1
  OBVIOUS
<1> USE InitialType DEF Init, ProcInit, LinkInit
<1>1. TypeOK
  <2>1. LinkTypeOK
    BY DEF LinkTypeOK, NoResponse, Response, Digest, Data, NoRequest
  <2>2. file \in Metadata /\ mmem \in Metadata
    BY DEF Metadata, NoCopy, InUse
  <2>3. /\ local \in [Chunk -> Data]
        /\ rcv \in [Link -> Response]
        /\ mon \in [pc : {"off", "run"}, inUse : InUse, mem : InUse]
    BY DEF NoResponse, Response, Digest, Data, MonitorOff, InUse
  <2>4. /\ killProc \in 0 .. MaxSigint
        /\ session \in 1 .. MaxSessions
    BY DownloadAssumption
  <2> QED
    BY <2>1, <2>2, <2>3, <2>4 DEF TypeOK, MainPC, WorkerPC
<1>2. LockInv
  BY DEF LockInv, Critical
<1>3. LinkInv
  BY DEF LinkInv, Working, NoRequest
<1> QED
  BY <1>1, <1>2, <1>3 DEF Layer1

(* A worker that dies gives the semaphore back; nothing else moves. *)
LEMMA Die1 ==
    ASSUME TypeOK, LockInv, NEW w \in Link, Die(w)
    PROVE  /\ wpc' = [wpc EXCEPT ![w] = "killed"]
           /\ wpc' \in [Link -> WorkerPC]
           /\ wmem' \in [Link -> ControlData]
           /\ sem' \in {0, 1}
           /\ LockInv'
<1>1. /\ wpc' = [wpc EXCEPT ![w] = "killed"]
      /\ wpc' \in [Link -> WorkerPC]
  BY DEF Die, TypeOK, WorkerPC, Ended
<1>2. wmem' \in [Link -> ControlData]
  BY InitialType DEF Die, TypeOK
<1>3. sem' \in {0, 1} /\ LockInv'
  BY <1>1 DEF Die, LockInv, TypeOK, Critical
<1> QED
  BY <1>1, <1>2, <1>3

(* A worker that writes its copy and releases the semaphore. *)
LEMMA Write1 ==
    ASSUME TypeOK, LockInv, NEW w \in Link, wpc[w] \in Critical,
           WriteAndRelease(w), NEW p \in WorkerPC \ Critical,
           wpc' = [wpc EXCEPT ![w] = p]
    PROVE  /\ file' \in Metadata
           /\ wmem' \in [Link -> ControlData]
           /\ sem' \in {0, 1}
           /\ LockInv'
<1>1. file' \in Metadata
  BY DEF WriteAndRelease, TypeOK, Metadata
<1>2. wmem' \in [Link -> ControlData]
  BY InitialType DEF WriteAndRelease, TypeOK
<1>3. sem' \in {0, 1} /\ LockInv'
  BY DEF WriteAndRelease, LockInv, TypeOK
<1> QED
  BY <1>1, <1>2, <1>3

LEMMA Worker1 ==
    ASSUME ChunksFitWire, TypeOK, LockInv, LinkInv, NEW w \in Link,
           WorkerStep(w)
    PROVE  TypeOK' /\ LockInv' /\ LinkInv'
<1>1. CASE WorkerStart(w)
  <2>1. CASE wpc' = [wpc EXCEPT ![w] = "top"] /\ UNCHANGED <<sem, wmem>>
    <3>1. /\ UNCHANGED <<conn, req, rsp, srv, file, local, killProc, main, mmem,
                         mon, cur, rcv, session, stale>>
          /\ wpc[w] = "start"
      BY <1>1 DEF WorkerStart
    <3>2. cmd' \in [Link -> BOOLEAN]
      BY <1>1, <2>1 DEF WorkerStart, TypeOK, LinkTypeOK, Die
    <3>3. TypeOK'
      BY <2>1, <3>1, <3>2 DEF TypeOK, LinkTypeOK, WorkerPC
    <3>4. LockInv' /\ LinkInv'
      BY <2>1, <3>1 DEF LockInv, LinkInv, TypeOK, WorkerPC, Critical, Working
    <3> QED
      BY <3>3, <3>4
  <2>2. CASE Die(w) /\ UNCHANGED cmd
    BY <1>1, <2>2, Die1 DEF WorkerStart, TypeOK, LinkTypeOK, LinkInv, Working
  <2> QED
    BY <1>1, <2>1, <2>2 DEF WorkerStart
<1>2. CASE AcquireForClaim(w)
  <2>1. CASE NextPendingChunk(file.info) = -1
    BY <1>2, <2>1 DEF AcquireForClaim, TypeOK, LinkTypeOK, LockInv, LinkInv,
                      linkVars, WorkerPC, Critical, Working, Ended
  <2>2. CASE NextPendingChunk(file.info) # -1
    <3> DEFINE c == NextPendingChunk(file.info)
    <3>1. c \in Chunk
      BY <2>2, NextPendingChunkIsClaimable DEF Claimable
    <3>2. SetStatus(file.info, c, "DOWNLOAD") \in ControlData
      BY <3>1, SetStatusType DEF TypeOK, Metadata, ChunkStatus
    <3>3. /\ sem = 1
          /\ sem' = 0
          /\ cur' = [cur EXCEPT ![w] = c]
          /\ wmem' = [wmem EXCEPT ![w] = SetStatus(file.info, c, "DOWNLOAD")]
          /\ wpc[w] = "top"
          /\ wpc' = [wpc EXCEPT ![w] = "claim"]
          /\ UNCHANGED <<linkVars, file, local, killProc, main, mmem, mon, rcv,
                         session, stale>>
      BY <1>2, <2>2 DEF AcquireForClaim
    <3> HIDE DEF c
    <3>4. TypeOK'
      BY <3>1, <3>2, <3>3 DEF TypeOK, LinkTypeOK, linkVars, WorkerPC
    <3>5. LockInv'
      BY <3>3 DEF LockInv, TypeOK, Critical
    <3>6. LinkInv'
      BY <3>1, <3>3 DEF LinkInv, TypeOK, linkVars, Working
    <3> QED
      BY <3>4, <3>5, <3>6
  <2> QED
    BY <2>1, <2>2
<1>3. CASE CommitClaim(w)
  <2>1. wpc[w] \in Critical /\ "ask" \in WorkerPC \ Critical
    BY <1>3 DEF CommitClaim, Critical, WorkerPC, Working
  <2>2. /\ file' \in Metadata
        /\ wmem' \in [Link -> ControlData]
        /\ sem' \in {0, 1}
        /\ LockInv'
    BY <1>3, <2>1, Write1 DEF CommitClaim
  <2>3. TypeOK'
    BY <1>3, <2>2 DEF CommitClaim, TypeOK, LinkTypeOK, linkVars, WorkerPC,
                      Working
  <2>4. LinkInv'
    BY <1>3 DEF CommitClaim, LinkInv, TypeOK, linkVars, Working
  <2> QED
    BY <2>2, <2>3, <2>4
<1>4. CASE RequestChunk(w)
  <2>1. wpc[w] = "ask" /\ cur[w] \in Chunk /\ WireNumber(cur[w]) = cur[w]
    BY <1>4, WireNumberExact DEF RequestChunk, LinkInv, Working
  <2>2. CASE /\ wpc' = [wpc EXCEPT ![w] = "recv"]
             /\ req' = [req EXCEPT ![w] = IF conn[w] = "up"
                                          THEN WireNumber(cur[w])
                                          ELSE NoRequest]
             /\ UNCHANGED <<sem, wmem>>
    BY <1>4, <2>1, <2>2 DEF RequestChunk, TypeOK, LinkTypeOK, LockInv, LinkInv,
                            WorkerPC, Critical, Working
  <2>3. CASE Die(w) /\ UNCHANGED req
    BY <1>4, <2>1, <2>3, Die1 DEF RequestChunk, TypeOK, LinkTypeOK, LinkInv,
                                  Working
  <2> QED
    BY <1>4, <2>2, <2>3 DEF RequestChunk
<1>5. CASE ReceiveChunk(w)
  <2>1. TypeOK'
    <3>1. NoResponse \in Response
      BY DEF NoResponse, Response, Digest, Data
    <3> QED
      BY <1>5, <3>1 DEF ReceiveChunk, TypeOK, LinkTypeOK, WorkerPC, Working
  <2>2. LockInv'
    BY <1>5 DEF ReceiveChunk, LockInv, TypeOK, Critical
  <2>3. LinkInv'
    <3>1. /\ rcv' = [rcv EXCEPT ![w] = Answer(cur[w])]
          /\ rsp' = [rsp EXCEPT ![w] = NoResponse]
          /\ wpc[w] = "recv" /\ wpc' = [wpc EXCEPT ![w] = "store"]
          /\ UNCHANGED <<conn, cur, req>>
      BY <1>5 DEF ReceiveChunk, LinkInv
    <3>2. req[w] = NoRequest
      BY <1>5 DEF ReceiveChunk, LinkInv
    <3> QED
      BY <3>1, <3>2 DEF LinkInv, TypeOK, LinkTypeOK, Working
  <2> QED
    BY <2>1, <2>2, <2>3
<1>6. CASE ReceiveFails(w)
  <2>1. PICK digest \in {JunkDigest, MD5(WireNumber(cur[w]))} :
            rcv' = [rcv EXCEPT ![w] = [md5sum |-> digest, data |-> Hole]]
    BY <1>6 DEF ReceiveFails
  <2>2. cur[w] \in Chunk /\ WireNumber(cur[w]) = cur[w]
    BY <1>6, WireNumberExact DEF ReceiveFails, LinkInv, Working
  <2>3. [md5sum |-> digest, data |-> Hole] \in Response
    BY <2>1, <2>2, AnswerType DEF Response, Digest, Data
  <2>4. TypeOK'
    BY <1>6, <2>1, <2>3 DEF ReceiveFails, TypeOK, LinkTypeOK, linkVars,
                            WorkerPC, Working
  <2>5. LockInv' /\ LinkInv'
    <3>1. LockInv'
      BY <1>6 DEF ReceiveFails, LockInv, TypeOK, Critical
    <3>2. LinkInv'
      BY <1>6, <2>1 DEF ReceiveFails, LinkInv, TypeOK, LinkTypeOK, linkVars,
                        Working
    <3> QED
      BY <3>1, <3>2
  <2> QED
    BY <2>4, <2>5
<1>7. CASE StoreChunk(w)
  <2>1. cur[w] \in Chunk /\ rcv[w].data \in Data
    BY <1>7 DEF StoreChunk, LinkInv, TypeOK, Working, Response
  <2>2. TypeOK'
    BY <1>7, <2>1 DEF StoreChunk, TypeOK, LinkTypeOK, linkVars, WorkerPC,
                      Working
  <2>3. LockInv' /\ LinkInv'
    BY <1>7 DEF StoreChunk, LockInv, LinkInv, TypeOK, linkVars, Critical,
                Working
  <2> QED
    BY <2>2, <2>3
<1>8. CASE AcquireForUpdate(w)
  <2>1. /\ cur[w] \in Chunk
        /\ rcv[w].md5sum \in Digest
        /\ file.info \in ControlData
    BY <1>8 DEF AcquireForUpdate, LinkInv, TypeOK, Working, Response, Metadata
  <2>2. wmem' \in [Link -> ControlData]
    <3>1. (IF wpc[w] = "ok" THEN "OK" ELSE "ERROR") \in ChunkStatus
      BY DEF ChunkStatus
    <3>2. SetChunk(file.info, cur[w], IF wpc[w] = "ok" THEN "OK" ELSE "ERROR",
                   rcv[w].md5sum) \in ControlData
      BY <2>1, <3>1, SetChunkType
    <3> QED
      BY <1>8, <3>2 DEF AcquireForUpdate, TypeOK
  <2>3. TypeOK'
    BY <1>8, <2>2 DEF AcquireForUpdate, TypeOK, LinkTypeOK, linkVars, WorkerPC,
                      Working
  <2>4. LockInv' /\ LinkInv'
    BY <1>8 DEF AcquireForUpdate, LockInv, LinkInv, TypeOK, linkVars, Critical,
                Working
  <2> QED
    BY <2>3, <2>4
<1>9. CASE CommitUpdate(w)
  <2> DEFINE p == IF wpc[w] = "commitErr" THEN "failed"
                  ELSE IF killProc = 0 THEN "top" ELSE "stopped"
  <2>1. wpc[w] \in Critical /\ p \in WorkerPC \ Critical
    BY <1>9 DEF CommitUpdate, Critical, WorkerPC, Working, Ended
  <2>2. wpc' = [wpc EXCEPT ![w] = p] /\ WriteAndRelease(w)
    BY <1>9 DEF CommitUpdate
  <2>3. /\ file' \in Metadata
        /\ wmem' \in [Link -> ControlData]
        /\ sem' \in {0, 1}
        /\ LockInv'
    BY <2>1, <2>2, Write1
  <2>4. TypeOK'
    <3>1. wpc' \in [Link -> WorkerPC]
      BY <2>1, <2>2 DEF TypeOK
    <3>2. UNCHANGED <<linkVars, local, killProc, main, mmem, mon, cur, rcv,
                      session, stale>>
      BY <1>9 DEF CommitUpdate
    <3> QED
      BY <2>3, <3>1, <3>2 DEF TypeOK, LinkTypeOK, linkVars
  <2>5. LinkInv'
    BY <1>9, <2>2 DEF CommitUpdate, LinkInv, TypeOK, linkVars, Working
  <2> QED
    BY <2>3, <2>4, <2>5
<1> QED
  BY <1>1, <1>2, <1>3, <1>4, <1>5, <1>6, <1>7, <1>8, <1>9 DEF WorkerStep

LEMMA Server1 ==
    ASSUME TypeOK, LockInv, LinkInv, NEW l \in Link, ServerStep(l)
    PROVE  TypeOK' /\ LockInv' /\ LinkInv'
<1>1. UNCHANGED <<procVars, file, local, session, stale>>
  BY DEF ServerStep
<1>2. LinkTypeOK' /\ LinkInv'
  <2>1. CASE SrvRcvCmd(l)
    BY <2>1, <1>1 DEF SrvRcvCmd, TypeOK, LinkTypeOK, LinkInv, procVars
  <2>2. CASE SrvSendChunk(l)
    <3>1. /\ req[l] \in Chunk
          /\ req[l] = cur[l]
          /\ wpc[l] \in {"recv", "killed"}
      BY <2>2 DEF SrvSendChunk, TypeOK, LinkTypeOK, LinkInv
    <3>2. /\ rsp' = [rsp EXCEPT ![l] = Answer(cur[l])]
          /\ req' = [req EXCEPT ![l] = NoRequest]
          /\ UNCHANGED <<conn, cmd, srv>>
      BY <2>2, <3>1 DEF SrvSendChunk, Answer
    <3>3. Answer(cur[l]) \in Response
      BY <3>1, AnswerType
    <3>4. LinkTypeOK'
      BY <3>2, <3>3 DEF TypeOK, LinkTypeOK
    <3>5. LinkInv'
      BY <1>1, <3>1, <3>2 DEF TypeOK, LinkTypeOK, LinkInv, procVars
    <3> QED
      BY <3>4, <3>5
  <2>3. CASE SrvExit(l)
    BY <2>3, <1>1 DEF SrvExit, TypeOK, LinkTypeOK, LinkInv, procVars
  <2> QED
    BY <2>1, <2>2, <2>3 DEF ServerStep, SrvStep
<1> QED
  BY <1>1, <1>2 DEF TypeOK, LockInv, procVars

(***************************************************************************)
(* One step at a time.  Each lemma states what an action does to Layer1.   *)
(***************************************************************************)
LEMMA Step1 ==
    ASSUME ChunksFitWire, Layer1, [Next]_vars
    PROVE  Layer1'
<1> USE DownloadAssumption DEF Layer1
<1>t. TypeOK /\ LockInv /\ LinkInv
  OBVIOUS
<1>1. CASE UNCHANGED vars
  BY <1>t, <1>1 DEF vars, TypeOK, LinkTypeOK, LockInv, LinkInv, linkVars
<1>2. ASSUME MainStep
      PROVE  Layer1'
  <2>1. CASE MainBegin
    BY <1>t, <2>1 DEF MainBegin, TypeOK, LinkTypeOK, LockInv, LinkInv, linkVars,
                      Metadata, InUse, MainPC
  <2>2. CASE ForkMonitor
    BY <1>t, <2>2 DEF ForkMonitor, TypeOK, LinkTypeOK, LockInv, LinkInv,
                      linkVars, MainPC, InUse
  <2>3. CASE MainFinish
    BY <1>t, <2>3 DEF MainFinish, TypeOK, LinkTypeOK, LockInv, LinkInv,
                      linkVars, Metadata, InUse, MainPC
  <2>4. CASE MainEnd
    BY <1>t, <2>4 DEF MainEnd, TypeOK, LinkTypeOK, LockInv, LinkInv, linkVars,
                      MainPC, Over
  <2> QED
    BY <1>2, <2>1, <2>2, <2>3, <2>4 DEF MainStep
<1>3. ASSUME HandlerStep
      PROVE  Layer1'
  <2>1. CASE HandlerWaited
    BY <1>t, <2>1 DEF HandlerWaited, TypeOK, LinkTypeOK, LockInv, LinkInv,
                      linkVars, MainPC, Handler
  <2>2. CASE HandlerLoad
    <3>1. ResetDownloadingChunks(file) \in Metadata
      BY <1>t, ResetDownloadingType DEF TypeOK
    <3> QED
      BY <1>t, <2>2, <3>1 DEF HandlerLoad, TypeOK, LinkTypeOK, LockInv, LinkInv,
                              linkVars, MainPC, Handler
  <2>3. CASE HandlerSave
    <3>1. NoCopy \in Metadata
      BY InitialType DEF NoCopy, Metadata, InUse
    <3> QED
      BY <1>t, <2>3, <3>1 DEF HandlerSave, TypeOK, LinkTypeOK, LockInv, LinkInv,
                              linkVars, MainPC, Over
  <2> QED
    BY <1>3, <2>1, <2>2, <2>3 DEF HandlerStep
<1>4. ASSUME MonitorTurn
      PROVE  Layer1'
  <2>1. mon' \in [pc : {"off", "run"}, inUse : InUse, mem : InUse]
    <3>1. file.inUse \in InUse /\ mon.mem \in InUse
      BY <1>t DEF TypeOK, Metadata
    <3>2. MonitorOff \in [pc : {"off", "run"}, inUse : InUse, mem : InUse]
      BY DEF MonitorOff, InUse
    <3>3. mon \in [pc : {"off", "run"}, inUse : InUse, mem : InUse]
      BY <1>t DEF TypeOK
    <3> QED
      BY <1>4, <3>1, <3>2, <3>3 DEF MonitorTurn
  <2> QED
    BY <1>t, <1>4, <2>1 DEF MonitorTurn, TypeOK, LinkTypeOK, LockInv, LinkInv,
                            linkVars
<1>5. ASSUME Sigint
      PROVE  Layer1'
  BY <1>t, <1>5 DEF Sigint, TypeOK, LinkTypeOK, LockInv, LinkInv, linkVars,
                    MainPC, Handler, MonitorOff, InUse
<1>6. ASSUME NEW w \in Link, ForkWorker(w)
      PROVE  Layer1'
  BY <1>t, <1>6 DEF ForkWorker, TypeOK, LinkTypeOK, LockInv, LinkInv, linkVars,
                    WorkerPC, Critical, Working
<1>7. ASSUME NEW w \in Link, WorkerStep(w)
      PROVE  Layer1'
  BY <1>t, <1>7, Worker1
<1>8. ASSUME NEW w \in Link, WorkerKilled(w)
      PROVE  Layer1'
  BY <1>t, <1>8, Die1 DEF WorkerKilled, TypeOK, LinkTypeOK, LinkInv, linkVars,
                          Working
<1>9. ASSUME NEW w \in Link, LastWrite(w)
      PROVE  Layer1'
  <2>1. Die(w) /\ UNCHANGED <<linkVars, killProc, main, mmem, mon, cur, rcv,
                              session, stale>>
    BY <1>9 DEF LastWrite
  <2>2. file' \in Metadata
    BY <1>t, <1>9 DEF LastWrite, TypeOK, Metadata
  <2>3. local' \in [Chunk -> Data]
    <3>1. rcv[w].data \in Data
      BY <1>t DEF TypeOK, Response
    <3> QED
      BY <1>t, <1>9, <3>1 DEF LastWrite, TypeOK
  <2>4. LinkInv'
    BY <1>t, <2>1, Die1 DEF LinkInv, TypeOK, LinkTypeOK, linkVars, Working
  <2> QED
    BY <1>t, <2>1, <2>2, <2>3, <2>4, Die1 DEF TypeOK, LinkTypeOK, linkVars
<1>10. ASSUME NEW l \in Link, ServerStep(l)
       PROVE  Layer1'
  BY <1>t, <1>10, Server1
<1>11. ASSUME NEW l \in Link, LinkBreaks(l)
       PROVE  Layer1'
  <2>1. LinkTypeOK' /\ UNCHANGED <<procVars, file, local, session, stale>>
    <3>1. NoResponse \in Response
      BY DEF NoResponse, Response, Digest, Data
    <3> QED
      BY <1>t, <1>11, <3>1 DEF LinkBreaks, LinkFail, TypeOK, LinkTypeOK
  <2>2. LinkInv'
    BY <1>t, <1>11 DEF LinkBreaks, LinkFail, LinkInv, TypeOK, LinkTypeOK,
                       procVars
  <2> QED
    BY <1>t, <2>1, <2>2 DEF TypeOK, LockInv, procVars
<1>12. ASSUME Crash
       PROVE  Layer1'
  <2>1. wpc' \in [Link -> WorkerPC] /\ wmem' \in [Link -> ControlData]
    BY <1>t, <1>12, InitialType DEF Crash, TypeOK, WorkerPC, Ended
  <2>2. mmem' \in Metadata
    BY <1>12, InitialType DEF Crash, NoCopy, Metadata, InUse
  <2>3. mon' \in [pc : {"off", "run"}, inUse : InUse, mem : InUse]
    BY <1>12 DEF Crash, MonitorOff, InUse
  <2>4. TypeOK'
    BY <1>t, <1>12, <2>1, <2>2, <2>3 DEF Crash, TypeOK, LinkTypeOK, linkVars,
                                        MainPC, Over
  <2>5. \A w \in Link : \/ wpc'[w] = "killed"
                        \/ ~Alive(w) /\ wpc'[w] = wpc[w]
    BY <1>12 DEF Crash, Alive
  <2>6. LockInv'
    BY <2>5 DEF LockInv, Critical, Alive, Ended
  <2>7. LinkInv'
    BY <1>t, <1>12, <2>5 DEF Crash, LinkInv, linkVars, Working, Alive, Ended
  <2> QED
    BY <2>4, <2>6, <2>7
<1>13. ASSUME CloseConnections
       PROVE  Layer1'
  BY <1>t, <1>13 DEF CloseConnections, TypeOK, LinkTypeOK, LockInv, LinkInv,
                     procVars
<1>14. ASSUME Rerun
       PROVE  Layer1'
  <2>1. LinkTypeOK'
    BY <1>14 DEF Rerun, LinkTypeOK, NoResponse, Response, Digest, Data,
                 NoRequest
  <2>2. /\ wmem' \in [Link -> ControlData]
        /\ mmem' \in Metadata
        /\ mon' \in [pc : {"off", "run"}, inUse : InUse, mem : InUse]
        /\ rcv' \in [Link -> Response]
    BY <1>14, InitialType DEF Rerun, NoCopy, Metadata, InUse, MonitorOff,
                              NoResponse, Response, Digest, Data
  <2>3. session' \in 1 .. MaxSessions /\ killProc' \in 0 .. MaxSigint
    BY <1>t, <1>14 DEF Rerun, TypeOK
  <2>4. TypeOK'
    BY <1>t, <1>14, <2>1, <2>2, <2>3 DEF Rerun, TypeOK, MainPC, WorkerPC
  <2>5. LockInv' /\ LinkInv'
    BY <1>14 DEF Rerun, LockInv, LinkInv, Critical, Working, NoRequest
  <2> QED
    BY <2>4, <2>5
<1>15. ASSUME Status
       PROVE  Layer1'
  <2>1. file' \in Metadata /\ UNCHANGED <<linkVars, procVars, local, session,
                                          stale>>
    BY <1>t, <1>15, ResetDownloadingType, ResetAllType, CheckType
       DEF Status, StatusRecover, StatusReset, StatusCheck, TypeOK
  <2> QED
    BY <1>t, <2>1 DEF TypeOK, LinkTypeOK, LockInv, LinkInv, linkVars, procVars
<1> QED
  BY <1>1, <1>2, <1>3, <1>4, <1>5, <1>6, <1>7, <1>8, <1>9, <1>10, <1>11, <1>12,
     <1>13, <1>14, <1>15 DEF Next

(***************************************************************************)
(* Type correctness: every variable of the client, of its connections and  *)
(* of the files stays in its type; in particular the semaphore is never    *)
(* released twice and the server is never asked for a chunk that is not    *)
(* one.                                                                    *)
(***************************************************************************)
THEOREM TypeCorrect == ASSUME ChunksFitWire PROVE Spec => []TypeOK
<1>1. Init => Layer1
  BY Init1
<1>2. Layer1 /\ [Next]_vars => Layer1'
  BY Step1
<1>3. Layer1 => TypeOK
  BY DEF Layer1
<1> QED
  BY <1>1, <1>2, <1>3, PTL DEF Spec
-----------------------------------------------------------------------------
(* Layer 2: who works on what, and what the workers are about to write. *)
Layer2 == PhaseInv /\ ClaimInv /\ ImageInv /\ ExclusiveClaim

LEMMA Init2 == Init => Layer2
BY DEF Init, ProcInit, Layer2, PhaseInv, ClaimInv, ImageInv, ExclusiveClaim,
       Alive, Ended, Working, Critical

(* Steps that touch neither a worker nor the statuses in the file. *)
LEMMA Quiet2 ==
    ASSUME Layer2, UNCHANGED <<wpc, cur, wmem>>,
           file'.info = file.info,
           Doomed => Doomed',
           ~Doomed' => \/ main' \in {"fork", "wait", "hwait"}
                       \/ \A w \in Link : ~Alive(w)
    PROVE  Layer2'
BY DEF Layer2, PhaseInv, ClaimInv, ImageInv, ExclusiveClaim, Alive

(* Nobody is at work. *)
LEMMA Idle2 ==
    ASSUME UNCHANGED <<wpc, cur>>, \A w \in Link : ~Alive(w), TypeOK
    PROVE  Layer2'
<1>1. \A w \in Link : /\ wpc[w] \notin Working \cup {"claim"}
                      /\ wpc[w] \notin Critical
  BY DEF Alive, Working, Critical, Ended
<1> QED
  BY <1>1 DEF Layer2, PhaseInv, ClaimInv, ImageInv, ExclusiveClaim, Alive

(* A worker that dies, with or without others. *)
LEMMA Death2 ==
    ASSUME Layer2, UNCHANGED cur, file'.info = file.info,
           Doomed => Doomed',
           \A w \in Link : \/ wpc'[w] = "killed"
                           \/ wpc'[w] = wpc[w] /\ wmem'[w] = wmem[w],
           main' = main \/ \A w \in Link : wpc'[w] \in Ended \cup {"none"}
    PROVE  Layer2'
<1>1. PhaseInv'
  BY DEF Layer2, PhaseInv, Alive, Ended
<1>2. ClaimInv'
  BY DEF Layer2, ClaimInv, Working
<1>3. ImageInv'
  BY DEF Layer2, ImageInv, Critical
<1>4. ExclusiveClaim'
  BY DEF Layer2, ExclusiveClaim, Working
<1> QED
  BY <1>1, <1>2, <1>3, <1>4 DEF Layer2

(* A worker that moves outside its critical section, or dies. *)
LEMMA Move2 ==
    ASSUME TypeOK, Layer2, NEW w \in Link, Alive(w), NEW p \in WorkerPC \ Critical,
           wpc' = [wpc EXCEPT ![w] = p],
           p \in Working => wpc[w] \in Working,
           \A v \in Link : v # w => wmem'[v] = wmem[v],
           UNCHANGED <<cur, main, killProc>>, file'.info = file.info
    PROVE  Layer2'
<1>1. PhaseInv'
  BY DEF Layer2, PhaseInv, Alive, TypeOK, Doomed
<1>2. ClaimInv'
  BY DEF Layer2, ClaimInv, TypeOK, Doomed
<1>3. ImageInv'
  BY DEF Layer2, ImageInv, TypeOK, Doomed
<1>4. ExclusiveClaim'
  <2>1. p # "claim"
    BY DEF Critical
  <2> QED
    BY <2>1 DEF Layer2, ExclusiveClaim, TypeOK
<1> QED
  BY <1>1, <1>2, <1>3, <1>4 DEF Layer2

(* A worker that writes its copy back. *)
LEMMA Write2 ==
    ASSUME Layer1, Layer2, ~Doomed, NEW w \in Link, wpc[w] \in Critical,
           NEW p \in {"ask", "top", "failed", "stopped"},
           p = "ask" <=> wpc[w] = "claim",
           WriteAndRelease(w),
           wpc' = [wpc EXCEPT ![w] = p],
           UNCHANGED <<cur, main, killProc>>
    PROVE  /\ Layer2'
           /\ \A c \in Chunk : c # cur[w] => file'.info[c] = file.info[c]
           /\ file'.info[cur[w]] = wmem[w][cur[w]]
           /\ file'.info[cur[w]].status =
                 CASE wpc[w] = "claim" -> "DOWNLOAD"
                   [] wpc[w] = "commitOk" -> "OK"
                   [] wpc[w] = "commitErr" -> "ERROR"
<1> USE DEF Layer1
<1>1. /\ file'.info = wmem[w]
      /\ wmem' = [wmem EXCEPT ![w] = InitControlData]
  BY DEF WriteAndRelease, TypeOK, Metadata
<1>2. cur[w] \in Chunk
  BY DEF LinkInv, Critical, Working
<1>3. \A c \in Chunk : c # cur[w] => file'.info[c] = file.info[c]
  BY <1>1 DEF Layer2, ImageInv
<1>4. \A v \in Link : v # w => wpc[v] \notin Critical
  BY DEF LockInv
<1>5. \A v \in Link : /\ v # w
                      /\ wpc[v] \in Working
                      => cur[v] # cur[w] /\ cur[v] \in Chunk
  BY DEF Layer2, ExclusiveClaim, LinkInv, Critical, Working
<1>6. wpc[w] \in {"claim", "commitOk", "commitErr"}
  BY DEF Critical
<1>7. PhaseInv'
  BY <1>6 DEF Layer2, PhaseInv, Alive, TypeOK, Doomed, Ended
<1>8. ClaimInv'
  <2> SUFFICES ASSUME NEW v \in Link, wpc'[v] \in Working
               PROVE  file'.info[cur[v]].status = "DOWNLOAD"
    BY DEF ClaimInv
  <2>1. CASE v = w
    <3>1. wpc[w] = "claim"
      BY <2>1, <1>6 DEF TypeOK, Working
    <3> QED
      BY <2>1, <3>1, <1>1 DEF Layer2, ImageInv
  <2>2. CASE v # w
    <3>1. wpc[v] \in Working
      BY <2>2 DEF TypeOK
    <3> QED
      BY <2>2, <3>1, <1>3, <1>5 DEF Layer2, ClaimInv
  <2> QED
    BY <2>1, <2>2
<1>9. ImageInv'
  <2>1. \A v \in Link : wpc'[v] \notin Critical
    BY <1>4 DEF TypeOK, Critical
  <2> QED
    BY <2>1 DEF ImageInv
<1>10. ExclusiveClaim'
  BY <1>6 DEF Layer2, ExclusiveClaim, TypeOK, Working
<1>11. file'.info[cur[w]].status = CASE wpc[w] = "claim" -> "DOWNLOAD"
                                     [] wpc[w] = "commitOk" -> "OK"
                                     [] wpc[w] = "commitErr" -> "ERROR"
  BY <1>1, <1>6 DEF Layer2, ImageInv
<1> QED
  BY <1>1, <1>3, <1>7, <1>8, <1>9, <1>10, <1>11 DEF Layer2

(* A worker that takes the semaphore and prepares its copy. *)
LEMMA Acquire2 ==
    ASSUME Layer1, Layer2, ~Doomed, NEW w \in Link, sem = 1, Alive(w),
           NEW c \in Chunk,
           NEW p \in {"claim", "commitOk", "commitErr"},
           IF p = "claim" THEN c \in Claimable(file.info)
                          ELSE wpc[w] \in Working /\ c = cur[w],
           cur' = [cur EXCEPT ![w] = c],
           wpc' = [wpc EXCEPT ![w] = p],
           NEW info \in ControlData, wmem' = [wmem EXCEPT ![w] = info],
           \A d \in Chunk : d # c => info[d] = file.info[d],
           info[c].status = CASE p = "claim" -> "DOWNLOAD"
                              [] p = "commitOk" -> "OK"
                              [] p = "commitErr" -> "ERROR",
           UNCHANGED <<main, killProc>>, file' = file
    PROVE  Layer2'
<1> USE DEF Layer1
<1>1. \A v \in Link : wpc[v] \notin Critical
  BY DEF LockInv
<1>2. \A v \in Link : wpc[v] # "claim"
  BY <1>1 DEF Critical
<1>3. PhaseInv'
  BY DEF Layer2, PhaseInv, Alive, TypeOK, Doomed, Ended
<1>4. ClaimInv'
  BY DEF Layer2, ClaimInv, TypeOK, Working
<1>5. ImageInv'
  BY <1>1 DEF ImageInv, TypeOK, Doomed
<1>6. ExclusiveClaim'
  <2>1. ASSUME NEW v \in Link, v # w, wpc[v] \in Working
        PROVE  cur[v] # c
    <3>1. CASE p = "claim"
      BY <2>1, <3>1 DEF Layer2, ClaimInv, Claimable
    <3>2. CASE p # "claim"
      BY <2>1, <3>2 DEF Layer2, ExclusiveClaim
    <3> QED
      BY <3>1, <3>2
  <2> QED
    BY <1>2, <2>1 DEF Layer2, ExclusiveClaim, TypeOK
<1> QED
  BY <1>3, <1>4, <1>5, <1>6 DEF Layer2

LEMMA DeathEffect ==
    ASSUME TypeOK, NEW w \in Link, Die(w)
    PROVE  \A v \in Link : \/ wpc'[v] = "killed"
                           \/ wpc'[v] = wpc[v] /\ wmem'[v] = wmem[v]
<1> SUFFICES ASSUME NEW v \in Link
             PROVE  \/ wpc'[v] = "killed"
                    \/ wpc'[v] = wpc[v] /\ wmem'[v] = wmem[v]
  OBVIOUS
<1>1. /\ wpc' = [wpc EXCEPT ![w] = "killed"]
      /\ wmem' = [wmem EXCEPT ![w] = InitControlData]
  BY DEF Die
<1>2. CASE v = w
  BY <1>1, <1>2 DEF TypeOK
<1>3. CASE v # w
  BY <1>1, <1>3 DEF TypeOK
<1> QED
  BY <1>2, <1>3

LEMMA Worker2 ==
    ASSUME Layer1, Layer2, NEW w \in Link, WorkerStep(w)
    PROVE  Layer2'
<1> USE DEF Layer1
<1>1. ~Doomed /\ file.info \in ControlData
  BY DEF WorkerStep, TypeOK, Metadata
<1>2. ASSUME Die(w), UNCHANGED <<cur, main, killProc, file>>
      PROVE  Layer2'
  <2>1. \A v \in Link : \/ wpc'[v] = "killed"
                        \/ wpc'[v] = wpc[v] /\ wmem'[v] = wmem[v]
    BY <1>2, DeathEffect
  <2> QED
    BY <1>2, <2>1, Death2 DEF Doomed
<1>3. CASE WorkerStart(w)
  <2>1. CASE wpc' = [wpc EXCEPT ![w] = "top"] /\ UNCHANGED <<sem, wmem>>
    BY <1>3, <2>1, Move2 DEF WorkerStart, Alive, Ended, Working, Critical,
                             WorkerPC
  <2>2. CASE Die(w)
    BY <1>2, <1>3, <2>2 DEF WorkerStart
  <2> QED
    BY <1>3, <2>1, <2>2 DEF WorkerStart
<1>4. CASE AcquireForClaim(w)
  <2>1. CASE NextPendingChunk(file.info) = -1
    BY <1>4, <2>1, Move2 DEF AcquireForClaim, Alive, Ended, Working, Critical,
                             WorkerPC
  <2>2. CASE NextPendingChunk(file.info) # -1
    <3> DEFINE c == NextPendingChunk(file.info)
               info == SetStatus(file.info, c, "DOWNLOAD")
    <3>1. c \in Claimable(file.info) /\ c \in Chunk
      BY <2>2, NextPendingChunkIsClaimable DEF Claimable
    <3>2. /\ info \in ControlData
          /\ info[c].status = "DOWNLOAD"
          /\ \A d \in Chunk : d # c => info[d] = file.info[d]
      BY <1>1, <3>1, SetStatusType DEF ChunkStatus
    <3>3. /\ sem = 1 /\ Alive(w)
          /\ cur' = [cur EXCEPT ![w] = c]
          /\ wmem' = [wmem EXCEPT ![w] = info]
          /\ wpc' = [wpc EXCEPT ![w] = "claim"]
          /\ UNCHANGED <<main, killProc>> /\ file' = file
      BY <1>4, <2>2 DEF AcquireForClaim, Alive, Ended
    <3> HIDE DEF c, info
    <3> QED
      BY <1>1, <3>1, <3>2, <3>3, Acquire2
  <2> QED
    BY <2>1, <2>2
<1>5. CASE CommitClaim(w)
  BY <1>1, <1>5, Write2 DEF CommitClaim, Critical
<1>6. CASE RequestChunk(w)
  <2>1. CASE wpc' = [wpc EXCEPT ![w] = "recv"] /\ UNCHANGED <<sem, wmem>>
    BY <1>6, <2>1, Move2 DEF RequestChunk, Alive, Ended, Working, Critical,
                             WorkerPC
  <2>2. CASE Die(w)
    BY <1>2, <1>6, <2>2 DEF RequestChunk
  <2> QED
    BY <1>6, <2>1, <2>2 DEF RequestChunk
<1>7. CASE ReceiveChunk(w)
  BY <1>7, Move2 DEF ReceiveChunk, Alive, Ended, Working, Critical, WorkerPC
<1>8. CASE ReceiveFails(w)
  BY <1>8, Move2 DEF ReceiveFails, Alive, Ended, Working, Critical, WorkerPC
<1>9. CASE StoreChunk(w)
  BY <1>9, Move2 DEF StoreChunk, Alive, Ended, Working, Critical, WorkerPC
<1>10. CASE AcquireForUpdate(w)
  <2> DEFINE s == IF wpc[w] = "ok" THEN "OK" ELSE "ERROR"
             p == IF wpc[w] = "ok" THEN "commitOk" ELSE "commitErr"
             info == SetChunk(file.info, cur[w], s, rcv[w].md5sum)
  <2>1. /\ cur[w] \in Chunk /\ rcv[w].md5sum \in Digest
        /\ wpc[w] \in {"ok", "fail"}
    BY <1>10 DEF AcquireForUpdate, LinkInv, TypeOK, Working, Response
  <2>2. s \in ChunkStatus /\ p \in {"claim", "commitOk", "commitErr"}
    BY DEF ChunkStatus
  <2>3. /\ info \in ControlData
        /\ info[cur[w]] = [md5sum |-> rcv[w].md5sum, status |-> s]
        /\ \A d \in Chunk : d # cur[w] => info[d] = file.info[d]
    <3> HIDE DEF s
    <3> QED
      BY <1>1, <2>1, <2>2, SetChunkType
  <2>4. info[cur[w]].status = CASE p = "claim" -> "DOWNLOAD"
                                [] p = "commitOk" -> "OK"
                                [] p = "commitErr" -> "ERROR"
    BY <2>3
  <2>5. /\ sem = 1 /\ Alive(w)
        /\ wmem' = [wmem EXCEPT ![w] = info]
        /\ wpc' = [wpc EXCEPT ![w] = p]
        /\ UNCHANGED <<main, killProc>> /\ file' = file
    BY <1>10 DEF AcquireForUpdate, Alive, Ended
  <2>6. cur' = [cur EXCEPT ![w] = cur[w]]
    BY <1>10 DEF AcquireForUpdate, TypeOK
  <2>7. IF p = "claim" THEN cur[w] \in Claimable(file.info)
                       ELSE wpc[w] \in Working /\ cur[w] = cur[w]
    BY <2>1 DEF Working
  <2>8. UNCHANGED <<main, killProc>> /\ file' = file /\ sem = 1 /\ Alive(w)
    BY <2>5
  <2> HIDE DEF s, p, info, Layer1
  <2> QED
    BY <1>1, <2>1, <2>2, <2>3, <2>4, <2>5, <2>6, <2>7, <2>8, Acquire2, ZenonT(60)
<1>11. CASE CommitUpdate(w)
  <2> DEFINE p == IF wpc[w] = "commitErr" THEN "failed"
                  ELSE IF killProc = 0 THEN "top" ELSE "stopped"
  <2>1. /\ p \in {"ask", "top", "failed", "stopped"} /\ p # "ask"
        /\ wpc[w] \in Critical /\ wpc[w] # "claim"
        /\ WriteAndRelease(w)
        /\ wpc' = [wpc EXCEPT ![w] = p]
        /\ UNCHANGED <<cur, main, killProc>>
    BY <1>11 DEF CommitUpdate, Critical
  <2> HIDE DEF p
  <2> QED
    BY <1>1, <2>1, Write2
<1> QED
  BY <1>3, <1>4, <1>5, <1>6, <1>7, <1>8, <1>9, <1>10, <1>11 DEF WorkerStep

LEMMA Step2 ==
    ASSUME Layer1, Layer2, [Next]_vars
    PROVE  Layer2'
<1> USE DEF Layer1
<1>1. CASE UNCHANGED vars
  BY <1>1, Quiet2 DEF vars, Layer2, PhaseInv, Doomed
<1>2. CASE MainStep
  <2>1. /\ UNCHANGED <<wpc, cur, wmem, killProc>>
        /\ file'.info = file.info
    BY <1>2 DEF MainStep, MainBegin, ForkMonitor, MainFinish, MainEnd, TypeOK,
                Metadata
  <2>2. ~Doomed => \/ main' \in {"fork", "wait", "hwait"}
                   \/ \A w \in Link : ~Alive(w)
    BY <1>2 DEF MainStep, MainBegin, ForkMonitor, MainFinish, MainEnd, Layer2,
                PhaseInv
  <2> QED
    BY <2>1, <2>2, Quiet2 DEF Doomed
<1>3. CASE HandlerStep
  <2>1. CASE HandlerWaited
    BY <2>1, Quiet2 DEF HandlerWaited, Doomed
  <2>2. CASE HandlerLoad
    BY <2>2, Quiet2 DEF HandlerLoad, Doomed, Layer2, PhaseInv
  <2>3. CASE HandlerSave
    <3>1. CASE Doomed
      BY <2>3, <3>1 DEF HandlerSave, Doomed, Layer2, PhaseInv, ClaimInv,
                        ImageInv, ExclusiveClaim
    <3>2. CASE ~Doomed
      BY <2>3, <3>2, Idle2 DEF HandlerSave, Layer2, PhaseInv
    <3> QED
      BY <3>1, <3>2
  <2> QED
    BY <1>3, <2>1, <2>2, <2>3 DEF HandlerStep
<1>4. CASE MonitorTurn
  BY <1>4, Quiet2 DEF MonitorTurn, Doomed, Layer2, PhaseInv
<1>5. CASE Sigint
  <2>1. UNCHANGED <<wpc, cur, wmem, file>>
    BY <1>5 DEF Sigint
  <2>2. killProc \in Nat /\ killProc' = killProc + 1
    BY <1>5, DownloadAssumption DEF Sigint, TypeOK
  <2>3. killProc = 0 => main' = "hwait"
    BY <1>5 DEF Sigint
  <2>4. (Doomed => Doomed') /\ (~Doomed' => killProc = 0)
    BY <2>2 DEF Doomed
  <2> QED
    BY <2>1, <2>3, <2>4, Quiet2
<1>6. ASSUME NEW w \in Link, ForkWorker(w)
      PROVE  Layer2'
  BY <1>6 DEF ForkWorker, TypeOK, Layer2, PhaseInv, ClaimInv, ImageInv,
              ExclusiveClaim, Doomed, Working, Critical
<1>7. ASSUME NEW w \in Link, WorkerStep(w)
      PROVE  Layer2'
  BY <1>7, Worker2
<1>8. ASSUME NEW w \in Link, WorkerKilled(w)
      PROVE  Layer2'
  <2>1. \A v \in Link : \/ wpc'[v] = "killed"
                        \/ wpc'[v] = wpc[v] /\ wmem'[v] = wmem[v]
    BY <1>8, DeathEffect DEF WorkerKilled
  <2> QED
    BY <1>8, <2>1, Death2 DEF WorkerKilled, Doomed
<1>9. ASSUME NEW w \in Link, LastWrite(w)
      PROVE  Layer2'
  <2>1. Doomed' /\ UNCHANGED cur
    BY <1>9 DEF LastWrite, Doomed
  <2>2. \A v \in Link : wpc'[v] = "killed" \/ wpc'[v] = wpc[v]
    BY <1>9 DEF LastWrite, Die, TypeOK
  <2> QED
    BY <2>1, <2>2 DEF Layer2, PhaseInv, ClaimInv, ImageInv, ExclusiveClaim,
                      Working
<1>10. ASSUME NEW l \in Link, ServerStep(l)
       PROVE  Layer2'
  BY <1>10, Quiet2 DEF ServerStep, procVars, Doomed, Layer2, PhaseInv
<1>11. ASSUME NEW l \in Link, LinkBreaks(l)
       PROVE  Layer2'
  BY <1>11, Quiet2 DEF LinkBreaks, procVars, Doomed, Layer2, PhaseInv
<1>12. CASE Crash
  <2>1. /\ UNCHANGED <<cur, killProc, file>>
        /\ \A w \in Link : wpc'[w] \in Ended \cup {"none"}
    BY <1>12 DEF Crash, Alive, Ended
  <2> QED
    BY <2>1 DEF Layer2, PhaseInv, ClaimInv, ImageInv, ExclusiveClaim, Alive,
                Working, Critical, Ended
<1>13. CASE CloseConnections
  BY <1>13, Quiet2 DEF CloseConnections, procVars, Doomed, Layer2, PhaseInv
<1>14. CASE Rerun
  BY <1>14 DEF Rerun, Layer2, PhaseInv, ClaimInv, ImageInv, ExclusiveClaim,
               Alive, Working, Critical
<1>15. CASE Status
  BY <1>15, Idle2 DEF Status, StatusRecover, StatusReset, StatusCheck,
                      procVars, SessionOver
<1> QED
  BY <1>1, <1>2, <1>3, <1>4, <1>5, <1>6, <1>7, <1>8, <1>9, <1>10, <1>11, <1>12,
     <1>13, <1>14, <1>15 DEF Next

(***************************************************************************)
(* No two workers ever transfer the same chunk, for any number of links    *)
(* and chunks, and whatever is killed, interrupted or broken.              *)
(***************************************************************************)
THEOREM ClaimsAreExclusive ==
    ASSUME ChunksFitWire PROVE Spec => []ExclusiveClaim
<1>1. Init => Layer1 /\ Layer2
  BY Init1, Init2
<1>2. Layer1 /\ Layer2 /\ [Next]_vars => (Layer1 /\ Layer2)'
  BY Step1, Step2
<1>3. Layer2 => ExclusiveClaim
  BY DEF Layer2
<1> QED
  BY <1>1, <1>2, <1>3, PTL DEF Spec
-----------------------------------------------------------------------------
(* Layer 3: what the copies of the metadata say of each chunk. *)
Layer3 == OkInv /\ StatusInv

(* A fresh copy says nothing yet. *)
LEMMA FreshCopy ==
    /\ Truthful(InitControlData)
    /\ NoUpload(InitControlData)
    /\ Truthful(InitControlData)'
    /\ NoUpload(InitControlData)'
BY DEF Truthful, NoUpload, InitControlData

LEMMA Init3 == Init => Layer3
<1> SUFFICES ASSUME Init PROVE Layer3
  OBVIOUS
<1>1. /\ file.info = InitControlData
      /\ mmem.info = InitControlData
      /\ \A w \in Link : wmem[w] = InitControlData /\ wpc[w] = "none"
  BY DEF Init, ProcInit, NoCopy
<1> QED
  BY <1>1, FreshCopy DEF Layer3, OkInv, StatusInv

(* The local file changes only for the better. *)
Better ==
    \A c \in Chunk : local[c] = c => local'[c] = c

LEMMA TruthfulKept ==
    ASSUME Better, NEW info, Truthful(info)
    PROVE  \A c \in Chunk : info[c].status = "OK" =>
               local'[c] = c /\ info[c].md5sum = MD5(c)
BY DEF Better, Truthful

(***************************************************************************)
(* Each copy is as it was, or fresh, or another copy that was good, or     *)
(* good for a reason of its own.                                           *)
(***************************************************************************)
LEMMA Copies3 ==
    ASSUME Layer3, Better,
           \/ file'.info = file.info
           \/ file'.info = mmem.info
           \/ \E w \in Link : file'.info = wmem[w]
           \/ Truthful(file.info)' /\ NoUpload(file.info)',
           \/ mmem'.info = mmem.info
           \/ mmem'.info = InitControlData
           \/ Truthful(mmem.info)' /\ NoUpload(mmem.info)',
           \A w \in Link : \/ wmem'[w] = wmem[w]
                           \/ wmem'[w] = InitControlData
                           \/ Truthful(wmem[w])' /\ NoUpload(wmem[w])',
           \A w \in Link : wpc'[w] = "ok" =>
                \/ wpc[w] = "ok" /\ cur'[w] = cur[w] /\ cur[w] \in Chunk
                \/ local'[cur'[w]] = cur'[w]
    PROVE  Layer3'
<1>1. Truthful(file.info)' /\ NoUpload(file.info)'
  BY TruthfulKept DEF Layer3, OkInv, StatusInv, Truthful, NoUpload
<1>2. Truthful(mmem.info)' /\ NoUpload(mmem.info)'
  BY TruthfulKept, FreshCopy DEF Layer3, OkInv, StatusInv, Truthful, NoUpload
<1>3. \A w \in Link : Truthful(wmem[w])' /\ NoUpload(wmem[w])'
  BY TruthfulKept, FreshCopy DEF Layer3, OkInv, StatusInv, Truthful, NoUpload
<1>4. \A w \in Link : wpc'[w] = "ok" => local'[cur'[w]] = cur'[w]
  BY DEF Layer3, OkInv, Better
<1> QED
  BY <1>1, <1>2, <1>3, <1>4 DEF Layer3, OkInv, StatusInv

(* A step that leaves the local file and the receiving workers alone. *)
LEMMA Quiet3 ==
    ASSUME Layer3, TypeOK, LinkInv, UNCHANGED <<local, cur>>,
           \/ file'.info = file.info
           \/ file'.info = mmem.info
           \/ Truthful(file.info)' /\ NoUpload(file.info)',
           \/ mmem'.info = mmem.info
           \/ mmem'.info = InitControlData
           \/ Truthful(mmem.info)' /\ NoUpload(mmem.info)',
           \A w \in Link : \/ wmem'[w] = wmem[w]
                           \/ wmem'[w] = InitControlData,
           \A w \in Link : wpc'[w] = "ok" => wpc[w] = "ok"
    PROVE  Layer3'
<1>1. Better
  BY DEF Better
<1>2. \A w \in Link : wpc[w] = "ok" => cur[w] \in Chunk
  BY DEF LinkInv, Working
<1> QED
  BY <1>1, <1>2, Copies3

(* Chunk cur[w] of the local file gets the data of rcv[w]. *)
LEMMA Stored3 ==
    ASSUME TypeOK, LinkInv, NEW w \in Link, wpc[w] = "store",
           local' = [local EXCEPT ![cur[w]] = rcv[w].data]
    PROVE  Better /\ cur[w] \in Chunk /\ local'[cur[w]] = cur[w]
<1>1. cur[w] \in Chunk /\ rcv[w].data = cur[w]
  <2>1. cur[w] \in Chunk /\ rcv[w] = Answer(cur[w])
    BY DEF LinkInv, Working
  <2> QED
    BY <2>1, AnswerType
<1> QED
  BY <1>1 DEF Better, TypeOK

LEMMA Worker3 ==
    ASSUME Layer1, Layer3, NEW w \in Link, WorkerStep(w)
    PROVE  Layer3'
<1> USE DEF Layer1
<1>1. file.info \in ControlData /\ file \in Metadata
  BY DEF TypeOK, Metadata
<1>2. ASSUME Die(w), UNCHANGED <<local, cur, mmem, file>>
      PROVE  Layer3'
  <2>1. \A v \in Link : /\ \/ wmem'[v] = wmem[v]
                           \/ wmem'[v] = InitControlData
                        /\ wpc'[v] = "ok" => wpc[v] = "ok"
    BY <1>2 DEF Die, TypeOK
  <2> QED
    BY <1>2, <2>1, Quiet3
<1>3. ASSUME UNCHANGED <<local, cur, mmem, file, wmem>>, NEW p, p # "ok",
             wpc' = [wpc EXCEPT ![w] = p]
      PROVE  Layer3'
  <2>1. \A v \in Link : wpc'[v] = "ok" => wpc[v] = "ok"
    BY <1>3 DEF TypeOK
  <2> QED
    BY <1>3, <2>1, Quiet3
<1>4. ASSUME WriteAndRelease(w), NEW p, p # "ok",
             wpc' = [wpc EXCEPT ![w] = p],
             UNCHANGED <<local, cur, mmem>>
      PROVE  Layer3'
  <2>1. Better
    BY <1>4 DEF Better
  <2>2. file'.info = wmem[w]
    BY <1>1, <1>4 DEF WriteAndRelease, Metadata
  <2>3. \A v \in Link : wmem'[v] = wmem[v] \/ wmem'[v] = InitControlData
    BY <1>4 DEF WriteAndRelease, TypeOK
  <2>4. \A v \in Link : wpc'[v] = "ok" =>
            wpc[v] = "ok" /\ cur'[v] = cur[v] /\ cur[v] \in Chunk
    BY <1>4 DEF TypeOK, LinkInv, Working
  <2> QED
    BY <1>4, <2>1, <2>2, <2>3, <2>4, Copies3
<1>5. ASSUME NEW info, Truthful(info), NoUpload(info),
             wmem' = [wmem EXCEPT ![w] = info],
             NEW p, p # "ok", wpc' = [wpc EXCEPT ![w] = p],
             NEW c \in Chunk, cur' = [cur EXCEPT ![w] = c],
             UNCHANGED <<local, mmem, file>>
      PROVE  Layer3'
  <2>1. Better
    BY <1>5 DEF Better
  <2>2. \A v \in Link : \/ wmem'[v] = wmem[v]
                        \/ Truthful(wmem[v])' /\ NoUpload(wmem[v])'
    BY <1>5 DEF TypeOK, Truthful, NoUpload
  <2>3. \A v \in Link : wpc'[v] = "ok" =>
            wpc[v] = "ok" /\ cur'[v] = cur[v] /\ cur[v] \in Chunk
    BY <1>5 DEF TypeOK, LinkInv, Working
  <2> QED
    BY <1>5, <2>1, <2>2, <2>3, Copies3
<1>6. CASE WorkerStart(w)
  BY <1>6, <1>2, <1>3 DEF WorkerStart
<1>7. CASE AcquireForClaim(w)
  <2>1. CASE NextPendingChunk(file.info) = -1
    BY <1>7, <2>1, <1>3 DEF AcquireForClaim
  <2>2. CASE NextPendingChunk(file.info) # -1
    <3> DEFINE c == NextPendingChunk(file.info)
               info == SetStatus(file.info, c, "DOWNLOAD")
    <3>1. c \in Chunk
      BY <2>2, NextPendingChunkIsClaimable DEF Claimable
    <3>2. /\ info[c].status = "DOWNLOAD"
          /\ \A d \in Chunk : d # c => info[d] = file.info[d]
      BY <1>1, <3>1, SetStatusType DEF ChunkStatus
    <3>3. /\ cur' = [cur EXCEPT ![w] = c]
          /\ wmem' = [wmem EXCEPT ![w] = info]
          /\ wpc' = [wpc EXCEPT ![w] = "claim"]
          /\ UNCHANGED <<local, mmem, file>>
      BY <1>7, <2>2 DEF AcquireForClaim
    <3> HIDE DEF c, info
    <3>4. Truthful(info) /\ NoUpload(info)
      BY <3>2 DEF Layer3, OkInv, StatusInv, Truthful, NoUpload
    <3> QED
      BY <3>1, <3>3, <3>4, <1>5
  <2> QED
    BY <2>1, <2>2
<1>8. CASE CommitClaim(w)
  BY <1>8, <1>4 DEF CommitClaim
<1>9. CASE RequestChunk(w)
  BY <1>9, <1>2, <1>3 DEF RequestChunk
<1>10. CASE ReceiveChunk(w)
  BY <1>10, <1>3 DEF ReceiveChunk
<1>11. CASE ReceiveFails(w)
  BY <1>11, <1>3 DEF ReceiveFails
<1>12. CASE StoreChunk(w)
  <2>1. Better /\ cur[w] \in Chunk /\ local'[cur[w]] = cur[w]
    BY <1>12, Stored3 DEF StoreChunk
  <2>2. UNCHANGED <<cur, mmem, file, wmem>>
    BY <1>12 DEF StoreChunk
  <2>3. \A v \in Link : wpc'[v] = "ok" =>
            \/ wpc[v] = "ok" /\ cur'[v] = cur[v] /\ cur[v] \in Chunk
            \/ local'[cur'[v]] = cur'[v]
    BY <1>12, <2>1, <2>2 DEF StoreChunk, TypeOK, LinkInv, Working
  <2> QED
    BY <2>1, <2>2, <2>3, Copies3
<1>13. CASE AcquireForUpdate(w)
  <2> DEFINE s == IF wpc[w] = "ok" THEN "OK" ELSE "ERROR"
             p == IF wpc[w] = "ok" THEN "commitOk" ELSE "commitErr"
             info == SetChunk(file.info, cur[w], s, rcv[w].md5sum)
  <2>1. /\ cur[w] \in Chunk /\ rcv[w].md5sum \in Digest
        /\ wpc[w] \in {"ok", "fail"}
    BY <1>13 DEF AcquireForUpdate, LinkInv, TypeOK, Working, Response
  <2>2. /\ info[cur[w]] = [md5sum |-> rcv[w].md5sum, status |-> s]
        /\ \A d \in Chunk : d # cur[w] => info[d] = file.info[d]
    <3>1. s \in ChunkStatus
      BY DEF ChunkStatus
    <3> HIDE DEF s
    <3> QED
      BY <1>1, <2>1, <3>1, SetChunkType
  <2>3. s = "OK" => local[cur[w]] = cur[w] /\ rcv[w].md5sum = MD5(cur[w])
    <3> SUFFICES ASSUME s = "OK"
                 PROVE  local[cur[w]] = cur[w] /\ rcv[w].md5sum = MD5(cur[w])
      OBVIOUS
    <3>1. wpc[w] = "ok"
      OBVIOUS
    <3>2. rcv[w] = Answer(cur[w]) /\ local[cur[w]] = cur[w]
      BY <3>1 DEF Layer3, OkInv, LinkInv
    <3> QED
      BY <2>1, <3>2, AnswerType
  <2>4. /\ wmem' = [wmem EXCEPT ![w] = info]
        /\ wpc' = [wpc EXCEPT ![w] = p] /\ p # "ok"
        /\ UNCHANGED <<local, mmem, file>>
    BY <1>13 DEF AcquireForUpdate
  <2>5. cur' = [cur EXCEPT ![w] = cur[w]]
    BY <1>13 DEF AcquireForUpdate, TypeOK
  <2>6. s # "UPLOAD"
    OBVIOUS
  <2> HIDE DEF s, p, info
  <2>7. Truthful(info)
    BY <2>2, <2>3 DEF Layer3, OkInv, Truthful
  <2>8. NoUpload(info)
    BY <2>2, <2>6 DEF Layer3, StatusInv, NoUpload
  <2> QED
    BY <2>1, <2>4, <2>5, <2>7, <2>8, <1>5
<1>14. CASE CommitUpdate(w)
  <2> DEFINE p == IF wpc[w] = "commitErr" THEN "failed"
                  ELSE IF killProc = 0 THEN "top" ELSE "stopped"
  <2>1. /\ p # "ok"
        /\ WriteAndRelease(w)
        /\ wpc' = [wpc EXCEPT ![w] = p]
        /\ UNCHANGED <<local, cur, mmem>>
    BY <1>14 DEF CommitUpdate
  <2> HIDE DEF p
  <2> QED
    BY <2>1, <1>4
<1> QED
  BY <1>6, <1>7, <1>8, <1>9, <1>10, <1>11, <1>12, <1>13, <1>14 DEF WorkerStep

(* What the repairs do to a copy that is good. *)
LEMMA RepairIsTruthful ==
    ASSUME NEW meta \in Metadata, Truthful(meta.info), NoUpload(meta.info)
    PROVE  /\ Truthful(ResetDownloadingChunks(meta).info)
           /\ NoUpload(ResetDownloadingChunks(meta).info)
           /\ \A c \in Chunk : ResetDownloadingChunks(meta).info[c].status
                                  \in {"OK", "PENDING"}
           /\ Truthful(ResetAllChunks(meta).info)
           /\ NoUpload(ResetAllChunks(meta).info)
           /\ \A c \in Chunk :
                 CheckDataChunks(meta, local).info[c] = meta.info[c]
<1> DEFINE reset == ResetDownloadingChunks(meta).info
           all == ResetAllChunks(meta).info
           check == CheckDataChunks(meta, local).info
<1>1. \A c \in Chunk :
          /\ reset[c].md5sum = meta.info[c].md5sum
          /\ reset[c].status = IF meta.info[c].status \in {"DOWNLOAD", "ERROR"}
                               THEN "PENDING" ELSE meta.info[c].status
  BY ResetDownloadingType
<1>2. \A c \in Chunk : all[c].status = "PENDING"
  BY ResetAllType
<1>3. \A c \in Chunk : \/ check[c] = meta.info[c]
                       \/ /\ meta.info[c].status = "OK"
                          /\ MD5(local[c]) # meta.info[c].md5sum
  BY CheckType
<1>4. \A c \in Chunk : meta.info[c].status \in ChunkStatus
  BY DEF Metadata, ControlData, ChunkInfo
<1> HIDE DEF reset, all, check
<1>5. Truthful(reset) /\ NoUpload(reset)
  BY <1>1 DEF Truthful, NoUpload
<1>6. \A c \in Chunk : reset[c].status \in {"OK", "PENDING"}
  BY <1>1, <1>4 DEF NoUpload, ChunkStatus
<1>7. Truthful(all) /\ NoUpload(all)
  BY <1>2 DEF Truthful, NoUpload
<1>8. \A c \in Chunk : check[c] = meta.info[c]
  BY <1>3 DEF Truthful
<1> QED
  BY <1>5, <1>6, <1>7, <1>8 DEF reset, all, check

LEMMA Step3 ==
    ASSUME Layer1, Layer3, [Next]_vars
    PROVE  Layer3'
<1> USE DEF Layer1
<1>m. file \in Metadata /\ mmem \in Metadata
  BY DEF TypeOK
<1>0. /\ Truthful(file.info) /\ NoUpload(file.info)
      /\ Truthful(mmem.info) /\ NoUpload(mmem.info)
  BY DEF Layer3, OkInv, StatusInv
<1>1. CASE UNCHANGED vars
  BY <1>1, Quiet3 DEF vars
<1>2. CASE MainStep
  <2>1. /\ UNCHANGED <<local, cur, mmem, wmem, wpc>>
        /\ file'.info = file.info
    BY <1>2 DEF MainStep, MainBegin, ForkMonitor, MainFinish, MainEnd, TypeOK,
                Metadata
  <2> QED
    BY <2>1, Quiet3
<1>3. CASE HandlerStep
  <2>1. CASE HandlerWaited
    BY <2>1, Quiet3 DEF HandlerWaited
  <2>2. CASE HandlerLoad
    <3>1. UNCHANGED <<local, cur, file, wmem, wpc>>
      BY <2>2 DEF HandlerLoad
    <3>2. /\ Truthful(ResetDownloadingChunks(file).info)
          /\ NoUpload(ResetDownloadingChunks(file).info)
      BY <1>m, <1>0, RepairIsTruthful
    <3>3. Truthful(mmem.info)' /\ NoUpload(mmem.info)'
      BY <2>2, <3>1, <3>2 DEF HandlerLoad, Truthful, NoUpload
    <3> QED
      BY <3>1, <3>3, Quiet3
  <2>3. CASE HandlerSave
    <3>1. /\ UNCHANGED <<local, cur, wmem, wpc>>
          /\ file'.info = mmem.info
          /\ mmem'.info = InitControlData
      BY <2>3 DEF HandlerSave, NoCopy
    <3> QED
      BY <3>1, Quiet3
  <2> QED
    BY <1>3, <2>1, <2>2, <2>3 DEF HandlerStep
<1>4. CASE MonitorTurn
  BY <1>4, Quiet3 DEF MonitorTurn
<1>5. CASE Sigint
  BY <1>5, Quiet3 DEF Sigint
<1>6. ASSUME NEW w \in Link, ForkWorker(w)
      PROVE  Layer3'
  <2>1. \A v \in Link : wpc'[v] = "ok" => wpc[v] = "ok"
    BY <1>6 DEF ForkWorker, TypeOK
  <2> QED
    BY <1>6, <2>1, Quiet3 DEF ForkWorker
<1>7. ASSUME NEW w \in Link, WorkerStep(w)
      PROVE  Layer3'
  BY <1>7, Worker3
<1>8. ASSUME NEW w \in Link, WorkerKilled(w)
      PROVE  Layer3'
  <2>1. \A v \in Link : /\ \/ wmem'[v] = wmem[v]
                           \/ wmem'[v] = InitControlData
                        /\ wpc'[v] = "ok" => wpc[v] = "ok"
    BY <1>8 DEF WorkerKilled, Die, TypeOK
  <2> QED
    BY <1>8, <2>1, Quiet3 DEF WorkerKilled
<1>9. ASSUME NEW w \in Link, LastWrite(w)
      PROVE  Layer3'
  <2>1. \A v \in Link : /\ \/ wmem'[v] = wmem[v]
                           \/ wmem'[v] = InitControlData
                        /\ wpc'[v] = "ok" => wpc[v] = "ok"
    BY <1>9 DEF LastWrite, Die, TypeOK
  <2>2. UNCHANGED <<cur, mmem>>
    BY <1>9 DEF LastWrite
  <2>3. \A v \in Link : wpc[v] = "ok" => cur[v] \in Chunk
    BY DEF LinkInv, Working
  <2>4. CASE /\ file' = [file EXCEPT !.info = wmem[w]]
             /\ UNCHANGED local
    <3>1. file'.info = wmem[w] /\ Better
      BY <1>m, <2>4 DEF Metadata, Better
    <3> QED
      BY <2>1, <2>2, <2>3, <3>1, Copies3
  <2>5. CASE /\ wpc[w] = "store"
             /\ local' = [local EXCEPT ![cur[w]] = rcv[w].data]
             /\ UNCHANGED file
    <3>1. Better
      BY <2>5, Stored3
    <3> QED
      BY <2>1, <2>2, <2>3, <2>5, <3>1, Copies3
  <2> QED
    BY <1>9, <2>4, <2>5 DEF LastWrite
<1>10. ASSUME NEW l \in Link, ServerStep(l)
       PROVE  Layer3'
  BY <1>10, Quiet3 DEF ServerStep, procVars
<1>11. ASSUME NEW l \in Link, LinkBreaks(l)
       PROVE  Layer3'
  BY <1>11, Quiet3 DEF LinkBreaks, procVars
<1>12. CASE Crash
  <2>1. /\ UNCHANGED <<local, cur, file>>
        /\ mmem'.info = InitControlData
        /\ \A w \in Link : wmem'[w] = InitControlData
        /\ \A w \in Link : wpc'[w] = "ok" => wpc[w] = "ok"
    BY <1>12 DEF Crash, NoCopy, Alive
  <2> QED
    BY <2>1, Quiet3
<1>13. CASE CloseConnections
  BY <1>13, Quiet3 DEF CloseConnections, procVars
<1>14. CASE Rerun
  <2>1. /\ UNCHANGED <<local, file>>
        /\ mmem'.info = InitControlData
        /\ \A w \in Link : wmem'[w] = InitControlData /\ wpc'[w] = "none"
    BY <1>14 DEF Rerun, NoCopy
  <2>2. Better
    BY <2>1 DEF Better
  <2> QED
    BY <2>1, <2>2, Copies3
<1>15. CASE Status
  <2>1. UNCHANGED <<local, cur, mmem, wmem, wpc>>
    BY <1>15 DEF Status, StatusRecover, StatusReset, StatusCheck, procVars
  <2>2. \/ file' = ResetDownloadingChunks(file)
        \/ file' = ResetAllChunks(file)
        \/ file' = CheckDataChunks(file, local)
    BY <1>15 DEF Status, StatusRecover, StatusReset, StatusCheck
  <2>3. Truthful(file.info)' /\ NoUpload(file.info)'
    BY <1>m, <1>0, <2>1, <2>2, RepairIsTruthful DEF Truthful, NoUpload
  <2> QED
    BY <2>1, <2>3, Quiet3
<1> QED
  BY <1>1, <1>2, <1>3, <1>4, <1>5, <1>6, <1>7, <1>8, <1>9, <1>10, <1>11, <1>12,
     <1>13, <1>14, <1>15 DEF Next

(***************************************************************************)
(* What the metadata records as OK is in the local file, byte for byte as  *)
(* the server has it: for any number of links and chunks that fit the      *)
(* request, any number of SIGINTs, kills, crashes, broken connections and  *)
(* reruns, and any use of mhstatus in between.                             *)
(***************************************************************************)
THEOREM RecordedIsStored ==
    ASSUME ChunksFitWire PROVE Spec => []OkMeansData
<1>1. Init => Layer1 /\ Layer3
  BY Init1, Init3
<1>2. Layer1 /\ Layer3 /\ [Next]_vars => (Layer1 /\ Layer3)'
  BY Step1, Step3
<1>3. Layer3 => OkMeansData
  BY DEF Layer3, OkInv, Truthful, OkMeansData
<1> QED
  BY <1>1, <1>2, <1>3, PTL DEF Spec
=============================================================================
