----------------------------- MODULE MhDownload -----------------------------
(***************************************************************************)
(* mhclient download (protocol/mhproto_client.cpp), with the server child  *)
(* of every connection (MhServer), from the moment the metadata file is on *)
(* disk.  The main process forks one worker per connection; the workers    *)
(* share the metadata file, under a System V semaphore, and the data file. *)
(* SIGINT, SIGKILL, broken connections and crashes may come at any time,   *)
(* and the program may be run again, or mhstatus run, afterwards.          *)
(*                                                                         *)
(* The workers differ only by their connection, so Link names them too and *)
(* the order of the fork loop is not kept.                                 *)
(***************************************************************************)
EXTENDS MhServer

CONSTANTS
  Verbose,       \* option -v: a monitor process shows the progress
  MaxSigint,     \* bound: SIGINTs that main receives in a session
  WorkersKilled, \* whether a worker may be killed from outside
  Crashes,       \* whether all the processes may be killed at once
  MaxSessions    \* bound: runs of mhclient download

ASSUME DownloadAssumption ==
    /\ {Verbose, WorkersKilled, Crashes} \subseteq BOOLEAN
    /\ MaxSigint \in Nat
    /\ MaxSessions \in Nat \ {0}

VARIABLES
  file,      \* the metadata file on disk
  local,     \* the downloaded file on disk, chunk by chunk
  sem,       \* the value of the semaphore
  killProc,  \* *kill_proc_, in shared memory
  main,      \* where the main process is
  mmem,      \* the copy of the metadata in KillClient, between load and save
  mon,       \* the monitor: its state, its variable in_use, its own metadata
  wpc,       \* where each worker is
  wmem,      \* each worker's chunkInfo_, between LoadMetadata and the update
  cur,       \* each worker's chunkNumber
  rcv,       \* each worker's rcv_md5sum and rcv_buffer
  session,   \* counts the runs of mhclient
  stale      \* history: the chunks marked DOWNLOAD when the session began

procVars == <<sem, killProc, main, mmem, mon, wpc, wmem, cur, rcv>>
vars == <<conn, cmd, req, rsp, srv, file, local, sem, killProc, main, mmem,
          mon, wpc, wmem, cur, rcv, session, stale>>

(***************************************************************************)
(* A worker is "none" before its fork and, once it has left, "drained" (no *)
(* chunk was left), "failed" (its connection broke), "stopped" (it saw     *)
(* kill_proc_) or "killed" (by a signal).                                  *)
(***************************************************************************)
Ended == {"drained", "failed", "stopped", "killed"}
Critical == {"claim", "commitOk", "commitErr"}   \* it holds the semaphore
Working == {"ask", "recv", "store", "ok", "fail", "commitOk", "commitErr"}
WorkerPC == {"none", "start", "top", "claim"} \cup Working \cup Ended

Handler == {"hwait", "hload", "hsave"}           \* main is in KillClient
Over == {"end", "interrupted", "crashed"}
MainPC == {"begin", "fork", "wait", "check"} \cup Handler \cup Over

Alive(w) == wpc[w] \notin Ended \cup {"none"}
MonitorOff == [pc |-> "off", inUse |-> 0, mem |-> 0]

(* After the second SIGINT every worker has a SIGKILL pending. *)
Doomed == killProc >= 2

(* No process of the client is left. *)
SessionOver == main \in Over /\ mon.pc = "off" /\ \A w \in Link : ~Alive(w)

TypeOK ==
    /\ LinkTypeOK
    /\ file \in Metadata
    /\ local \in [Chunk -> Data]
    /\ sem \in {0, 1}
    /\ killProc \in 0 .. MaxSigint
    /\ main \in MainPC
    /\ mmem \in Metadata
    /\ mon \in [pc : {"off", "run"}, inUse : InUse, mem : InUse]
    /\ wpc \in [Link -> WorkerPC]
    /\ wmem \in [Link -> ControlData]
    /\ cur \in [Link -> Chunk \cup {-1}]
    /\ rcv \in [Link -> Response]
    /\ session \in 1 .. MaxSessions
    /\ stale \subseteq Chunk

NoCopy == [inUse |-> 0, info |-> InitControlData]

ProcInit ==
    /\ LinkInit
    /\ sem = 1
    /\ killProc = 0
    /\ main = "begin"
    /\ mmem = NoCopy
    /\ mon = MonitorOff
    /\ wpc = [w \in Link |-> "none"]
    /\ wmem = [w \in Link |-> InitControlData]
    /\ cur = [w \in Link |-> -1]
    /\ rcv = [w \in Link |-> NoResponse]

(***************************************************************************)
(* DownloadMetadataFromServer has just written the metadata; it never sets *)
(* in_use_, so the byte it saved is whatever the stack held.               *)
(***************************************************************************)
Init ==
    /\ file \in [inUse : InUse, info : {InitControlData}]
    /\ local = [c \in Chunk |-> Hole]
    /\ session = 1
    /\ stale = {}
    /\ ProcInit
-----------------------------------------------------------------------------
(* The main process, DownloadFileFromServer. *)

(* Load the metadata, set in_use_ to 1, save it.  No worker exists yet. *)
MainBegin ==
    /\ main = "begin"
    /\ file' = [file EXCEPT !.inUse = 1]
    /\ main' = "fork"
    /\ UNCHANGED <<linkVars, local, sem, killProc, mmem, mon, wpc, wmem, cur,
                   rcv, session, stale>>

(* One turn of the fork loop. *)
ForkWorker(w) ==
    /\ main = "fork"
    /\ wpc[w] = "none"
    /\ wpc' = [wpc EXCEPT ![w] = "start"]
    /\ UNCHANGED <<linkVars, file, local, sem, killProc, main, mmem, mon, wmem,
                   cur, rcv, session, stale>>

(* The loop is over: fork the monitor if asked to, then wait. *)
ForkMonitor ==
    /\ main = "fork"
    /\ \A w \in Link : wpc[w] # "none"
    /\ mon' = IF Verbose THEN [pc |-> "run", inUse |-> 1, mem |-> 1] ELSE mon
    /\ main' = "wait"
    /\ UNCHANGED <<linkVars, file, local, sem, killProc, mmem, wpc, wmem, cur,
                   rcv, session, stale>>

(***************************************************************************)
(* Every waitpid has returned: load the metadata, set in_use_ to 0, save.  *)
(***************************************************************************)
MainFinishBusy ==
    /\ main = "wait"
    /\ \A w \in Link : ~Alive(w)
    /\ main' = "check"
    /\ UNCHANGED <<linkVars, file, local, sem, killProc, mmem, mon, wpc, wmem,
                   cur, rcv, session, stale>>

MainFinish ==
    /\ main = "wait"
    /\ \A w \in Link : ~Alive(w)
    /\ file' = [file EXCEPT !.inUse = 0]
    /\ main' = "check"
    /\ UNCHANGED <<linkVars, local, sem, killProc, mmem, mon, wpc, wmem, cur,
                   rcv, session, stale>>

(* The monitor has gone too; the md5 of the file is compared, for display. *)
MainEnd ==
    /\ main = "check"
    /\ mon.pc = "off"
    /\ main' = "end"
    /\ UNCHANGED <<linkVars, file, local, sem, killProc, mmem, mon, wpc, wmem,
                   cur, rcv, session, stale>>

(***************************************************************************)
(* The monitor's loop: test in_use and kill_proc_; take in_use from its    *)
(* copy of the metadata, show the copy, load it again.                     *)
(***************************************************************************)
MonitorTurn ==
    /\ mon.pc = "run"
    /\ mon' = IF mon.inUse = 1 /\ killProc = 0
              THEN [mon EXCEPT !.inUse = mon.mem, !.mem = file.inUse]
              ELSE MonitorOff
    /\ UNCHANGED <<linkVars, file, local, sem, killProc, main, mmem, wpc, wmem,
                   cur, rcv, session, stale>>
-----------------------------------------------------------------------------
(* SIGINT: sig_handler and KillClient, in the main process. *)

(***************************************************************************)
(* The handler adds one to *kill_proc_.  The first time it waits for the   *)
(* workers and the monitor.  SA_NODEFER lets a second SIGINT interrupt the *)
(* handler itself: it sends SIGKILL to all of them and does not wait.      *)
(*                                                                         *)
(* The signals go out one by one.  What a worker does before its own, it   *)
(* may as well do before this step: only main tells *kill_proc_ 1 from 2.  *)
(* What it does with a semaphore that a worker killed earlier gave back,   *)
(* it does after WorkerKilled.                                             *)
(***************************************************************************)
SigintNoWait ==
    /\ main \notin Over
    /\ killProc < MaxSigint
    /\ killProc' = killProc + 1
    /\ main' = "hload"
    /\ mon' = IF killProc = 0 THEN mon ELSE MonitorOff
    /\ UNCHANGED <<linkVars, file, local, sem, mmem, wpc, wmem, cur, rcv,
                   session, stale>>

Sigint ==
    /\ main \notin Over
    /\ killProc < MaxSigint
    /\ killProc' = killProc + 1
    /\ main' = IF killProc = 0 THEN "hwait" ELSE "hload"
    /\ mon' = IF killProc = 0 THEN mon ELSE MonitorOff
    /\ UNCHANGED <<linkVars, file, local, sem, mmem, wpc, wmem, cur, rcv,
                   session, stale>>

HandlerWaited ==
    /\ main = "hwait"
    /\ \A w \in Link : ~Alive(w)
    /\ mon.pc = "off"
    /\ main' = "hload"
    /\ UNCHANGED <<linkVars, file, local, sem, killProc, mmem, mon, wpc, wmem,
                   cur, rcv, session, stale>>

(* resetDownloadingChunks(meta_file_, 1): load and change the copy ... *)
HandlerLoad ==
    /\ main = "hload"
    /\ mmem' = ResetDownloadingChunks(file)
    /\ main' = "hsave"
    /\ UNCHANGED <<linkVars, file, local, sem, killProc, mon, wpc, wmem, cur,
                   rcv, session, stale>>

(* ... save it, remove the semaphore and the shared memory, exit. *)
HandlerSave ==
    /\ main = "hsave"
    /\ file' = mmem
    /\ main' = "interrupted"
    /\ mmem' = NoCopy
    /\ UNCHANGED <<linkVars, local, sem, killProc, mon, wpc, wmem, cur, rcv,
                   session, stale>>
-----------------------------------------------------------------------------
(* A worker, DownloadFileFromServer(cd_sd, metaFile, localFile). *)

(***************************************************************************)
(* A process that ends while it holds the semaphore gives it back:         *)
(* semaphore_get_lock uses SEM_UNDO.                                       *)
(***************************************************************************)
DieNoUndo(w) ==
    /\ wpc' = [wpc EXCEPT ![w] = "killed"]
    /\ wmem' = [wmem EXCEPT ![w] = InitControlData]
    /\ UNCHANGED sem

Die(w) ==
    /\ wpc' = [wpc EXCEPT ![w] = "killed"]
    /\ wmem' = [wmem EXCEPT ![w] = InitControlData]
    /\ sem' = IF wpc[w] \in Critical THEN sem + 1 ELSE sem

(***************************************************************************)
(* Ignore SIGINT, send the command and the header, open the local file.    *)
(* On a broken connection one of these writes may raise SIGPIPE.           *)
(***************************************************************************)
WorkerStart(w) ==
    /\ wpc[w] = "start"
    /\ \/ /\ wpc' = [wpc EXCEPT ![w] = "top"]
          /\ cmd' = [cmd EXCEPT ![w] = (conn[w] = "up")]
          /\ UNCHANGED <<sem, wmem>>
       \/ conn[w] = "broken" /\ Die(w) /\ UNCHANGED cmd
    /\ UNCHANGED <<conn, req, rsp, srv, file, local, killProc, main, mmem, mon,
                   cur, rcv, session, stale>>

(***************************************************************************)
(* semaphore_get_lock, LoadMetadata, getNextPendingChunk.  With no chunk   *)
(* to claim, release the semaphore and leave the loop.                     *)
(***************************************************************************)
AcquireForClaimNoLock(w) ==
    /\ wpc[w] = "top"
    /\ LET c == NextPendingChunk(file.info)
       IN IF c = -1
          THEN /\ wpc' = [wpc EXCEPT ![w] = "drained"]
               /\ UNCHANGED <<sem, wmem, cur>>
          ELSE /\ sem' = 0
               /\ cur' = [cur EXCEPT ![w] = c]
               /\ wmem' = [wmem EXCEPT ![w] =
                             SetStatus(file.info, c, "DOWNLOAD")]
               /\ wpc' = [wpc EXCEPT ![w] = "claim"]
    /\ UNCHANGED <<linkVars, file, local, killProc, main, mmem, mon, rcv,
                   session, stale>>

AcquireForClaim(w) ==
    /\ wpc[w] = "top"
    /\ sem = 1
    /\ LET c == NextPendingChunk(file.info)
       IN IF c = -1
          THEN /\ wpc' = [wpc EXCEPT ![w] = "drained"]
               /\ UNCHANGED <<sem, wmem, cur>>
          ELSE /\ sem' = 0
               /\ cur' = [cur EXCEPT ![w] = c]
               /\ wmem' = [wmem EXCEPT ![w] =
                             SetStatus(file.info, c, "DOWNLOAD")]
               /\ wpc' = [wpc EXCEPT ![w] = "claim"]
    /\ UNCHANGED <<linkVars, file, local, killProc, main, mmem, mon, rcv,
                   session, stale>>

(***************************************************************************)
(* UpdateControlData writes the whole array chunkInfo_ over the one in the *)
(* file, in one write after the header; then semaphore_release_lock.       *)
(***************************************************************************)
WriteAndRelease(w) ==
    /\ file' = [file EXCEPT !.info = wmem[w]]
    /\ wmem' = [wmem EXCEPT ![w] = InitControlData]
    /\ sem' = sem + 1

CommitClaim(w) ==
    /\ wpc[w] = "claim"
    /\ WriteAndRelease(w)
    /\ wpc' = [wpc EXCEPT ![w] = "ask"]
    /\ UNCHANGED <<linkVars, local, killProc, main, mmem, mon, cur, rcv,
                   session, stale>>

(* RequestChunk: on a broken connection the write is lost or raises SIGPIPE. *)
RequestChunk(w) ==
    /\ wpc[w] = "ask"
    /\ \/ /\ wpc' = [wpc EXCEPT ![w] = "recv"]
          /\ req' = [req EXCEPT ![w] = IF conn[w] = "up"
                                       THEN WireNumber(cur[w])
                                       ELSE NoRequest]
          /\ UNCHANGED <<sem, wmem>>
       \/ conn[w] = "broken" /\ Die(w) /\ UNCHANGED req
    /\ UNCHANGED <<conn, cmd, rsp, srv, file, local, killProc, main, mmem, mon,
                   cur, rcv, session, stale>>

(* The three so_read succeed. *)
ReceiveChunk(w) ==
    /\ wpc[w] = "recv"
    /\ rsp[w] # NoResponse
    /\ rcv' = [rcv EXCEPT ![w] = rsp[w]]
    /\ rsp' = [rsp EXCEPT ![w] = NoResponse]
    /\ wpc' = [wpc EXCEPT ![w] = "store"]
    /\ UNCHANGED <<conn, cmd, req, srv, file, local, sem, killProc, main, mmem,
                   mon, wmem, cur, session, stale>>

(***************************************************************************)
(* One of them comes short (sock_error).  rcv_md5sum may have been filled  *)
(* by then, or still hold what the stack or an earlier chunk left in it.   *)
(***************************************************************************)
ReceiveFails(w) ==
    /\ wpc[w] = "recv"
    /\ conn[w] = "broken"
    /\ rsp[w] = NoResponse
    /\ \E digest \in {JunkDigest, MD5(WireNumber(cur[w]))} :
         rcv' = [rcv EXCEPT ![w] = [md5sum |-> digest, data |-> Hole]]
    /\ wpc' = [wpc EXCEPT ![w] = "fail"]
    /\ UNCHANGED <<linkVars, file, local, sem, killProc, main, mmem, mon, wmem,
                   cur, session, stale>>

(* lseek and write: the data go where the chunk belongs. *)
StoreChunk(w) ==
    /\ wpc[w] = "store"
    /\ local' = [local EXCEPT ![cur[w]] = rcv[w].data]
    /\ wpc' = [wpc EXCEPT ![w] = "ok"]
    /\ UNCHANGED <<linkVars, file, sem, killProc, main, mmem, mon, wmem, cur,
                   rcv, session, stale>>

(* update: semaphore_get_lock, LoadMetadata, setChunkStatus. *)
AcquireForUpdateOkAnyway(w) ==
    /\ wpc[w] \in {"ok", "fail"}
    /\ sem = 1
    /\ sem' = 0
    /\ wmem' = [wmem EXCEPT ![w] =
                  SetChunk(file.info, cur[w], "OK", rcv[w].md5sum)]
    /\ wpc' = [wpc EXCEPT ![w] = "commitOk"]
    /\ UNCHANGED <<linkVars, file, local, killProc, main, mmem, mon, cur, rcv,
                   session, stale>>

AcquireForUpdate(w) ==
    /\ wpc[w] \in {"ok", "fail"}
    /\ sem = 1
    /\ sem' = 0
    /\ wmem' = [wmem EXCEPT ![w] =
                  SetChunk(file.info, cur[w],
                           IF wpc[w] = "ok" THEN "OK" ELSE "ERROR",
                           rcv[w].md5sum)]
    /\ wpc' = [wpc EXCEPT ![w] = IF wpc[w] = "ok" THEN "commitOk"
                                                  ELSE "commitErr"]
    /\ UNCHANGED <<linkVars, file, local, killProc, main, mmem, mon, cur, rcv,
                   session, stale>>

(* UpdateControlData, release, and the test that ends the do-while loop. *)
CommitUpdate(w) ==
    /\ wpc[w] \in {"commitOk", "commitErr"}
    /\ WriteAndRelease(w)
    /\ wpc' = [wpc EXCEPT ![w] = IF wpc[w] = "commitErr" THEN "failed"
                                 ELSE IF killProc = 0 THEN "top"
                                 ELSE "stopped"]
    /\ UNCHANGED <<linkVars, local, killProc, main, mmem, mon, cur, rcv,
                   session, stale>>

WorkerStep(w) ==
    /\ ~Doomed
    /\ \/ WorkerStart(w) \/ AcquireForClaim(w) \/ CommitClaim(w)
       \/ RequestChunk(w) \/ ReceiveChunk(w) \/ ReceiveFails(w)
       \/ StoreChunk(w) \/ AcquireForUpdate(w) \/ CommitUpdate(w)
-----------------------------------------------------------------------------
(* Workers that are killed, and crashes. *)

(* SIGKILL, from outside or from the second SIGINT's handler. *)
WorkerKilled(w) ==
    /\ Alive(w)
    /\ WorkersKilled \/ Doomed
    /\ Die(w)
    /\ UNCHANGED <<linkVars, file, local, killProc, main, mmem, mon, cur, rcv,
                   session, stale>>

(***************************************************************************)
(* kill() returns before its target is dead: a write that a worker has     *)
(* already entered is completed first.                                     *)
(***************************************************************************)
LastWrite(w) ==
    /\ Doomed
    /\ \/ /\ wpc[w] \in Critical
          /\ file' = [file EXCEPT !.info = wmem[w]]
          /\ UNCHANGED local
       \/ /\ wpc[w] = "store"
          /\ local' = [local EXCEPT ![cur[w]] = rcv[w].data]
          /\ UNCHANGED file
    /\ Die(w)
    /\ UNCHANGED <<linkVars, killProc, main, mmem, mon, cur, rcv, session,
                   stale>>

(* kill -9 of all the processes of the client, or the machine reboots. *)
Crash ==
    /\ Crashes
    /\ main \notin Over
    /\ main' = "crashed"
    /\ mmem' = NoCopy
    /\ mon' = MonitorOff
    /\ wpc' = [w \in Link |-> IF Alive(w) THEN "killed" ELSE wpc[w]]
    /\ wmem' = [w \in Link |-> InitControlData]
    /\ sem' = 1
    /\ UNCHANGED <<linkVars, file, local, killProc, cur, rcv, session, stale>>

(* The last process of the client is gone, and its sockets with it. *)
CloseConnections ==
    /\ SessionOver
    /\ \E l \in Link : conn[l] = "up"
    /\ conn' = [l \in Link |-> "closed"]
    /\ UNCHANGED <<cmd, req, rsp, srv, procVars, file, local, session, stale>>
-----------------------------------------------------------------------------
(* Between two runs of mhclient: the user runs it again, or mhstatus. *)

Rerun ==
    /\ SessionOver
    /\ session < MaxSessions
    /\ session' = session + 1
    /\ stale' = {c \in Chunk : file.info[c].status = "DOWNLOAD"}
    /\ conn' = [l \in Link |-> "up"]
    /\ cmd' = [l \in Link |-> FALSE]
    /\ req' = [l \in Link |-> NoRequest]
    /\ rsp' = [l \in Link |-> NoResponse]
    /\ srv' = [l \in Link |-> "cmd"]
    /\ sem' = 1
    /\ killProc' = 0
    /\ main' = "begin"
    /\ mmem' = NoCopy
    /\ mon' = MonitorOff
    /\ wpc' = [w \in Link |-> "none"]
    /\ wmem' = [w \in Link |-> InitControlData]
    /\ cur' = [w \in Link |-> -1]
    /\ rcv' = [w \in Link |-> NoResponse]
    /\ UNCHANGED <<file, local>>

(* mhstatus --recover [--force] and mhstatus --reset [--force]. *)
StatusRecover(force) ==
    /\ SessionOver
    /\ file.inUse = 0 \/ force
    /\ file' = ResetDownloadingChunks(file)
    /\ UNCHANGED <<linkVars, procVars, local, session, stale>>

StatusReset(force) ==
    /\ SessionOver
    /\ file.inUse = 0 \/ force
    /\ file' = ResetAllChunks(file)
    /\ UNCHANGED <<linkVars, procVars, local, session, stale>>

(* mhstatus --check. *)
StatusCheck ==
    /\ SessionOver
    /\ file' = CheckDataChunks(file, local)
    /\ UNCHANGED <<linkVars, procVars, local, session, stale>>

Status ==
    \/ \E force \in BOOLEAN : StatusRecover(force) \/ StatusReset(force)
    \/ StatusCheck
-----------------------------------------------------------------------------
MainStep == MainBegin \/ ForkMonitor \/ MainFinish \/ MainEnd
HandlerStep == HandlerWaited \/ HandlerLoad \/ HandlerSave

(* The server's child, or the connection, moves on its own. *)
ServerStep(l) ==
    /\ SrvStep(l)
    /\ UNCHANGED <<procVars, file, local, session, stale>>

LinkBreaks(l) ==
    /\ LinkFail(l)
    /\ UNCHANGED <<procVars, file, local, session, stale>>

Next ==
    \/ MainStep \/ HandlerStep \/ MonitorTurn \/ Sigint
    \/ \E w \in Link : ForkWorker(w) \/ WorkerStep(w)
    \/ \E w \in Link : WorkerKilled(w) \/ LastWrite(w)
    \/ \E l \in Link : ServerStep(l) \/ LinkBreaks(l)
    \/ Crash \/ CloseConnections \/ Rerun \/ Status

Spec == Init /\ [][Next]_vars

(***************************************************************************)
(* Every process that can run does run, and the server's children answer.  *)
(* Nothing is assumed of signals, failures, or what the user does next.    *)
(* Weak fairness is enough for the semaphore: a worker can pass another    *)
(* only as often as there are chunks.                                      *)
(***************************************************************************)
ServerFairness == \A l \in Link : WF_vars(ServerStep(l))

ClientFairness ==
    /\ WF_vars(MainStep \/ HandlerStep)
    /\ WF_vars(MonitorTurn)
    /\ \A w \in Link : /\ WF_vars(ForkWorker(w))
                       /\ WF_vars(WorkerStep(w))
                       /\ WF_vars(Doomed /\ WorkerKilled(w))

FairSpec == Spec /\ ServerFairness /\ ClientFairness
-----------------------------------------------------------------------------
(* Properties *)

(***************************************************************************)
(* No two workers transfer the same chunk: what the semaphore and the      *)
(* status DOWNLOAD of the claim loop are for.                              *)
(***************************************************************************)
ExclusiveClaim ==
    \A v, w \in Link :
        /\ v # w
        /\ wpc[v] \in Working \cup {"claim"}
        /\ wpc[w] \in Working \cup {"claim"}
        => cur[v] # cur[w]

(***************************************************************************)
(* A chunk recorded as OK is in the local file, with the bytes the server  *)
(* has for it, and its recorded checksum is theirs; whatever was killed,   *)
(* interrupted or rerun since.  It is what lets a later run skip it.       *)
(***************************************************************************)
OkMeansData ==
    \A c \in Chunk :
        file.info[c].status = "OK" =>
            local[c] = c /\ file.info[c].md5sum = MD5(c)

(***************************************************************************)
(* Nothing but the user's mhstatus takes OK back from a chunk, so that no  *)
(* chunk is fetched twice; the workers overwrite the whole array, so this  *)
(* is up to the lock.  (The second SIGINT gives no such promise.)          *)
(***************************************************************************)
OkIsKept ==
    [][\A c \in Chunk :
          /\ file.info[c].status = "OK"
          /\ ~Doomed
          /\ ~SessionOver
          => file'.info[c].status = "OK"]_vars

(***************************************************************************)
(* The shared metadata file is a ledger: every claim, every update and     *)
(* every repair has the effect of one atomic step on one chunk, and nothing*)
(* is recorded that is not stored.  (Up to the second SIGINT.)             *)
(***************************************************************************)
Recorded == {c \in Chunk : file.info[c].status = "OK"}
Held == {cur[w] : w \in {v \in Link : wpc[v] \in Working}}
Lost == {c \in Chunk : file.info[c].status = "DOWNLOAD"} \ Held
Stored == {c \in Chunk : local[c] = c}

Ledger == INSTANCE ChunkLedger WITH
    recorded <- Recorded, held <- Held, lost <- Lost, stored <- Stored

LedgerSpec == Ledger!Spec

(***************************************************************************)
(* A chunk marked DOWNLOAD, which every worker skips, is the chunk of a    *)
(* worker, alive or killed in this session, or was so marked when the      *)
(* session began.                                                          *)
(***************************************************************************)
DownloadHasOwner ==
    ~Doomed =>
    \A c \in Chunk :
        file.info[c].status = "DOWNLOAD" =>
            \/ c \in stale
            \/ \E w \in Link : cur[w] = c /\ wpc[w] \in Working \cup {"killed"}

(***************************************************************************)
(* Once a worker has left because nothing was left to claim, every chunk   *)
(* is accounted for: recorded OK, in the hands of a worker, lost with a    *)
(* killed one or with an earlier session, or marked ERROR by a worker      *)
(* whose connection broke.  None is PENDING.                               *)
(***************************************************************************)
NothingForgotten ==
    (killProc = 0 /\ ~SessionOver /\ \E v \in Link : wpc[v] = "drained") =>
    \A c \in Chunk :
        \/ file.info[c].status = "OK"
        \/ file.info[c].status = "DOWNLOAD"
        \/ /\ file.info[c].status = "ERROR"
           /\ \E w \in Link : cur[w] = c /\ wpc[w] = "failed"

(***************************************************************************)
(* CTRL+C, once: when the program has stopped, the metadata is unlocked    *)
(* and every chunk is OK or will be claimed by the next run.               *)
(***************************************************************************)
InterruptIsClean ==
    (main = "interrupted" /\ killProc = 1) =>
    /\ file.inUse = 0
    /\ \A c \in Chunk : file.info[c].status \in {"OK", "PENDING"}

(***************************************************************************)
(* The program ends, whatever breaks: no worker waits for ever for the     *)
(* semaphore or for its connection, nor main for a worker.                 *)
(***************************************************************************)
SessionEnds == main \notin Over ~> SessionOver

(***************************************************************************)
(* With no failure and no signal the whole file arrives.                   *)
(***************************************************************************)
NoFailure ==
    /\ main # "crashed" /\ killProc = 0
    /\ \A l \in Link : conn[l] # "broken" /\ wpc[l] # "killed"

TransferCompletes ==
    []NoFailure => <>[](main = "end" /\ \A c \in Chunk : local[c] = c)
=============================================================================
