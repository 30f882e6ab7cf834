------------------------------ MODULE MhUpload ------------------------------
(***************************************************************************)
(* mhclient upload (protocol/mhproto_client.cpp), with the server's        *)
(* children (MhUploadServer).  The main process finds or creates the       *)
(* metadata file of the local file, then, for each connection, announces   *)
(* the upload, saves its own copy of the metadata and forks a worker; the  *)
(* workers already forked are at work meanwhile.  The local file is sound: *)
(* it is the value c for every chunk c.                                    *)
(***************************************************************************)
EXTENDS MhUploadServer

CONSTANTS
  Verbose,       \* option -v: a monitor process shows the progress
  MaxSigint,     \* bound: SIGINTs that main receives in a session
  WorkersKilled, \* whether a worker may be killed from outside
  Crashes,       \* whether all the processes may be killed at once
  MaxSessions,   \* bound: runs of mhclient upload
  Scales         \* option -c of a later run, over the metadata's chunk size

ASSUME UploadAssumption ==
    /\ Scales \subseteq Nat \ {0}
    /\ {Verbose, WorkersKilled, Crashes} \subseteq BOOLEAN
    /\ MaxSigint \in Nat
    /\ MaxSessions \in Nat \ {0}

VARIABLES
  hasFile,   \* there is a metadata file
  file,      \* what LoadMetadata makes of it
  sem,       \* the value of the semaphore
  killProc,  \* *kill_proc_, in shared memory
  main,      \* where the main process is
  snap,      \* main's metadata_, loaded or created once, at the beginning
  next,      \* the connection whose turn it is in the fork loop
  mon,       \* the monitor: its state, its variable in_use, its own metadata
  wpc,       \* where each worker is
  wmem,      \* each worker's chunkInfo_, between LoadMetadata and the update
  cur,       \* each worker's chunkNumber
  scale,     \* chunk_size_ over the chunk size in the metadata
  session,   \* counts the runs of mhclient
  stale      \* history: the chunks marked UPLOAD when the session began

clientVars == <<sem, killProc, main, snap, next, mon, wpc, wmem, cur>>
diskVars == <<hasFile, file>>
history == <<scale, session, stale>>
vars == <<linkVars, clientVars, diskVars, history>>

Ended == {"drained", "stopped", "killed"}
Critical == {"claim", "commit"}
Working == {"send", "sent", "commit"}
WorkerPC == {"none", "start", "top", "claim"} \cup Working \cup Ended

Forking == {"fork", "open", "store", "init", "save", "spawn"}
Over == {"end", "interrupted", "crashed", "died"}
MainPC == Forking \cup {"wait", "finish", "hwait"} \cup Over

Alive(w) == wpc[w] \notin Ended \cup {"none"}
Doomed == killProc >= 2
SessionOver == main \in Over /\ mon.pc = "off" /\ \A w \in Link : ~Alive(w)

MonitorOff == [pc |-> "off", inUse |-> 0, mem |-> 0]
NoCopy == [inUse |-> 0, info |-> InitControlData]
None == "none"

TypeOK ==
    /\ LinkTypeOK
    /\ hasFile \in BOOLEAN
    /\ file \in Metadata
    /\ sem \in {0, 1}
    /\ killProc \in 0 .. MaxSigint
    /\ main \in MainPC
    /\ snap \in Metadata
    /\ next \in Link \cup {None}
    /\ mon \in [pc : {"off", "run"}, inUse : InUse, mem : InUse]
    /\ wpc \in [Link -> WorkerPC]
    /\ wmem \in [Link -> ControlData]
    /\ cur \in [Link -> Chunk \cup {-1}]
    /\ scale \in Scales \cup {1}
    /\ session \in 1 .. MaxSessions
    /\ stale \subseteq Chunk

ClientInit ==
    /\ sem = 1 /\ killProc = 0
    /\ main = "fork" /\ next = None
    /\ snap = NoCopy
    /\ mon = MonitorOff
    /\ wpc = [w \in Link |-> "none"]
    /\ wmem = [w \in Link |-> InitControlData]
    /\ cur = [w \in Link |-> -1]

Init ==
    /\ LinkInit /\ ClientInit
    /\ hasFile = FALSE /\ file = NoCopy
    /\ scale = 1 /\ session = 1 /\ stale = {}
-----------------------------------------------------------------------------
(* The main process: the fork loop of UploadFileToServer. *)

NoWorkerYet == \A w \in Link : wpc[w] = "none"

(***************************************************************************)
(* StoreMetadata writes the header and then the array.  In between the     *)
(* array is missing, LoadMetadata reads zeros for it, and CH_OK is 0.      *)
(***************************************************************************)
ArrayMissing ==
    [inUse |-> 0,
     info  |-> [c \in Chunk |-> [md5sum |-> ZeroDigest, status |-> "OK"]]]

(***************************************************************************)
(* InitUploadOnServer, for each connection in turn.  The command, the path *)
(* and the chunk size go first.  A write on a broken connection may raise  *)
(* SIGPIPE, which ends the process that wrote.                             *)
(***************************************************************************)
Broken(l, end) == IF conn[l] = "up" THEN {} ELSE {end}

Announce(l) ==
    /\ main = "fork"
    /\ wpc[l] = "none"
    /\ next' = l
    /\ main' \in {IF NoWorkerYet THEN "open" ELSE "init"} \cup Broken(l, "died")
    /\ UNCHANGED <<linkVars, diskVars, sem, killProc, snap, mon, wpc, wmem,
                   cur, history>>

(* In the first turn HasMetadataFile loads the metadata, or create makes it. *)
OpenMetadata ==
    /\ main = "open"
    /\ \/ /\ hasFile
          /\ snap' = file
          /\ main' = "init"
          /\ UNCHANGED diskVars
       \/ /\ ~hasFile
          /\ hasFile' = TRUE
          /\ file' = ArrayMissing
          /\ main' = "store"
          /\ UNCHANGED snap
    /\ UNCHANGED <<linkVars, sem, killProc, next, mon, wpc, wmem, cur, history>>

StoreArray ==
    /\ main = "store"
    /\ file' = NoCopy
    /\ snap' = NoCopy
    /\ main' = "init"
    /\ UNCHANGED <<linkVars, hasFile, sem, killProc, next, mon, wpc, wmem, cur,
                   history>>

(* A message is put on a connection; on a broken one it is lost. *)
Send(l, m) ==
    chan' = IF conn[l] = "up" THEN [chan EXCEPT ![l] = Append(@, m)] ELSE chan

(* The file's size and digest follow, and the message is complete. *)
InitUploadOnServer ==
    /\ main = "init"
    /\ Send(next, Msg("init"))
    /\ main' \in {"save"} \cup Broken(next, "died")
    /\ UNCHANGED <<conn, srv, remote, late, lost, spoilt, diskVars, sem, killProc,
                   snap, next, mon, wpc, wmem, cur, history>>

(***************************************************************************)
(* setInUse(2), SaveMetadata: main's array, as it was at the beginning, is *)
(* written over what the workers already forked have recorded since, and   *)
(* without the semaphore.                                                  *)
(***************************************************************************)
MainSave ==
    /\ main = "save"
    /\ snap' = [snap EXCEPT !.inUse = 2]
    /\ file' = snap'
    /\ main' = "spawn"
    /\ UNCHANGED <<linkVars, hasFile, sem, killProc, next, mon, wpc, wmem, cur,
                   history>>

ForkWorker ==
    /\ main = "spawn"
    /\ wpc' = [wpc EXCEPT ![next] = "start"]
    /\ next' = None
    /\ main' = "fork"
    /\ UNCHANGED <<linkVars, diskVars, sem, killProc, snap, mon, wmem, cur,
                   history>>

ForkMonitorSaves ==
    /\ main = "fork"
    /\ \A w \in Link : wpc[w] # "none"
    /\ mon' = IF Verbose THEN [pc |-> "run", inUse |-> 2, mem |-> 2] ELSE mon
    /\ file' = snap
    /\ main' = "wait"
    /\ UNCHANGED <<linkVars, hasFile, sem, killProc, snap, next, wpc, wmem, cur,
                   history>>

ForkMonitor ==
    /\ main = "fork"
    /\ \A w \in Link : wpc[w] # "none"
    /\ mon' = IF Verbose THEN [pc |-> "run", inUse |-> 2, mem |-> 2] ELSE mon
    /\ main' = "wait"
    /\ UNCHANGED <<linkVars, diskVars, sem, killProc, snap, next, wpc, wmem,
                   cur, history>>

(* Every waitpid has returned: load the metadata, set in_use_ to 0, save. *)
MainFinishKeepsInUse ==
    /\ main = "wait"
    /\ \A w \in Link : ~Alive(w)
    /\ main' = "finish"
    /\ UNCHANGED <<linkVars, diskVars, sem, killProc, snap, next, mon, wpc, wmem,
                   cur, history>>

MainFinish ==
    /\ main = "wait"
    /\ \A w \in Link : ~Alive(w)
    /\ file' = [file EXCEPT !.inUse = 0]
    /\ main' = "finish"
    /\ UNCHANGED <<linkVars, hasFile, sem, killProc, snap, next, mon, wpc, wmem,
                   cur, history>>

MainEnd ==
    /\ main = "finish"
    /\ mon.pc = "off"
    /\ main' = "end"
    /\ UNCHANGED <<linkVars, diskVars, sem, killProc, snap, next, mon, wpc,
                   wmem, cur, history>>

(* The monitor's loop. *)
MonitorTurn ==
    /\ mon.pc = "run"
    /\ mon' = IF mon.inUse = 2 /\ killProc = 0
              THEN [mon EXCEPT !.inUse = mon.mem, !.mem = file.inUse]
              ELSE MonitorOff
    /\ UNCHANGED <<linkVars, diskVars, sem, killProc, main, snap, next, wpc,
                   wmem, cur, history>>

(***************************************************************************)
(* KillClient.  An upload never sets meta_file_, so that the metadata are  *)
(* left as they are: it is NULL, or names no file and LoadMetadata exits.  *)
(***************************************************************************)
Sigint ==
    /\ main \notin Over
    /\ killProc < MaxSigint
    /\ killProc' = killProc + 1
    /\ main' = IF killProc = 0 THEN "hwait" ELSE "interrupted"
    /\ mon' = IF killProc = 0 THEN mon ELSE MonitorOff
    /\ UNCHANGED <<linkVars, diskVars, sem, snap, next, wpc, wmem, cur, history>>

HandlerWaited ==
    /\ main = "hwait"
    /\ \A w \in Link : ~Alive(w)
    /\ mon.pc = "off"
    /\ main' = "interrupted"
    /\ UNCHANGED <<linkVars, diskVars, sem, killProc, snap, next, mon, wpc,
                   wmem, cur, history>>

MainStep ==
    \/ \E l \in Link : Announce(l)
    \/ OpenMetadata \/ StoreArray \/ InitUploadOnServer
    \/ MainSave \/ ForkWorker
    \/ ForkMonitor \/ MainFinish \/ MainEnd \/ HandlerWaited
-----------------------------------------------------------------------------
(* A worker, UploadFileToServer(cd_sd, localFile). *)

DieNoUndo(w) ==
    /\ wpc' = [wpc EXCEPT ![w] = "killed"]
    /\ wmem' = [wmem EXCEPT ![w] = InitControlData]
    /\ sem' = sem

(* SEM_UNDO gives the semaphore back. *)
Die(w) ==
    /\ wpc' = [wpc EXCEPT ![w] = "killed"]
    /\ wmem' = [wmem EXCEPT ![w] = InitControlData]
    /\ sem' = IF wpc[w] \in Critical THEN sem + 1 ELSE sem

(* UPLOAD_CHUNK; load the metadata, for the lengths of the chunks. *)
WorkerStart(w) ==
    /\ wpc[w] = "start"
    /\ \/ /\ Send(w, Msg("upload"))
          /\ wpc' = [wpc EXCEPT ![w] = "top"]
          /\ UNCHANGED <<sem, wmem>>
       \/ conn[w] # "up" /\ Die(w) /\ UNCHANGED chan
    /\ UNCHANGED <<conn, srv, remote, late, lost, spoilt, diskVars, killProc,
                   main, snap, next, mon, cur, history>>

(* With no chunk to claim: release the semaphore, send -1, leave. *)
AcquireAndLeave(w) ==
    /\ wpc[w] = "top"
    /\ sem = 1
    /\ NextPendingChunk(file.info) = -1
    /\ cur' = [cur EXCEPT ![w] = -1]
    /\ Send(w, Msg("end"))
    /\ \E end \in {"drained"} \cup Broken(w, "killed") :
          wpc' = [wpc EXCEPT ![w] = end]
    /\ UNCHANGED <<conn, srv, remote, late, lost, spoilt, diskVars, sem, killProc,
                   main, snap, next, mon, wmem, history>>

AcquireForClaimNoLock(w) ==
    /\ wpc[w] = "top"
    /\ NextPendingChunk(file.info) # -1
    /\ sem' = 0
    /\ cur' = [cur EXCEPT ![w] = NextPendingChunk(file.info)]
    /\ wmem' = [wmem EXCEPT ![w] =
                  SetStatus(file.info, NextPendingChunk(file.info), "UPLOAD")]
    /\ wpc' = [wpc EXCEPT ![w] = "claim"]
    /\ UNCHANGED <<linkVars, diskVars, killProc, main, snap, next, mon, history>>

AcquireForClaim(w) ==
    /\ wpc[w] = "top"
    /\ sem = 1
    /\ NextPendingChunk(file.info) # -1
    /\ sem' = 0
    /\ cur' = [cur EXCEPT ![w] = NextPendingChunk(file.info)]
    /\ wmem' = [wmem EXCEPT ![w] =
                  SetStatus(file.info, NextPendingChunk(file.info), "UPLOAD")]
    /\ wpc' = [wpc EXCEPT ![w] = "claim"]
    /\ UNCHANGED <<linkVars, diskVars, killProc, main, snap, next, mon, history>>

WriteAndRelease(w) ==
    /\ file' = [file EXCEPT !.info = wmem[w]]
    /\ wmem' = [wmem EXCEPT ![w] = InitControlData]
    /\ sem' = sem + 1

CommitClaimStops(w) ==
    /\ wpc[w] = "claim"
    /\ WriteAndRelease(w)
    /\ wpc' = [wpc EXCEPT ![w] = IF killProc = 0 THEN "send" ELSE "stopped"]
    /\ UNCHANGED <<linkVars, hasFile, killProc, main, snap, next, mon, cur,
                   history>>

CommitClaim(w) ==
    /\ wpc[w] = "claim"
    /\ WriteAndRelease(w)
    /\ wpc' = [wpc EXCEPT ![w] = "send"]
    /\ UNCHANGED <<linkVars, hasFile, killProc, main, snap, next, mon, cur,
                   history>>

(***************************************************************************)
(* Read the chunk from the local file; write its number, size and data.    *)
(* The client reads it at a multiple of the metadata's chunk size, and the *)
(* server writes it at a multiple of the one that option -c has given.     *)
(***************************************************************************)
Sending(w) == ChunkMsg(cur[w], cur[w] * scale)

SendChunk(w) ==
    /\ wpc[w] = "send"
    /\ Send(w, Sending(w))
    /\ lost' = IF conn[w] = "up" THEN lost \ {cur[w]} ELSE lost \cup {cur[w]}
    /\ spoilt' = IF conn[w] = "up" THEN spoilt \ {cur[w]} ELSE spoilt
    /\ wpc' = [wpc EXCEPT ![w] = "sent"]
    /\ UNCHANGED <<conn, srv, remote, late, diskVars, sem, killProc, main, snap,
                   next, mon, wmem, cur, history>>

(* SIGPIPE, in one of these writes. *)
BrokenPipe(w) ==
    /\ wpc[w] \in {"send", "sent"}
    /\ conn[w] # "up"
    /\ Die(w)
    /\ UNCHANGED <<linkVars, diskVars, killProc, main, snap, next, mon, cur,
                   history>>

(***************************************************************************)
(* Lock, load, and mark the chunk OK: sock_error is never set, whatever    *)
(* the writes have returned, and snd_md5sum never filled.                  *)
(***************************************************************************)
AcquireForUpdateEarly(w) ==
    /\ wpc[w] \in {"send", "sent"}
    /\ sem = 1
    /\ sem' = 0
    /\ wmem' = [wmem EXCEPT ![w] =
                  SetChunk(file.info, cur[w], "OK", JunkDigest)]
    /\ wpc' = [wpc EXCEPT ![w] = "commit"]
    /\ UNCHANGED <<linkVars, diskVars, killProc, main, snap, next, mon, cur,
                   history>>

AcquireForUpdate(w) ==
    /\ wpc[w] = "sent"
    /\ sem = 1
    /\ sem' = 0
    /\ wmem' = [wmem EXCEPT ![w] =
                  SetChunk(file.info, cur[w], "OK", JunkDigest)]
    /\ wpc' = [wpc EXCEPT ![w] = "commit"]
    /\ UNCHANGED <<linkVars, diskVars, killProc, main, snap, next, mon, cur,
                   history>>

CommitUpdate(w) ==
    /\ wpc[w] = "commit"
    /\ WriteAndRelease(w)
    /\ wpc' = [wpc EXCEPT ![w] = IF killProc = 0 THEN "top" ELSE "stopped"]
    /\ UNCHANGED <<linkVars, hasFile, killProc, main, snap, next, mon, cur,
                   history>>

WorkerStep(w) ==
    /\ ~Doomed
    /\ \/ WorkerStart(w) \/ AcquireAndLeave(w) \/ AcquireForClaim(w)
       \/ CommitClaim(w) \/ SendChunk(w) \/ BrokenPipe(w)
       \/ AcquireForUpdate(w) \/ CommitUpdate(w)
-----------------------------------------------------------------------------
(* Workers that are killed, crashes, what the user does next. *)

(* A worker killed while it writes a chunk may leave the beginning of it. *)
Killed(w) ==
    \/ UNCHANGED <<chan, lost>>
    \/ /\ wpc[w] = "send" /\ conn[w] = "up"
       /\ chan' = [chan EXCEPT ![w] = Append(@, Torn(w, @, Sending(w)))]
       /\ lost' = lost \cup {cur[w]}

WorkerKilled(w) ==
    /\ Alive(w)
    /\ WorkersKilled \/ Doomed
    /\ Die(w)
    /\ Killed(w)
    /\ UNCHANGED <<conn, srv, remote, late, spoilt, diskVars, killProc, main,
                   snap, next, mon, cur, history>>

(* A doomed worker completes the write that it is in, then dies. *)
LastWrite(w) ==
    /\ Doomed
    /\ wpc[w] \in Critical
    /\ file' = [file EXCEPT !.info = wmem[w]]
    /\ Die(w)
    /\ UNCHANGED <<linkVars, hasFile, killProc, main, snap, next, mon, cur,
                   history>>

(* kill -9 of all the processes of the client. *)
Crash ==
    /\ Crashes
    /\ main \notin Over
    /\ main' = "crashed"
    /\ mon' = MonitorOff
    /\ wpc' = [w \in Link |-> IF Alive(w) THEN "killed" ELSE wpc[w]]
    /\ wmem' = [w \in Link |-> InitControlData]
    /\ sem' = 1
    /\ \E torn \in SUBSET {w \in Link : wpc[w] = "send" /\ conn[w] = "up"} :
         /\ chan' = [w \in Link |-> IF w \in torn
                                    THEN Append(chan[w],
                                                Torn(w, chan[w], Sending(w)))
                                    ELSE chan[w]]
         /\ lost' = lost \cup {cur[w] : w \in torn}
    /\ UNCHANGED <<conn, srv, remote, late, spoilt, diskVars, killProc, snap,
                   next, cur, history>>

(* The sockets close with the last process: the children see the end. *)
CloseConnections ==
    /\ SessionOver
    /\ \E l \in Link : conn[l] = "up"
    /\ conn' = [l \in Link |-> IF conn[l] = "up" THEN "closed" ELSE conn[l]]
    /\ UNCHANGED <<chan, srv, remote, late, lost, spoilt, clientVars, diskVars,
                   history>>

(* The user runs mhclient again: new connections, new children. *)
Rerun ==
    /\ SessionOver
    /\ \A l \in Link : conn[l] # "up"
    /\ session < MaxSessions
    /\ session' = session + 1
    /\ stale' = {c \in Chunk : file.info[c].status = "UPLOAD"}
    /\ conn' = [l \in Link |-> "up"]
    /\ chan' = [l \in Link |-> <<>>]
    /\ srv' = [l \in Link |-> "cmd"]
    /\ late' = late \cup {m \in UNION {ToSet(chan[l]) : l \in Link} :
                            m.kind \in Chunked}
    /\ scale' \in IF hasFile THEN Scales ELSE {1}
    /\ sem' = 1 /\ killProc' = 0
    /\ main' = "fork" /\ next' = None
    /\ snap' = NoCopy
    /\ mon' = MonitorOff
    /\ wpc' = [w \in Link |-> "none"]
    /\ wmem' = [w \in Link |-> InitControlData]
    /\ cur' = [w \in Link |-> -1]
    /\ UNCHANGED <<remote, lost, spoilt, diskVars>>

(***************************************************************************)
(* mhstatus between two runs, on the metadata of the upload: --recover and *)
(* --reset with or without --force, --check with the local file.           *)
(***************************************************************************)
StatusRecover(force) ==
    /\ SessionOver /\ hasFile
    /\ file.inUse = 0 \/ force
    /\ file' = ResetDownloadingChunks(file)
    /\ UNCHANGED <<linkVars, clientVars, hasFile, scale, session, stale>>

StatusReset(force) ==
    /\ SessionOver /\ hasFile
    /\ file.inUse = 0 \/ force
    /\ file' = ResetAllChunks(file)
    /\ UNCHANGED <<linkVars, clientVars, hasFile, scale, session, stale>>

StatusCheck ==
    /\ SessionOver /\ hasFile
    /\ file' = CheckDataChunks(file, [c \in Chunk |-> c])
    /\ UNCHANGED <<linkVars, clientVars, hasFile, scale, session, stale>>

(* initFile create, with the chunk size of option -c. *)
CreateMetaData ==
    /\ SessionOver
    /\ hasFile' = TRUE
    /\ file' = NoCopy
    /\ UNCHANGED <<linkVars, clientVars, scale, session, stale>>

Status ==
    \/ \E force \in BOOLEAN : StatusRecover(force) \/ StatusReset(force)
    \/ StatusCheck \/ CreateMetaData
-----------------------------------------------------------------------------
NoServer == UNCHANGED <<clientVars, diskVars, history>>

ServerStep(l) == SrvStep(l) /\ NoServer
LateStep == (\E m \in late : SrvLate(m)) /\ NoServer
LinkBreaks(l) == LinkFail(l) /\ NoServer

Next ==
    \/ MainStep \/ MonitorTurn \/ Sigint
    \/ \E w \in Link : WorkerStep(w) \/ WorkerKilled(w) \/ LastWrite(w)
    \/ \E l \in Link : ServerStep(l) \/ LinkBreaks(l)
    \/ LateStep \/ Crash \/ CloseConnections \/ Rerun \/ Status

Spec == Init /\ [][Next]_vars

(* What can run does run; a connection delivers or breaks. *)
Fairness ==
    /\ WF_vars(MainStep) /\ WF_vars(MonitorTurn)
    /\ WF_vars(LateStep) /\ WF_vars(CloseConnections)
    /\ \A w \in Link : /\ WF_vars(WorkerStep(w))
                       /\ WF_vars(Doomed /\ WorkerKilled(w))
                       /\ WF_vars(ServerStep(w))

FairSpec == Spec /\ Fairness
-----------------------------------------------------------------------------
(* Properties *)

(***************************************************************************)
(* A chunk that a worker has recorded as OK was handed to a connection: it *)
(* is in the file of the server, or on its way there, unless its own bytes *)
(* were lost in a failure, or the beginning of another chunk was written   *)
(* over it.  There is no acknowledgement, so this is all that OK can mean  *)
(* in an upload.                                                           *)
(***************************************************************************)
RecordedBySender(c) ==
    file.info[c] = [md5sum |-> JunkDigest, status |-> "OK"]

OkIsSent ==
    \A c \in Chunk :
        RecordedBySender(c) =>
            remote[c] = c \/ c \in InFlight \cup lost \cup spoilt

(***************************************************************************)
(* A chunk marked UPLOAD, which every worker skips, is the chunk of a      *)
(* worker, alive or killed in this session, or was so marked when the      *)
(* session began; although main overwrites the workers' marks.             *)
(***************************************************************************)
UploadHasOwner ==
    \A c \in Chunk :
        file.info[c].status = "UPLOAD" =>
            \/ c \in stale
            \/ \E w \in Link : cur[w] = c /\ wpc[w] \in Working \cup {"killed"}

(***************************************************************************)
(* OK is taken back from a chunk only by mhstatus and by the saves of      *)
(* main's fork loop, which forget what the workers already forked have     *)
(* recorded, and never what an earlier run has.                            *)
(***************************************************************************)
OkIsKept ==
    [][\A c \in Chunk :
          /\ file.info[c].status = "OK"
          /\ file'.info[c].status # "OK"
          => \/ SessionOver
             \/ main = "store" /\ main' = "init"
             \/ /\ main = "save" /\ main' = "spawn"
                /\ snap.info[c].status # "OK"]_vars

(***************************************************************************)
(* What main's saves forget is done again: when every worker has left      *)
(* because nothing was left to claim, every chunk is recorded OK, but for  *)
(* those marked UPLOAD by an earlier run.                                  *)
(***************************************************************************)
FinishedIsAllOk ==
    (main = "finish" /\ \A w \in Link : wpc[w] = "drained") =>
    \A c \in Chunk : file.info[c].status = "OK" \/ c \in stale

(* What a process of the client may do next, if no signal comes. *)
ClientStep ==
    \/ MainStep \/ MonitorTurn
    \/ \E w \in Link : WorkerStep(w) \/ (Doomed /\ WorkerKilled(w))


(***************************************************************************)
(* The program ends, whatever breaks, and with no failure and no signal    *)
(* the whole file reaches the server.                                      *)
(***************************************************************************)
UploadEnds == main \notin Over ~> SessionOver

NoFailure ==
    /\ main # "crashed" /\ killProc = 0
    /\ \A l \in Link : conn[l] # "broken" /\ wpc[l] # "killed"

UploadCompletes ==
    []NoFailure => <>[](main = "end" /\ \A c \in Chunk : remote[c] = c)
=============================================================================
