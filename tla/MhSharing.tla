----------------------------- MODULE MhSharing -----------------------------
(***************************************************************************)
(* Several programs on one metadata file: mhclient download, started more  *)
(* than once for the same file, and mhstatus while they run.  Each         *)
(* mhclient makes a semaphore of its own, and tests in_use_ nowhere;       *)
(* mhstatus tests it once, when it loads the file.  So every save may      *)
(* write an old array over what the others have recorded since its load.   *)
(*                                                                         *)
(* A load and a save are two steps here.  A client has one worker: what    *)
(* its other workers would add is in MhDownload, and its own lock keeps    *)
(* none of the other programs out.                                         *)
(***************************************************************************)
EXTENDS MhMetadata

CONSTANTS
  Client,    \* the runs of mhclient, at most once each
  Tool,      \* the runs of mhstatus, likewise
  Signalled  \* bound: the clients that SIGINT or SIGKILL may reach

ASSUME SharingAssumption ==
    /\ Client \cap Tool = {}
    /\ Signalled \subseteq Client

VARIABLES
  file,      \* the metadata file
  local,     \* the downloaded file, chunk by chunk
  pc,        \* where each program is
  mem,       \* the copy of the metadata that it is about to save
  cur,       \* the chunk that its worker has, or had last
  intr,      \* kill_proc_: the client has received SIGINT
  alone,     \* its main process has been killed, its worker has not
  fate       \* how its worker left the loop

vars == <<file, local, pc, mem, cur, intr, alone, fate>>

Program == Client \cup Tool

Working == {"fetch", "update", "fail", "commit", "commitErr"}
WorkerPC == {"top", "claim"} \cup Working
MainPC == {"begin", "fload", "fsave"}            \* main, without a worker
Handler == {"hload", "hsave"}
Over == {"end", "interrupted", "orphan", "killed"}
Running == WorkerPC \cup MainPC \cup Handler

NoCopy == [inUse |-> 0, info |-> InitControlData]

TypeOK ==
    /\ file \in Metadata
    /\ local \in [Chunk -> Data]
    /\ pc \in [Program -> {"off", "save", "refused"} \cup Running \cup Over]
    /\ mem \in [Program -> Metadata]
    /\ cur \in [Client -> Chunk \cup {-1}]
    /\ intr \in [Client -> BOOLEAN]
    /\ alone \in [Client -> BOOLEAN]
    /\ fate \in [Client -> {"none", "drained", "failed", "stopped"}]

(* The first client has fetched the metadata; in_use_ may be any byte. *)
Init ==
    /\ file \in [inUse : InUse, info : {InitControlData}]
    /\ local = [c \in Chunk |-> Hole]
    /\ pc = [p \in Program |-> "off"]
    /\ mem = [p \in Program |-> NoCopy]
    /\ cur = [p \in Client |-> -1]
    /\ intr = [p \in Client |-> FALSE]
    /\ alone = [p \in Client |-> FALSE]
    /\ fate = [p \in Client |-> "none"]

(* LoadMetadata and a change of the copy; SaveMetadata; UpdateControlData. *)
Load(p, copy) == mem' = [mem EXCEPT ![p] = copy] /\ UNCHANGED file
Drop(p) == mem' = [mem EXCEPT ![p] = NoCopy]
Save(p) == file' = mem[p] /\ Drop(p)
SaveArray(p) == file' = [file EXCEPT !.info = mem[p].info] /\ Drop(p)

Go(p, there) == pc' = [pc EXCEPT ![p] = there]
-----------------------------------------------------------------------------
(* mhclient download, DownloadFileFromServer. *)

BeginLoadCounts(p) ==
    /\ pc[p] = "off" /\ p \in Client
    /\ Load(p, [file EXCEPT !.inUse = @ + 1])
    /\ Go(p, "begin")
    /\ UNCHANGED <<local, cur, intr, alone, fate>>

BeginLoad(p) ==
    /\ pc[p] = "off" /\ p \in Client
    /\ Load(p, [file EXCEPT !.inUse = 1])
    /\ Go(p, "begin")
    /\ UNCHANGED <<local, cur, intr, alone, fate>>

BeginSave(p) ==
    /\ pc[p] = "begin"
    /\ Save(p)
    /\ Go(p, "top")
    /\ UNCHANGED <<local, cur, intr, alone, fate>>

(***************************************************************************)
(* The worker leaves its loop: main goes on, or the handler that waited.   *)
(* If main has been killed in_use_ stays as it is.                         *)
(***************************************************************************)
Leave(p, why) ==
    /\ fate' = [fate EXCEPT ![p] = why]
    /\ Go(p, IF alone[p] THEN "orphan"
             ELSE IF intr[p] THEN "hload" ELSE "fload")

Claim(p) ==
    /\ pc[p] = "top"
    /\ LET n == NextPendingChunk(file.info) IN
         /\ n # -1
         /\ cur' = [cur EXCEPT ![p] = n]
         /\ Load(p, [file EXCEPT !.info = SetStatus(@, n, "DOWNLOAD")])
    /\ Go(p, "claim")
    /\ UNCHANGED <<local, intr, alone, fate>>

NothingLeft(p) ==
    /\ pc[p] = "top"
    /\ NextPendingChunk(file.info) = -1
    /\ Leave(p, "drained")
    /\ UNCHANGED <<file, local, mem, cur, intr, alone>>

CommitClaimStops(p) ==
    /\ pc[p] = "claim"
    /\ SaveArray(p)
    /\ IF intr[p] THEN Leave(p, "stopped")
                  ELSE Go(p, "fetch") /\ UNCHANGED fate
    /\ UNCHANGED <<local, cur, intr, alone>>

CommitClaim(p) ==
    /\ pc[p] = "claim"
    /\ SaveArray(p)
    /\ Go(p, "fetch")
    /\ UNCHANGED <<local, cur, intr, alone, fate>>

(* The request, the answer, and the write of the data. *)
Fetch(p) ==
    /\ pc[p] = "fetch"
    /\ local' = [local EXCEPT ![cur[p]] = cur[p]]
    /\ Go(p, "update")
    /\ UNCHANGED <<file, mem, cur, intr, alone, fate>>

FetchFails(p) ==
    /\ pc[p] = "fetch"
    /\ Go(p, "fail")
    /\ UNCHANGED <<file, local, mem, cur, intr, alone, fate>>

UpdateLoadEarly(p) ==
    /\ pc[p] \in {"fetch", "update"}
    /\ Load(p, [file EXCEPT !.info = SetChunk(@, cur[p], "OK", MD5(cur[p]))])
    /\ Go(p, "commit")
    /\ UNCHANGED <<local, cur, intr, alone, fate>>

UpdateLoad(p) ==
    /\ \/ /\ pc[p] = "update"
          /\ Load(p, [file EXCEPT !.info =
                        SetChunk(@, cur[p], "OK", MD5(cur[p]))])
          /\ Go(p, "commit")
       \/ /\ pc[p] = "fail"
          /\ Load(p, [file EXCEPT !.info =
                        SetChunk(@, cur[p], "ERROR", JunkDigest)])
          /\ Go(p, "commitErr")
    /\ UNCHANGED <<local, cur, intr, alone, fate>>

CommitUpdateRetries(p) ==
    /\ pc[p] \in {"commit", "commitErr"}
    /\ SaveArray(p)
    /\ IF intr[p] THEN Leave(p, "stopped") ELSE Go(p, "top") /\ UNCHANGED fate
    /\ UNCHANGED <<local, cur, intr, alone>>

CommitUpdate(p) ==
    /\ pc[p] \in {"commit", "commitErr"}
    /\ SaveArray(p)
    /\ \/ pc[p] = "commitErr" /\ Leave(p, "failed")
       \/ pc[p] = "commit" /\ intr[p] /\ Leave(p, "stopped")
       \/ pc[p] = "commit" /\ ~intr[p] /\ Go(p, "top") /\ UNCHANGED fate
    /\ UNCHANGED <<local, cur, intr, alone>>

FinishLoad(p) ==
    /\ pc[p] = "fload"
    /\ Load(p, [file EXCEPT !.inUse = 0])
    /\ Go(p, "fsave")
    /\ UNCHANGED <<local, cur, intr, alone, fate>>

FinishSave(p) ==
    /\ pc[p] = "fsave"
    /\ Save(p)
    /\ Go(p, "end")
    /\ UNCHANGED <<local, cur, intr, alone, fate>>

(* KillClient: wait for the worker, load, reset, save. *)
Sigint(p) ==
    /\ p \in Signalled /\ pc[p] \in MainPC \cup WorkerPC
    /\ ~intr[p] /\ ~alone[p]
    /\ intr' = [intr EXCEPT ![p] = TRUE]
    /\ Go(p, IF pc[p] \in MainPC THEN "hload" ELSE pc[p])
    /\ UNCHANGED <<file, local, mem, cur, alone, fate>>

HandlerLoad(p) ==
    /\ pc[p] = "hload"
    /\ Load(p, ResetDownloadingChunks(file))
    /\ Go(p, "hsave")
    /\ UNCHANGED <<local, cur, intr, alone, fate>>

HandlerSave(p) ==
    /\ pc[p] = "hsave"
    /\ Save(p)
    /\ Go(p, "interrupted")
    /\ UNCHANGED <<local, cur, intr, alone, fate>>

(* kill -9 of main: kill_proc_ keeps its value, and the worker goes on. *)
MainKilled(p) ==
    /\ p \in Signalled /\ pc[p] \in WorkerPC
    /\ ~alone[p]
    /\ alone' = [alone EXCEPT ![p] = TRUE]
    /\ UNCHANGED <<file, local, pc, mem, cur, intr, fate>>

(* kill -9 of a client, with its worker. *)
Killed(p) ==
    /\ p \in Signalled /\ pc[p] \in Running
    /\ Go(p, "killed")
    /\ Drop(p)
    /\ UNCHANGED <<file, local, cur, intr, alone, fate>>
-----------------------------------------------------------------------------
(***************************************************************************)
(* mhstatus --recover, --reset (without or with --force) and --check.      *)
(***************************************************************************)
ToolLoad(p) ==
    /\ pc[p] = "off" /\ p \in Tool
    /\ \/ \E force \in BOOLEAN :
            /\ file.inUse = 0 \/ force
            /\ \/ Load(p, ResetDownloadingChunks(file))
               \/ Load(p, ResetAllChunks(file))
            /\ Go(p, "save")
       \/ /\ file.inUse = 0
          /\ Load(p, CheckDataChunks(file, local))
          /\ Go(p, "save")
       \/ /\ file.inUse # 0
          /\ Go(p, "refused")
          /\ UNCHANGED <<file, mem>>
    /\ UNCHANGED <<local, cur, intr, alone, fate>>

ToolSave(p) ==
    /\ pc[p] = "save"
    /\ Save(p)
    /\ Go(p, "end")
    /\ UNCHANGED <<local, cur, intr, alone, fate>>
-----------------------------------------------------------------------------
ClientStep(p) ==
    \/ BeginSave(p) \/ Claim(p) \/ NothingLeft(p) \/ CommitClaim(p)
    \/ Fetch(p) \/ FetchFails(p) \/ UpdateLoad(p) \/ CommitUpdate(p)
    \/ FinishLoad(p) \/ FinishSave(p) \/ HandlerLoad(p) \/ HandlerSave(p)

Next ==
    \/ \E p \in Client : \/ BeginLoad(p) \/ ClientStep(p)
                       \/ Sigint(p) \/ MainKilled(p) \/ Killed(p)
    \/ \E p \in Tool : ToolLoad(p) \/ ToolSave(p)

Spec == Init /\ [][Next]_vars

(* A client that runs takes its steps; its server answers or is gone. *)
FairSpec == Spec /\ \A p \in Client : WF_vars(ClientStep(p))
-----------------------------------------------------------------------------
(* Properties *)

(***************************************************************************)
(* Even with no common lock, a chunk recorded as OK is in the local file:  *)
(* an old array may take OK back, and never gives it too early.            *)
(***************************************************************************)
OkMeansData ==
    \A c \in Chunk :
        file.info[c].status = "OK" =>
            local[c] = c /\ file.info[c].md5sum = MD5(c)

(***************************************************************************)
(* A chunk marked DOWNLOAD, which every client skips, is stored already    *)
(* (an old array has brought the mark back), or a client has it, or had    *)
(* it when it was killed or its connection broke.                          *)
(***************************************************************************)
HadIt(p) == pc[p] \in Working \cup {"killed"} \/ fate[p] = "failed"

MarkedIsAccounted ==
    \A c \in Chunk :
        file.info[c].status = "DOWNLOAD" =>
            local[c] = c \/ \E p \in Client : cur[p] = c /\ HadIt(p)

(***************************************************************************)
(* When every client has ended, none by failure, and one of them found     *)
(* nothing left to claim, the file is whole: whatever they overwrote of    *)
(* each other's metadata, and whatever mhstatus did meanwhile.             *)
(***************************************************************************)
SharedIsWhole ==
    /\ \A p \in Client : pc[p] \in Over /\ pc[p] # "killed" /\ fate[p] # "failed"
    /\ \E p \in Client : fate[p] = "drained"
    => \A c \in Chunk : local[c] = c

(***************************************************************************)
(* No client keeps another busy for ever by undoing what it has recorded.  *)
(***************************************************************************)
EveryClientEnds ==
    \A p \in Client : pc[p] \in Running ~> pc[p] \in Over
-----------------------------------------------------------------------------
(* The inductive invariant of the proofs, by its parts. *)

(* What a program may be doing, by its kind, and with which chunk. *)
ClientPC == {"off"} \cup Running \cup Over
ToolPC == {"off", "save", "refused", "end"}

PlaceInv ==
    /\ \A p \in Client : pc[p] \in ClientPC
    /\ \A p \in Tool : pc[p] \in ToolPC
    /\ \A p \in Client : pc[p] \in Working \cup {"claim"} => cur[p] \in Chunk
    /\ \A p \in Client : pc[p] \in WorkerPC \cup {"off", "begin"} => fate[p] = "none"

(* Every copy of the array, old or new, is truthful about OK. *)
Truthful(info, data) ==
    \A c \in Chunk :
        info[c].status = "OK" => data[c] = c /\ info[c].md5sum = MD5(c)

OkInv ==
    /\ Truthful(file.info, local)
    /\ \A p \in Program : Truthful(mem[p].info, local)
    /\ \A p \in Client : pc[p] \in {"update", "commit"} => local[cur[p]] = cur[p]

(* Every mark is of a chunk that somebody has, has stored, or has lost. *)
Accounted(c) == local[c] = c \/ \E p \in Client : cur[p] = c /\ HadIt(p)

MarkInv ==
    \A c \in Chunk :
        /\ file.info[c].status # "UPLOAD"
        /\ file.info[c].status = "DOWNLOAD" => Accounted(c)
        /\ \A p \in Program :
             /\ mem[p].info[c].status # "UPLOAD"
             /\ mem[p].info[c].status = "DOWNLOAD" =>
                  Accounted(c) \/ (p \in Client /\ pc[p] = "claim" /\ cur[p] = c)

(* A client that found nothing left to claim was right. *)
DrainInv ==
    (\E p \in Client : fate[p] = "drained") => \A c \in Chunk : Accounted(c)

(* What the safety of the clients rests on. *)
SharingInv == TypeOK /\ PlaceInv /\ OkInv /\ MarkInv /\ DrainInv
=============================================================================
