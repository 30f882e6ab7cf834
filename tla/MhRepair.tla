------------------------------ MODULE MhRepair ------------------------------
(***************************************************************************)
(* A download on a disk that fails, and its repair.  mhclient ignores what *)
(* write() returns, so that a full disk goes unnoticed, and never calls    *)
(* fsync(): after a power failure each page of the metadata file and of    *)
(* the data file is as old as the kernel left it.  README.md:73-75 gives   *)
(* the way out: mhstatus --recover, then --check, then mhclient again.     *)
(***************************************************************************)
EXTENDS MhDownloadInv

CONSTANTS
  MaxOutages,   \* bound: power failures
  WritesFail    \* whether the disk may refuse the data of a chunk

ASSUME RepairAssumption == MaxOutages \in Nat /\ WritesFail \in BOOLEAN

VARIABLES
  pastInfo,   \* the values each entry of the array has had since the boot
  pastUse,    \* those of in_use_
  pastData,   \* those of each chunk of the data file
  outages,    \* counts the power failures
  recovered,  \* history: --recover or --reset, and no mhclient since
  checked,    \* history: a --check that saved, and no disk failure since
  ready       \* history: both so when mhclient began, no failure since

past == <<pastInfo, pastUse, pastData>>
repair == <<recovered, checked, ready>>
repairVars == <<vars, past, outages, repair>>

RepairTypeOK ==
    /\ TypeOK
    /\ \A c \in Chunk : pastInfo[c] \subseteq ChunkInfo
    /\ pastUse \subseteq InUse
    /\ \A c \in Chunk : pastData[c] \subseteq Data
    /\ outages \in 0 .. MaxOutages
    /\ {recovered, checked, ready} \subseteq BOOLEAN

RepairInit ==
    /\ Init
    /\ pastInfo = [c \in Chunk |-> {file.info[c]}]
    /\ pastUse = {file.inUse}
    /\ pastData = [c \in Chunk |-> {local[c]}]
    /\ outages = 0
    /\ recovered = FALSE /\ checked = FALSE /\ ready = FALSE

Remember ==
    /\ pastInfo' = [c \in Chunk |-> pastInfo[c] \cup {file'.info[c]}]
    /\ pastUse' = pastUse \cup {file'.inUse}
    /\ pastData' = [c \in Chunk |-> pastData[c] \cup {local'[c]}]
    /\ UNCHANGED outages

(* A session of mhclient, as in MhDownload. *)
SessionStep ==
    /\ ~SessionOver
    /\ Next
    /\ Remember
    /\ UNCHANGED repair

(* The write of StoreChunk is refused, or stops halfway. *)
StoreRefused(w) ==
    /\ WritesFail
    /\ wpc[w] = "store"
    /\ wpc' = [wpc EXCEPT ![w] = "ok"]
    /\ local' \in {local, [local EXCEPT ![cur[w]] = Hole]}
    /\ checked' = FALSE /\ ready' = FALSE
    /\ UNCHANGED <<linkVars, file, sem, killProc, main, mmem, mon, wmem, cur,
                   rcv, session, stale, recovered>>
    /\ Remember

(* One of the values of each chunk. *)
OneEach(values) ==
    {f \in [Chunk -> UNION {values[c] : c \in Chunk}] :
        \A c \in Chunk : f[c] \in values[c]}

(* The page cache is lost; every page has some value it has had. *)
PowerFailure ==
    /\ outages < MaxOutages
    /\ outages' = outages + 1
    /\ \E info \in OneEach(pastInfo), use \in pastUse :
         file' = [inUse |-> use, info |-> info]
    /\ local' \in OneEach(pastData)
    /\ pastInfo' = [c \in Chunk |-> {file'.info[c]}]
    /\ pastUse' = {file'.inUse}
    /\ pastData' = [c \in Chunk |-> {local'[c]}]
    /\ conn' = [l \in Link |-> "closed"]
    /\ main' = "crashed" /\ mmem' = NoCopy /\ mon' = MonitorOff
    /\ wpc' = [w \in Link |-> IF Alive(w) THEN "killed" ELSE wpc[w]]
    /\ wmem' = [w \in Link |-> InitControlData]
    /\ sem' = 1
    /\ recovered' = FALSE /\ checked' = FALSE /\ ready' = FALSE
    /\ UNCHANGED <<cmd, req, rsp, srv, killProc, cur, rcv, session, stale>>

RunAgain ==
    /\ Rerun
    /\ ready' = (recovered /\ checked)
    /\ recovered' = FALSE
    /\ Remember
    /\ UNCHANGED checked

Recovers(force) ==
    /\ StatusRecover(force) \/ StatusReset(force)
    /\ recovered' = TRUE
    /\ Remember
    /\ UNCHANGED <<checked, ready>>

(* --check saves what it finds only when in_use_ is 0. *)
Checks ==
    /\ StatusCheck
    /\ checked' = (checked \/ file.inUse = 0)
    /\ Remember
    /\ UNCHANGED <<recovered, ready>>

RepairNext ==
    \/ SessionStep \/ PowerFailure \/ RunAgain \/ Checks
    \/ \E w \in Link : StoreRefused(w)
    \/ \E force \in BOOLEAN : Recovers(force)

RepairSpec == RepairInit /\ [][RepairNext]_repairVars
-----------------------------------------------------------------------------
(***************************************************************************)
(* From a --check that was accepted until the disk fails again, whatever   *)
(* the power failure has left and whatever mhclient does: a chunk recorded *)
(* as OK is in the local file.                                             *)
(***************************************************************************)
CheckedMeansData == checked => OkMeansData

(***************************************************************************)
(* mhclient run after --recover and such a --check, if all its workers     *)
(* find the work done, has the whole file.                                 *)
(***************************************************************************)
RepairedIsWhole ==
    (ready /\ main = "end" /\ \A w \in Link : wpc[w] = "drained") =>
        \A c \in Chunk : local[c] = c
-----------------------------------------------------------------------------
(***************************************************************************)
(* The inductive invariant.  OK is only ever written with the digest of    *)
(* the chunk, so that this much survives any mixture of old pages: it is   *)
(* why an accepted --check can be trusted.                                 *)
(***************************************************************************)
Honest(entry, c) ==
    /\ entry.status = "OK" => entry.md5sum = MD5(c)
    /\ entry.status # "UPLOAD"

EntryInv ==
    \A c \in Chunk :
        /\ Honest(file.info[c], c)
        /\ Honest(mmem.info[c], c)
        /\ \A w \in Link : Honest(wmem[w][c], c)
        /\ \A entry \in pastInfo[c] : Honest(entry, c)

(* Copies of the metadata are held from a load to the save only. *)
IdleInv ==
    /\ main \notin Handler => mmem = NoCopy
    /\ \A w \in Link : wpc[w] \notin Critical => wmem[w] = InitControlData

(* After --recover, and until mhclient runs, no chunk is marked. *)
RecoveredInv ==
    recovered =>
        /\ SessionOver
        /\ \A c \in Chunk : file.info[c].status # "DOWNLOAD"

(* What a run that began repaired keeps: its marks are its own. *)
ReadyInv == ready => checked /\ stale = {} /\ DownloadHasOwner

RepairInv ==
    /\ RepairTypeOK /\ LockInv /\ LinkInv
    /\ PhaseInv /\ ClaimInv /\ ImageInv /\ ExclusiveClaim
    /\ EntryInv /\ IdleInv
    /\ checked => OkInv
    /\ SignalInv /\ CopyInv /\ NothingForgotten
    /\ RecoveredInv /\ ReadyInv
    /\ RepairedIsWhole
=============================================================================
