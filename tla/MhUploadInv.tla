---------------------------- MODULE MhUploadInv ----------------------------
(***************************************************************************)
(* The inductive invariant of MhUpload, as a conjunction of named parts.   *)
(* MhUploadProofs proves it; TLC evaluates it.                             *)
(***************************************************************************)
EXTENDS MhUpload

(* mhclient is given the chunk size of the metadata in every run (-c). *)
ChunkSizeKept == Scales \subseteq {1}

(* mhclient is given a host: with none, no chunk is transferred. *)
SomeHost == Link # {}

(* The worker in a critical section is the one that took the semaphore. *)
LockInv ==
    \A w \in Link :
        wpc[w] \in Critical =>
            /\ sem = 0
            /\ \A v \in Link : wpc[v] \in Critical => v = w

(* The connection whose turn it is has no worker yet. *)
TurnInv ==
    /\ main \in Forking \ {"fork"} => next \in Link /\ wpc[next] = "none"
    /\ main \in {"open", "store"} => NoWorkerYet

(* What a worker works on is a chunk. *)
ChunkInv == \A w \in Link : wpc[w] \in Working \cup {"claim"} => cur[w] \in Chunk

(* Nothing follows a torn chunk: nobody writes to its connection any more. *)
IsTorn(m) == m.kind \in {"torn", "tornFirst"}

QueueInv ==
    /\ \A l \in Link : \A i \in 1 .. Len(chan[l]) :
          IsTorn(chan[l][i]) =>
              i = Len(chan[l]) /\ (conn[l] # "up" \/ wpc[l] = "killed")
    /\ \A m \in late : m.kind \in Chunked

(***************************************************************************)
(* Every chunk lands in its own place, and what the recorder of a chunk    *)
(* knows of it stays true of every copy of the metadata, old or new.       *)
(***************************************************************************)
AddressInv ==
    /\ scale = 1
    /\ \A m \in late : m.at = m.of
    /\ \A l \in Link : \A i \in 1 .. Len(chan[l]) : chan[l][i].at = chan[l][i].of

(* The chunks that a failure has taken from the file of the server. *)
Gone == lost \cup spoilt

Sent == {c \in Chunk : remote[c] = c} \cup InFlight \cup Gone

SentCopy(info) ==
    \A c \in Chunk : info[c] = [md5sum |-> JunkDigest, status |-> "OK"] =>
                         c \in Sent

SentInv ==
    /\ SentCopy(file.info) /\ SentCopy(snap.info)
    /\ \A w \in Link : SentCopy(wmem[w])
    /\ \A w \in Link : wpc[w] \in {"sent", "commit"} => cur[w] \in Sent

(* An upload never writes the status DOWNLOAD. *)
NoDownload(info) == \A c \in Chunk : info[c].status # "DOWNLOAD"

StatusInv ==
    /\ NoDownload(file.info) /\ NoDownload(snap.info)
    /\ \A w \in Link : NoDownload(wmem[w])

(***************************************************************************)
(* The marks in a worker's copy are those of the others and its own claim; *)
(* those in main's copy are older than the session.                        *)
(***************************************************************************)
Owning(w) == wpc[w] \in Working \cup {"killed"}

MarksInv ==
    /\ \A c \in Chunk : snap.info[c].status = "UPLOAD" => c \in stale
    /\ \A w \in Link : wpc[w] \in Critical =>
          \A c \in Chunk : wmem[w][c].status = "UPLOAD" =>
              \/ c \in stale
              \/ c = cur[w] /\ wpc[w] = "claim"
              \/ \E v \in Link \ {w} : Owning(v) /\ cur[v] = c

(***************************************************************************)
(* Nobody claims what was recorded or marked when main loaded its copy, so *)
(* that copy, written back at any time, takes no OK away from those chunks.*)
(***************************************************************************)
Opened == main \in {"init", "save", "spawn"} \/ (main = "fork" /\ ~NoWorkerYet)

Settled(info) ==
    \A c \in Chunk :
        c \notin Claimable(snap.info) => info[c].status = snap.info[c].status

SnapInv ==
    Opened =>
    /\ Settled(file.info)
    /\ \A w \in Link : wpc[w] \in Critical => Settled(wmem[w])
    /\ \A w \in Link : wpc[w] \in Working \cup {"claim"} =>
                           cur[w] \in Claimable(snap.info)

(* The copy a worker is about to write has every OK that the file has. *)
ImageInv ==
    \A w \in Link : wpc[w] \in Critical =>
        /\ \A c \in Chunk : file.info[c].status = "OK" => wmem[w][c].status = "OK"
        /\ wpc[w] = "commit" => wmem[w][cur[w]].status = "OK"

(* When no worker is left at work, nothing was left to claim. *)
DrainedInv ==
    (/\ main \in {"fork", "wait", "finish"}
     /\ ~NoWorkerYet
     /\ \A w \in Link : wpc[w] \in {"none", "drained"})
        => Claimable(file.info) = {}

UploadInv ==
    /\ TypeOK /\ LockInv /\ TurnInv /\ ChunkInv /\ QueueInv
    /\ AddressInv /\ SentInv
    /\ StatusInv /\ MarksInv /\ UploadHasOwner
    /\ SnapInv /\ ImageInv
    /\ DrainedInv /\ FinishedIsAllOk
=============================================================================
