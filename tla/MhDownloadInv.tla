--------------------------- MODULE MhDownloadInv ---------------------------
(***************************************************************************)
(* The inductive invariant of MhDownload, as a conjunction of named parts. *)
(* MhDownloadProofs and MhLedgerProofs prove it; TLC evaluates it.  Each   *)
(* part says why the next one is kept.                                     *)
(***************************************************************************)
EXTENDS MhDownload

(***************************************************************************)
(* The chunk numbers fit RequestChunk's buffer.  Without this the server   *)
(* answers for another chunk (the run request_truncated).                  *)
(***************************************************************************)
ChunksFitWire == Chunks <= WireLimit

(* The worker in a critical section is the one that took the semaphore. *)
LockInv ==
    \A w \in Link :
        wpc[w] \in Critical =>
            /\ sem = 0
            /\ \A v \in Link : wpc[v] \in Critical => v = w

(* A request and its answer are about the chunk the worker waits for. *)
Answer(c) == [md5sum |-> MD5(c), data |-> c]

LinkInv ==
    \A w \in Link :
        /\ wpc[w] \in Working \cup {"claim"} => cur[w] \in Chunk
        /\ req[w] # NoRequest =>
              wpc[w] \in {"recv", "killed"} /\ req[w] = cur[w]
        /\ rsp[w] # NoResponse =>
              wpc[w] \in {"recv", "killed"} /\ rsp[w] = Answer(cur[w])
        /\ req[w] # NoRequest => rsp[w] = NoResponse
        /\ conn[w] = "broken" => req[w] = NoRequest
        /\ wpc[w] \in {"store", "ok"} => rcv[w] = Answer(cur[w])

(* Main writes the metadata only when no worker is alive. *)
PhaseInv ==
    (~Doomed /\ main \notin {"fork", "wait", "hwait"}) =>
        \A w \in Link : ~Alive(w)

(* The chunk a worker works on is marked, so that nobody else claims it. *)
ClaimInv ==
    ~Doomed =>
        \A w \in Link : wpc[w] \in Working =>
            file.info[cur[w]].status = "DOWNLOAD"

(* The copy a worker is about to write differs from the file in one chunk. *)
ImageInv ==
    ~Doomed =>
        \A w \in Link : wpc[w] \in Critical =>
            /\ \A c \in Chunk : c # cur[w] => wmem[w][c] = file.info[c]
            /\ wpc[w] = "claim" => wmem[w][cur[w]].status = "DOWNLOAD"
            /\ wpc[w] = "commitOk" => wmem[w][cur[w]].status = "OK"
            /\ wpc[w] = "commitErr" => wmem[w][cur[w]].status = "ERROR"

(* Every copy of the metadata, old or new, tells the truth about OK. *)
Truthful(info) ==
    \A c \in Chunk :
        info[c].status = "OK" => local[c] = c /\ info[c].md5sum = MD5(c)

OkInv ==
    /\ Truthful(file.info)
    /\ Truthful(mmem.info)
    /\ \A w \in Link : Truthful(wmem[w])
    /\ \A w \in Link : wpc[w] = "ok" => local[cur[w]] = cur[w]

(* A download never writes the status UPLOAD. *)
NoUpload(info) == \A c \in Chunk : info[c].status # "UPLOAD"

StatusInv ==
    /\ NoUpload(file.info)
    /\ NoUpload(mmem.info)
    /\ \A w \in Link : NoUpload(wmem[w])

(* A worker about to write its claim found the chunk claimable, and it is. *)
FreshInv ==
    ~Doomed =>
        \A w \in Link :
            wpc[w] = "claim" => cur[w] \in Claimable(file.info)

(* Nothing is written between the handler's load and its save. *)
HandlerInv ==
    (~Doomed /\ main = "hsave") => mmem = ResetDownloadingChunks(file)

(* What the interrupted main process is about to write. *)
CopyInv ==
    main = "hsave" =>
        /\ mmem.inUse = 0
        /\ \A c \in Chunk : mmem.info[c].status \in {"OK", "PENDING"}

(* The handler runs when a SIGINT has come, and main never leaves it. *)
SignalInv ==
    /\ main \in Handler \cup {"interrupted"} => killProc # 0
    /\ main \in {"begin", "fork", "wait", "check", "end"} => killProc = 0

IInv ==
    /\ TypeOK
    /\ LockInv
    /\ LinkInv
    /\ PhaseInv
    /\ ClaimInv
    /\ ImageInv
    /\ ExclusiveClaim
    /\ OkInv
    /\ StatusInv
    /\ FreshInv
    /\ HandlerInv
    /\ CopyInv
    /\ SignalInv
    /\ DownloadHasOwner
    /\ NothingForgotten
    /\ InterruptIsClean
=============================================================================
