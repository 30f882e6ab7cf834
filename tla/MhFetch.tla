------------------------------ MODULE MhFetch ------------------------------
(***************************************************************************)
(* The beginning of mhclient download: if there is no metadata file, ask   *)
(* the first server for its header, create the file and save it; then load *)
(* the file and hand over to the transfer (MhDownload).  The server looks  *)
(* the file up, answers, and computes the MD5 of the whole file before it  *)
(* sends the header.  The client may be interrupted or killed between any  *)
(* two of its writes, and run again on what that leaves.                   *)
(***************************************************************************)
EXTENDS Integers, Sequences

CONSTANTS
  Faults,      \* whether connections break and clients are stopped
  MaxRuns      \* bound: runs of mhclient download

ASSUME FetchAssumption == Faults \in BOOLEAN /\ MaxRuns \in Nat \ {0}

VARIABLES
  remote,     \* the server has the file
  disk,       \* the metadata file: what is written of it, and whose header
  pc,         \* where the client is
  hdr,        \* the header in the client's memory
  info,       \* the status of every chunk, as loaded for the transfer
  link,       \* the connection to the first host
  toServer,   \* command, chunk size and path are on their way
  toClient,   \* what the server has sent and the client not read
  srv,        \* the server's child: "cmd" in RcvCmd, "md5" in create, "gone"
  run,        \* counts the runs of mhclient
  broke,      \* history: a connection broke under a client that fetched
  stopped     \* history: a client was stopped

vars == <<remote, disk, pc, hdr, info, link, toServer, toClient, srv, run,
          broke, stopped>>

(***************************************************************************)
(* SaveMetadata writes the fields one by one.  "sig": the signature, and   *)
(* not yet the number of chunks; "header": the number, and not yet the     *)
(* array of chunks.  "zeros": a handler has completed such a file (see     *)
(* InterruptedLoad).                                                       *)
(***************************************************************************)
Written == <<"empty", "sig", "header", "full">>
WrittenState == {Written[n] : n \in 1 .. 4} \cup {"absent", "zeros"}

Fetching == {"look", "ask", "answer", "touch", "header", "save"}
Stopped == {"notfound", "invalid", "died"}

(* What can be on the connection: SendMetadataToClient's answer, the header. *)
OkAnswer == <<"MH_OK">>
NoAnswer == <<"MH_FILE_NOT_FOUND">>
HeaderOnly == <<"header">>
OkAndHeader == <<"MH_OK", "header">>
Answers == {<<>>, OkAnswer, NoAnswer, HeaderOnly, OkAndHeader}

TypeOK ==
    /\ remote \in BOOLEAN
    /\ disk \in [written : WrittenState, of : {"server", "junk"}]
    /\ pc \in Fetching \cup {"load", "transfer"} \cup Stopped
    /\ hdr \in {"server", "junk"}
    /\ info \in {"none", "PENDING", "OK"}
    /\ link \in {"up", "broken"}
    /\ toServer \in BOOLEAN
    /\ toClient \in Answers
    /\ srv \in {"cmd", "md5", "gone"}
    /\ run \in 1 .. MaxRuns
    /\ broke \in BOOLEAN /\ stopped \in BOOLEAN

NoFile == [written |-> "absent", of |-> "junk"]

Init ==
    /\ remote \in BOOLEAN
    /\ disk = NoFile
    /\ pc = "look" /\ hdr = "junk" /\ info = "none"
    /\ link = "up" /\ toServer = FALSE /\ toClient = <<>> /\ srv = "cmd"
    /\ run = 1 /\ broke = FALSE /\ stopped = FALSE

server == <<link, toServer, toClient, srv>>
world == <<remote, run, broke, stopped>>
-----------------------------------------------------------------------------
(* The client: DownloadFile, DownloadMetadataFromServer, LoadMetadata. *)

(* file_exists(meta_name): an existing file is used, whatever it holds. *)
Look ==
    /\ pc = "look"
    /\ pc' = IF disk.written = "absent" THEN "ask" ELSE "load"
    /\ UNCHANGED <<world, server, disk, hdr, info>>

(* DOWNLOAD_METADATA, the chunk size, the path: SIGPIPE if it breaks. *)
AskForMetadata ==
    /\ pc = "ask"
    /\ \/ pc' = "answer" /\ toServer' = (link = "up")
       \/ link = "broken" /\ pc' = "died" /\ UNCHANGED toServer
    /\ UNCHANGED <<world, link, toClient, srv, disk, hdr, info>>

(***************************************************************************)
(* so_read(&response).  If nothing comes, response is what the stack held. *)
(* MH_FILE_NOT_FOUND ends the program.                                     *)
(***************************************************************************)
ReadAnswerNoTest ==
    /\ pc = "answer"
    /\ toClient # <<>>
    /\ toClient' = Tail(toClient)
    /\ pc' = "touch"
    /\ UNCHANGED <<world, link, toServer, srv, disk, hdr, info>>

ReadAnswer ==
    /\ pc = "answer"
    /\ \/ /\ toClient # <<>>
          /\ pc' = IF Head(toClient) = "MH_FILE_NOT_FOUND" THEN "notfound"
                                                           ELSE "touch"
          /\ toClient' = Tail(toClient)
       \/ /\ toClient = <<>>
          /\ link = "broken"
          /\ pc' \in {"notfound", "touch"}
          /\ UNCHANGED toClient
    /\ UNCHANGED <<world, link, toServer, srv, disk, hdr, info>>

(* SaveMetadata only updates: create an empty file first. *)
Touch ==
    /\ pc = "touch"
    /\ disk' = [NoFile EXCEPT !.written = "empty"]
    /\ pc' = "header"
    /\ UNCHANGED <<world, server, hdr, info>>

(***************************************************************************)
(* ReadMetadataHeader ignores what its so_read return: after a broken      *)
(* connection the fields are junk, and initControlData may not survive it. *)
(***************************************************************************)
ReadHeaderAtOnce ==
    /\ pc = "header"
    /\ hdr' = IF toClient # <<>> THEN "server" ELSE "junk"
    /\ toClient' = <<>>
    /\ pc' = "save"
    /\ UNCHANGED <<world, link, toServer, srv, disk, info>>

ReadHeader ==
    /\ pc = "header"
    /\ \/ /\ toClient # <<>>
          /\ hdr' = "server"
          /\ toClient' = Tail(toClient)
          /\ pc' = "save"
       \/ /\ toClient = <<>>
          /\ link = "broken"
          /\ hdr' = "junk"
          /\ pc' \in {"save", "died"}
          /\ UNCHANGED toClient
    /\ UNCHANGED <<world, link, toServer, srv, disk, info>>

(* SaveMetadata, write by write. *)
SaveNext ==
    /\ pc = "save"
    /\ \E n \in 1 .. 3 :
         /\ disk.written = Written[n]
         /\ disk' = [written |-> Written[n + 1], of |-> hdr]
         /\ pc' = IF n = 3 THEN "load" ELSE "save"
    /\ UNCHANGED <<world, server, hdr, info>>

(***************************************************************************)
(* LoadMetadata refuses a file without the signature; it sets chunks_ to   *)
(* -1 and the array to zeros before it reads them, and ignores what its    *)
(* read return.  Without a number of chunks it crashes; without the array  *)
(* every status is 0, which is CH_OK.  A junk number of chunks may or may  *)
(* not crash it.                                                           *)
(***************************************************************************)
LoadStatus == IF disk.written = "full" THEN "PENDING" ELSE "OK"

Load ==
    /\ pc = "load"
    /\ \/ disk.written = "empty" /\ pc' = "invalid" /\ UNCHANGED info
       \/ /\ disk.written = "sig" \/ disk.of = "junk"
          /\ disk.written # "empty"
          /\ pc' = "died"
          /\ UNCHANGED info
       \/ /\ disk.written \in {"header", "zeros", "full"}
          /\ info' = LoadStatus
          /\ pc' = "transfer"
    /\ UNCHANGED <<world, server, disk, hdr>>
-----------------------------------------------------------------------------
(* The server's child, RcvCmd and SendMetadataToClient. *)

SrvAnswerNoReturn ==
    /\ srv = "cmd" /\ link = "up" /\ toServer
    /\ toServer' = FALSE
    /\ toClient' = Append(toClient, IF remote THEN "MH_OK"
                                              ELSE "MH_FILE_NOT_FOUND")
    /\ srv' = "md5"
    /\ UNCHANGED <<world, link, disk, pc, hdr, info>>

SrvAnswer ==
    /\ srv = "cmd" /\ link = "up" /\ toServer
    /\ toServer' = FALSE
    /\ toClient' = Append(toClient, IF remote THEN "MH_OK"
                                              ELSE "MH_FILE_NOT_FOUND")
    /\ srv' = IF remote THEN "md5" ELSE "cmd"
    /\ UNCHANGED <<world, link, disk, pc, hdr, info>>

(* create(..., save = false), then WriteMetadataHeader. *)
SrvSendHeader ==
    /\ srv = "md5" /\ link = "up"
    /\ toClient' = Append(toClient, "header")
    /\ srv' = "cmd"
    /\ UNCHANGED <<world, link, toServer, disk, pc, hdr, info>>

(***************************************************************************)
(* The connection breaks, or the child ends (the file is gone when create  *)
(* opens it): the client gets a part of what was sent, then nothing.       *)
(***************************************************************************)
LinkFail ==
    /\ Faults
    /\ pc \in Fetching
    /\ link = "up"
    /\ link' = "broken"
    /\ srv' = "gone"
    /\ toServer' = FALSE
    /\ \E n \in 0 .. Len(toClient) : toClient' = SubSeq(toClient, 1, n)
    /\ broke' = TRUE
    /\ UNCHANGED <<remote, run, stopped, disk, pc, hdr, info>>

(***************************************************************************)
(* SIGKILL, power, or a SIGINT that changes nothing on disk: before "load" *)
(* it finds mhProto NULL or meta_file_ not yet set, at "load" the handler  *)
(* of InterruptedLoad exits on an empty file, crashes on one without a     *)
(* number of chunks, and writes a full one back as it was.                 *)
(***************************************************************************)
ClientStopped ==
    /\ Faults
    /\ pc \in Fetching \cup {"load"}
    /\ pc' = "died"
    /\ stopped' = TRUE
    /\ UNCHANGED <<remote, run, broke, server, disk, hdr, info>>

(***************************************************************************)
(* SIGINT once meta_file_ is set, no worker forked: the handler has        *)
(* resetDownloadingChunks load the file and save it.  Of a file without an *)
(* array it makes a complete one, whose chunks are all 0.                  *)
(***************************************************************************)
InterruptedLoad ==
    /\ Faults
    /\ pc = "load"
    /\ disk.written = "header"
    /\ disk' = [disk EXCEPT !.written = "zeros"]
    /\ pc' = "died"
    /\ stopped' = TRUE
    /\ UNCHANGED <<remote, run, broke, server, hdr, info>>

(* The user runs the same command again, or erases the metadata first. *)
Rerun ==
    /\ pc \in Stopped
    /\ run < MaxRuns
    /\ run' = run + 1
    /\ disk' \in {disk, NoFile}
    /\ pc' = "look" /\ hdr' = "junk" /\ info' = "none"
    /\ link' = "up" /\ toServer' = FALSE /\ toClient' = <<>> /\ srv' = "cmd"
    /\ UNCHANGED <<remote, broke, stopped>>

ClientStep ==
    \/ Look \/ AskForMetadata \/ ReadAnswer \/ Touch \/ ReadHeader
    \/ SaveNext \/ Load

ServerStep == SrvAnswer \/ SrvSendHeader

Next ==
    \/ ClientStep \/ ServerStep
    \/ LinkFail \/ ClientStopped \/ InterruptedLoad \/ Rerun

Spec == Init /\ [][Next]_vars

(* The client and the server's child run when they can. *)
FairSpec == Spec /\ WF_vars(ClientStep) /\ WF_vars(ServerStep)
-----------------------------------------------------------------------------
(* Properties *)

(***************************************************************************)
(* Only a connection that breaks can leave a metadata file for a file the  *)
(* server does not have: its answer comes before the client creates one.   *)
(***************************************************************************)
NotFoundLeavesNothing == ~remote /\ ~broke => disk = NoFile

(***************************************************************************)
(* A transfer starts from the server's header, unless a connection broke   *)
(* while it was fetched; and with every chunk PENDING, unless a client was *)
(* stopped in between two writes.                                          *)
(***************************************************************************)
TransferStartsRight ==
    pc = "transfer" =>
    /\ broke \/ disk.of = "server"
    /\ stopped \/ info = "PENDING"

(***************************************************************************)
(* The inductive invariant behind both: what is on the connection is what  *)
(* the client waits for, and what is on disk is as far as the client got.  *)
(***************************************************************************)
WireInv ==
    /\ srv = "gone" <=> link = "broken"
    /\ link = "broken" => broke
    /\ toServer => /\ pc \in {"answer", "died"}
                   /\ toClient = <<>> /\ srv = "cmd"
    /\ srv = "md5" => /\ pc \in {"answer", "touch", "header", "died"}
                      /\ pc = "answer" => toClient = OkAnswer
                      /\ toClient \in {<<>>, OkAnswer}
    /\ pc \in {"look", "ask", "save"} => toClient = <<>>
    /\ pc \in {"touch", "header"} => toClient \in {<<>>, HeaderOnly}
    /\ pc = "answer" => toClient # HeaderOnly

(* The server says MH_OK for a file that it has, and for no other. *)
AnswerInv ==
    /\ toClient \in {OkAnswer, OkAndHeader} => remote
    /\ pc \in {"touch", "header", "save", "load", "transfer"} => remote \/ broke

DiskInv ==
    /\ disk.of = "junk" => broke \/ disk.written \in {"absent", "empty"}
    /\ pc = "save" /\ hdr = "junk" => broke
    /\ disk.written \in {"sig", "header", "zeros"} => stopped \/ pc = "save"

FetchInv ==
    /\ TypeOK /\ WireInv /\ AnswerInv /\ DiskInv
    /\ NotFoundLeavesNothing /\ TransferStartsRight

(***************************************************************************)
(* The client waits for the server three times with no timeout, and the    *)
(* program ends or the transfer starts all the same, for either of them    *)
(* answers or the connection breaks.  With no fault and a file to fetch it *)
(* is the transfer that starts.                                            *)
(***************************************************************************)
FetchEnds ==
    /\ pc \in Fetching ~> pc \in Stopped \cup {"transfer"}
    /\ <>(pc = "transfer" \/ ~remote \/ broke \/ stopped)

(***************************************************************************)
(* README.md:69, O is for "Ok or successfully downloaded": even when no    *)
(* connection broke, no transfer starts with a chunk OK when nothing has   *)
(* been downloaded yet.                                                    *)
(***************************************************************************)
NothingOkYet == pc = "transfer" /\ ~broke => info # "OK"
=============================================================================
