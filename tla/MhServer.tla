------------------------------ MODULE MhServer ------------------------------
(***************************************************************************)
(* The server's child process of a connection (mhftp.cpp forks one per     *)
(* accept, protocol/mhproto_server.cpp is its loop) and the connection     *)
(* itself, for the command a download uses: DOWNLOAD_CHUNK.                *)
(*                                                                         *)
(* A connection carries at most one message each way at a time, because    *)
(* the client waits for the answer to a request before it sends another;   *)
(* the command with its metadata header comes before the first request.    *)
(***************************************************************************)
EXTENDS MhMetadata

CONSTANTS
  Link,        \* the connections, one per host named on the command line
  WireLimit,   \* chunk numbers below it fit chunkNumberStr (10^6 in the code)
  LinksFail    \* whether connections may break

ASSUME ServerAssumption ==
    /\ WireLimit \in Nat \ {0}
    /\ LinksFail \in BOOLEAN

VARIABLES
  conn,   \* "up"; "broken": reset or gone; "closed" by the exit of the client
  cmd,    \* a DOWNLOAD_CHUNK command and header are on their way
  req,    \* the chunk number on its way to the server, or NoRequest
  rsp,    \* the checksum and the data on their way back, or NoResponse
  srv     \* the child: "cmd" in RcvCmd, "serve" in SendChunkToClient, "gone"

linkVars == <<conn, cmd, req, rsp, srv>>

NoRequest == -1
NoResponse == [md5sum |-> ZeroDigest, data |-> Hole]
Response == [md5sum : Digest, data : Data]

LinkTypeOK ==
    /\ conn \in [Link -> {"up", "broken", "closed"}]
    /\ cmd \in [Link -> BOOLEAN]
    /\ req \in [Link -> Chunk \cup {NoRequest}]
    /\ rsp \in [Link -> Response]
    /\ srv \in [Link -> {"cmd", "serve", "gone"}]

LinkInit ==
    /\ conn = [l \in Link |-> "up"]
    /\ cmd = [l \in Link |-> FALSE]
    /\ req = [l \in Link |-> NoRequest]
    /\ rsp = [l \in Link |-> NoResponse]
    /\ srv = [l \in Link |-> "cmd"]
-----------------------------------------------------------------------------
(***************************************************************************)
(* RequestChunk prints the number into char[7] with snprintf, which keeps  *)
(* the leading digits that fit (six, and the terminating NUL); the server  *)
(* turns what it received back into a number with atoi.                    *)
(***************************************************************************)
leadingDigits[n \in Nat] ==
    IF n < WireLimit THEN n ELSE leadingDigits[n \div 10]

WireNumber(n) == IF n < WireLimit THEN n ELSE leadingDigits[n]
-----------------------------------------------------------------------------
(* RcvCmd: the child reads DOWNLOAD_CHUNK, then the header. *)
SrvRcvCmd(l) ==
    /\ srv[l] = "cmd"
    /\ cmd[l]
    /\ cmd' = [cmd EXCEPT ![l] = FALSE]
    /\ srv' = [srv EXCEPT ![l] = "serve"]
    /\ UNCHANGED <<conn, req, rsp>>

(***************************************************************************)
(* One turn of SendChunkToClient: read a chunk number, seek to the chunk,  *)
(* read it, compute its checksum, send checksum, size and data.            *)
(***************************************************************************)
SrvSendNext(l) ==
    /\ srv[l] = "serve"
    /\ conn[l] = "up"
    /\ req[l] # NoRequest
    /\ \E n \in Chunk :
         /\ n = req[l] + 1
         /\ rsp' = [rsp EXCEPT ![l] = [md5sum |-> MD5(n), data |-> n]]
    /\ req' = [req EXCEPT ![l] = NoRequest]
    /\ UNCHANGED <<conn, cmd, srv>>

SrvSendChunk(l) ==
    /\ srv[l] = "serve"
    /\ conn[l] = "up"
    /\ req[l] # NoRequest
    /\ rsp' = [rsp EXCEPT ![l] = [md5sum |-> MD5(req[l]), data |-> req[l]]]
    /\ req' = [req EXCEPT ![l] = NoRequest]
    /\ UNCHANGED <<conn, cmd, srv>>

(* so_read returns 0 or -1: the loop ends, and RcvCmd ends the process. *)
SrvExit(l) ==
    /\ srv[l] # "gone"
    /\ conn[l] # "up"
    /\ srv' = [srv EXCEPT ![l] = "gone"]
    /\ UNCHANGED <<conn, cmd, req, rsp>>

(***************************************************************************)
(* The connection breaks, or the child dies (it could not open the file,   *)
(* it was killed): what is on its way to the server is lost, an answer on  *)
(* its way back may or may not have arrived whole.                         *)
(***************************************************************************)
LinkFail(l) ==
    /\ LinksFail
    /\ conn[l] = "up"
    /\ conn' = [conn EXCEPT ![l] = "broken"]
    /\ cmd' = [cmd EXCEPT ![l] = FALSE]
    /\ req' = [req EXCEPT ![l] = NoRequest]
    /\ rsp' \in {rsp, [rsp EXCEPT ![l] = NoResponse]}
    /\ UNCHANGED srv

SrvStep(l) == SrvRcvCmd(l) \/ SrvSendChunk(l) \/ SrvExit(l)
=============================================================================
