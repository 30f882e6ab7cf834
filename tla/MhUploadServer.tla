--------------------------- MODULE MhUploadServer ---------------------------
(***************************************************************************)
(* The server's side of an upload (protocol/mhproto_server.cpp: InitUpload *)
(* and ReceiveChunkFromClient) and the connections that lead to it.        *)
(*                                                                         *)
(* Nothing is acknowledged: the client writes chunk after chunk into a     *)
(* connection, which is a queue, and may be far ahead of the child that    *)
(* reads it.  A child of an earlier run may still be reading when the next *)
(* run has begun.  A number of eight bytes arrives whole or not at all.    *)
(***************************************************************************)
EXTENDS MhMetadata, Sequences, SequencesExt

CONSTANTS
  Link,        \* the connections, one per host named on the command line
  LinksFail    \* whether connections may break

ASSUME UploadServerAssumption == LinksFail \in BOOLEAN

VARIABLES
  conn,    \* "up"; "broken"; "closed": the processes of the client are gone
  chan,    \* what is on its way to the child, in order
  srv,     \* the child: "cmd" in RcvCmd, "recv" in ReceiveChunkFromClient
  remote,  \* the file on the server, chunk by chunk
  late,    \* what children of the earlier run have still to read
  lost,    \* history: chunks whose own bytes a failure has swallowed
  spoilt   \* history: chunks over which the beginning of another was written

linkVars == <<conn, chan, srv, remote, late, lost, spoilt>>

(***************************************************************************)
(* UPLOAD_INIT with its fields, UPLOAD_CHUNK, a chunk (number, size and    *)
(* data), the number -1.  A chunk of which only the beginning arrives is   *)
(* "torn", or "tornFirst" when it is the first of its connection.  "at" is *)
(* where the child will write it, the product of its number and of the     *)
(* chunk size in UPLOAD_INIT, counted in chunks of the metadata.           *)
(***************************************************************************)
Chunked == {"chunk", "torn", "tornFirst"}
Message == [kind : {"init", "upload", "end"}, of : {-1}, at : {-1}]
           \cup [kind : Chunked, of : Chunk, at : Nat]

Msg(kind) == [kind |-> kind, of |-> -1, at |-> -1]
ChunkMsg(c, at) == [kind |-> "chunk", of |-> c, at |-> at]
Whole(messages) == {m.of : m \in {n \in messages : n.kind = "chunk"}}

LinkTypeOK ==
    /\ conn \in [Link -> {"up", "broken", "closed"}]
    /\ chan \in [Link -> Seq(Message)]
    /\ srv \in [Link -> {"cmd", "fresh", "recv", "gone"}]
    /\ remote \in [Chunk -> Data]
    /\ late \subseteq Message
    /\ lost \subseteq Chunk
    /\ spoilt \subseteq Chunk

(* The chunks that are, whole, on their way. *)
InFlight == Whole(late) \cup UNION {Whole(ToSet(chan[l])) : l \in Link}

LinkInit ==
    /\ conn = [l \in Link |-> "up"]
    /\ chan = [l \in Link |-> <<>>]
    /\ srv = [l \in Link |-> "cmd"]
    /\ remote = [c \in Chunk |-> Hole]
    /\ late = {}
    /\ lost = {} /\ spoilt = {}

(* The beginning of the chunk in message m, after the messages q. *)
Torn(l, q, m) ==
    [m EXCEPT !.kind = IF srv[l] \in {"cmd", "fresh"} /\ Whole(ToSet(q)) = {}
                       THEN "tornFirst" ELSE "torn"]
-----------------------------------------------------------------------------
(* RcvCmd; InitUpload creates the file if there is none. *)
SrvRcvCmd(l) ==
    /\ srv[l] = "cmd"
    /\ chan[l] # <<>>
    /\ Head(chan[l]).kind \in {"init", "upload"}
    /\ srv' = [srv EXCEPT ![l] = IF Head(chan[l]).kind = "upload" THEN "fresh"
                                                                 ELSE "cmd"]
    /\ chan' = [chan EXCEPT ![l] = Tail(@)]
    /\ UNCHANGED <<conn, remote, late, lost, spoilt>>

(* lseek and write; a write past the last chunk makes the file longer. *)
WriteChunk(m) ==
    remote' = [c \in Chunk |-> IF c = m.at THEN m.of ELSE remote[c]]

(* One turn of ReceiveChunkFromClient: number, size, data; seek, write. *)
SrvRcvNext(l) ==
    /\ srv[l] \in {"fresh", "recv"}
    /\ chan[l] # <<>>
    /\ Head(chan[l]).kind = "chunk"
    /\ WriteChunk([Head(chan[l]) EXCEPT !.at = @ + 1])
    /\ srv' = [srv EXCEPT ![l] = "recv"]
    /\ chan' = [chan EXCEPT ![l] = Tail(@)]
    /\ UNCHANGED <<conn, late, lost, spoilt>>

SrvRcvChunk(l) ==
    /\ srv[l] \in {"fresh", "recv"}
    /\ chan[l] # <<>>
    /\ Head(chan[l]).kind = "chunk"
    /\ WriteChunk(Head(chan[l]))
    /\ srv' = [srv EXCEPT ![l] = "recv"]
    /\ chan' = [chan EXCEPT ![l] = Tail(@)]
    /\ UNCHANGED <<conn, late, lost, spoilt>>

(***************************************************************************)
(* The results of so_read are ignored: when the rest of a chunk does not   *)
(* come, the buffer is written as it is.  Of the first chunk of a          *)
(* connection the size may be missing, chunkSize is then whatever the      *)
(* stack held, and the write may run over the chunks that follow.          *)
(***************************************************************************)
Overwrites(m) ==
    {Chunk \cap (m.at .. k) : k \in IF m.kind = "tornFirst"
                                   THEN m.at - 1 .. m.at + Chunks ELSE {m.at}}

WriteTorn(m) ==
    \E over \in Overwrites(m) :
        /\ remote' = [c \in Chunk |-> IF c \in over THEN Hole ELSE remote[c]]
        /\ lost' = lost \cup (over \cap {m.of})
        /\ spoilt' = spoilt \cup (over \ {m.of})

(* The torn chunk is the last of its connection: the child then ends. *)
SrvRcvTorn(l) ==
    /\ srv[l] \in {"fresh", "recv"}
    /\ chan[l] # <<>>
    /\ Head(chan[l]).kind \in {"torn", "tornFirst"}
    /\ conn[l] # "up"
    /\ WriteTorn(Head(chan[l]))
    /\ chan' = [chan EXCEPT ![l] = <<>>]
    /\ srv' = [srv EXCEPT ![l] = "gone"]
    /\ UNCHANGED <<conn, late>>

(* The number -1: back to RcvCmd. *)
SrvRcvEnd(l) ==
    /\ srv[l] \in {"fresh", "recv"}
    /\ chan[l] # <<>>
    /\ Head(chan[l]).kind = "end"
    /\ srv' = [srv EXCEPT ![l] = "cmd"]
    /\ chan' = [chan EXCEPT ![l] = Tail(@)]
    /\ UNCHANGED <<conn, remote, late, lost, spoilt>>

(* so_read returns 0 or -1: the loop ends, and RcvCmd ends the process. *)
SrvExit(l) ==
    /\ srv[l] # "gone"
    /\ chan[l] = <<>>
    /\ conn[l] # "up"
    /\ srv' = [srv EXCEPT ![l] = "gone"]
    /\ UNCHANGED <<conn, chan, remote, late, lost, spoilt>>

(* A child of the earlier run goes on reading what was sent to it. *)
SrvLate(m) ==
    /\ m \in late
    /\ \/ /\ m.kind = "chunk"
          /\ WriteChunk(m)
          /\ UNCHANGED <<lost, spoilt>>
       \/ /\ m.kind # "chunk"
          /\ WriteTorn(m)
    /\ late' = late \ {m}
    /\ UNCHANGED <<conn, chan, srv>>

(***************************************************************************)
(* The connection breaks: what follows some point of the stream is lost,   *)
(* and that point may be inside a chunk.                                   *)
(***************************************************************************)
LinkFail(l) ==
    /\ LinksFail
    /\ conn[l] = "up"
    /\ conn' = [conn EXCEPT ![l] = "broken"]
    /\ \E n \in 0 .. Len(chan[l]) :
         LET kept == SubSeq(chan[l], 1, n)
             rest == SubSeq(chan[l], n + 1, Len(chan[l]))
         IN /\ \/ chan' = [chan EXCEPT ![l] = kept]
               \/ /\ rest # <<>>
                  /\ Head(rest).kind = "chunk"
                  /\ chan' = [chan EXCEPT ![l] =
                                Append(kept, Torn(l, kept, Head(rest)))]
            /\ lost' = lost \cup Whole(ToSet(rest))
    /\ UNCHANGED <<srv, remote, late, spoilt>>

SrvStep(l) ==
    SrvRcvCmd(l) \/ SrvRcvChunk(l) \/ SrvRcvTorn(l) \/ SrvRcvEnd(l)
    \/ SrvExit(l)
=============================================================================
