--------------------------- MODULE MhUploadProofs ---------------------------
(***************************************************************************)
(* The safety of MhUpload for every number of chunks and connections, of   *)
(* signals and of sessions.  The invariant UploadInv of MhUploadInv is     *)
(* proved in layers; each layer uses the earlier ones as known invariants. *)
(***************************************************************************)
EXTENDS MhUploadInv, MhMetadataProofs, SequenceTheorems

(* The messages of a queue, by their places in it. *)
LEMMA WholeIndex ==
    ASSUME NEW q \in Seq(Message), NEW c
    PROVE  c \in Whole(ToSet(q)) <=>
              \E i \in 1 .. Len(q) : q[i].kind = "chunk" /\ q[i].of = c
<1>1. DOMAIN q = 1 .. Len(q)
  OBVIOUS
<1> QED
  BY <1>1 DEF Whole, ToSet

LEMMA AppendIndex ==
    ASSUME NEW q \in Seq(Message), NEW m \in Message
    PROVE  /\ Append(q, m) \in Seq(Message)
           /\ Len(Append(q, m)) = Len(q) + 1
           /\ \A i \in 1 .. Len(q) : Append(q, m)[i] = q[i]
           /\ Append(q, m)[Len(q) + 1] = m
BY AppendProperties

LEMMA TailIndex ==
    ASSUME NEW q \in Seq(Message), q # <<>>
    PROVE  /\ Head(q) \in Message /\ Head(q) = q[1]
           /\ Tail(q) \in Seq(Message)
           /\ Len(q) \in Nat \ {0} /\ Len(Tail(q)) = Len(q) - 1
           /\ \A i \in 1 .. Len(q) - 1 : Tail(q)[i] = q[i + 1]
BY HeadTailProperties

LEMMA CutIndex ==
    ASSUME NEW q \in Seq(Message), NEW n \in 0 .. Len(q)
    PROVE  /\ SubSeq(q, 1, n) \in Seq(Message)
           /\ Len(SubSeq(q, 1, n)) = n
           /\ \A i \in 1 .. n : SubSeq(q, 1, n)[i] = q[i]
           /\ SubSeq(q, n + 1, Len(q)) \in Seq(Message)
           /\ Len(SubSeq(q, n + 1, Len(q))) = Len(q) - n
           /\ \A i \in 1 .. Len(q) - n :
                 SubSeq(q, n + 1, Len(q))[i] = q[n + i]
<1>1. /\ SubSeq(q, 1, n) \in Seq(Message)
      /\ Len(SubSeq(q, 1, n)) = n
      /\ \A i \in 1 .. n : SubSeq(q, 1, n)[i] = q[i]
  <2>1. \A i \in 1 .. n : q[i] \in Message
    BY ElementOfSeq
  <2>2. /\ SubSeq(q, 1, n) \in Seq(Message)
        /\ Len(SubSeq(q, 1, n)) = IF 1 <= n THEN n - 1 + 1 ELSE 0
        /\ \A i \in 1 .. n - 1 + 1 : SubSeq(q, 1, n)[i] = q[1 + i - 1]
    BY <2>1, SubSeqProperties
  <2> QED
    BY <2>2
<1>2. /\ SubSeq(q, n + 1, Len(q)) \in Seq(Message)
      /\ Len(SubSeq(q, n + 1, Len(q))) = Len(q) - n
      /\ \A i \in 1 .. Len(q) - n : SubSeq(q, n + 1, Len(q))[i] = q[n + i]
  <2> DEFINE m == n + 1
  <2>1. /\ \A i \in m .. Len(q) : q[i] \in Message
        /\ m \in Int /\ Len(q) \in Int
    BY ElementOfSeq
  <2>2. /\ SubSeq(q, m, Len(q)) \in Seq(Message)
        /\ Len(SubSeq(q, m, Len(q))) = IF m <= Len(q) THEN Len(q) - m + 1 ELSE 0
        /\ \A i \in 1 .. Len(q) - m + 1 :
              SubSeq(q, m, Len(q))[i] = q[m + i - 1]
    <3> HIDE DEF m
    <3> QED
      BY <2>1, SubSeqProperties
  <2> QED
    BY <2>2
<1> QED
  BY <1>1, <1>2
-----------------------------------------------------------------------------
(* Layer 1: types, the semaphore, and what the queues hold. *)
Layer1 == TypeOK /\ LockInv /\ TurnInv /\ ChunkInv /\ QueueInv

LEMMA MessageType ==
    /\ Msg("init") \in Message /\ Msg("upload") \in Message
    /\ Msg("end") \in Message
    /\ \A c \in Chunk, at \in Nat : ChunkMsg(c, at) \in Message
BY DEF Msg, ChunkMsg, Message, Chunked

LEMMA TornType ==
    ASSUME NEW l, NEW q, NEW m \in Message, m.kind = "chunk"
    PROVE  /\ Torn(l, q, m) \in Message /\ IsTorn(Torn(l, q, m))
           /\ Torn(l, q, m).of = m.of /\ Torn(l, q, m).at = m.at
           /\ Torn(l, q, m).kind # "chunk" /\ m.of \in Chunk
<1>1. m \in [kind : Chunked, of : Chunk, at : Nat]
  BY DEF Message
<1> DEFINE k == IF srv[l] \in {"cmd", "fresh"} /\ Whole(ToSet(q)) = {}
                THEN "tornFirst" ELSE "torn"
<1>2. Torn(l, q, m) = [m EXCEPT !.kind = k] /\ k \in {"torn", "tornFirst"}
  BY DEF Torn
<1> HIDE DEF k
<1> QED
  BY <1>1, <1>2 DEF Message, Chunked, IsTorn

LEMMA SendingType ==
    ASSUME TypeOK, NEW w \in Link, cur[w] \in Chunk
    PROVE  /\ Sending(w) \in Message /\ Sending(w).kind = "chunk"
           /\ Sending(w).of = cur[w] /\ Sending(w).at = cur[w] * scale
<1>1. scale \in Nat /\ cur[w] \in Nat
  BY UploadAssumption, ChunksAssumption DEF TypeOK, Chunk
<1>2. cur[w] * scale \in Nat
  BY <1>1
<1> QED
  BY <1>2, MessageType DEF Sending, ChunkMsg

LEMMA Init1 == Init => Layer1
<1> SUFFICES ASSUME Init PROVE Layer1
  OBVIOUS
<1> USE DEF Init, LinkInit, ClientInit
<1>1. TypeOK
  <2>1. LinkTypeOK
    <3>1. <<>> \in Seq(Message)
      OBVIOUS
    <3> QED
      BY <3>1 DEF LinkTypeOK, Data
  <2>2. file \in Metadata /\ snap \in Metadata /\ wmem \in [Link -> ControlData]
    BY InitialType DEF NoCopy, Metadata, InUse
  <2>3. killProc \in 0 .. MaxSigint /\ session \in 1 .. MaxSessions
    BY UploadAssumption
  <2>4. mon \in [pc : {"off", "run"}, inUse : InUse, mem : InUse]
    BY DEF MonitorOff, InUse
  <2> QED
    BY <2>1, <2>2, <2>3, <2>4 DEF TypeOK, MainPC, Forking, WorkerPC
<1>2. LockInv /\ TurnInv /\ ChunkInv /\ QueueInv
  BY DEF LockInv, TurnInv, ChunkInv, QueueInv, Forking, Critical, Working
<1> QED
  BY <1>1, <1>2 DEF Layer1

(* A message is put at the end of a queue, or lost. *)
LEMMA SendEffect ==
    ASSUME TypeOK, NEW l \in Link, NEW m \in Message, Send(l, m)
    PROVE  /\ chan' \in [Link -> Seq(Message)]
           /\ chan'[l] = IF conn[l] = "up" THEN Append(chan[l], m) ELSE chan[l]
           /\ \A k \in Link : k # l => chan'[k] = chan[k]
<1>1. chan \in [Link -> Seq(Message)]
  BY DEF TypeOK, LinkTypeOK
<1>2. Append(chan[l], m) \in Seq(Message)
  BY <1>1, AppendIndex
<1> QED
  BY <1>1, <1>2 DEF Send

(* The queues do not move, and no worker comes back from the dead. *)
LEMMA QueueStays ==
    ASSUME QueueInv, chan' = chan, late' = late,
           \A l \in Link : conn[l] # "up" => conn'[l] # "up",
           \A l \in Link : wpc[l] = "killed" => wpc'[l] = "killed"
    PROVE  QueueInv'
BY DEF QueueInv

LEMMA QueueSends ==
    ASSUME TypeOK, QueueInv, NEW l \in Link, NEW m \in Message, Send(l, m),
           wpc[l] # "killed", ~IsTorn(m), UNCHANGED <<conn, late>>,
           \A k \in Link : wpc[k] = "killed" => wpc'[k] = "killed"
    PROVE  QueueInv'
<1>1. /\ \A k \in Link : k # l => chan'[k] = chan[k]
      /\ chan'[l] = IF conn[l] = "up" THEN Append(chan[l], m) ELSE chan[l]
  BY SendEffect
<1>2. CASE conn[l] # "up"
  BY <1>1, <1>2 DEF QueueInv
<1>3. CASE conn[l] = "up"
  <2>1. chan[l] \in Seq(Message)
    BY DEF TypeOK, LinkTypeOK
  <2>2. \A i \in 1 .. Len(chan[l]) : ~IsTorn(chan[l][i])
    BY <1>3 DEF QueueInv
  <2>3. \A i \in 1 .. Len(chan'[l]) : ~IsTorn(chan'[l][i])
    BY <1>1, <1>3, <2>1, <2>2, AppendIndex
  <2> QED
    BY <1>1, <2>3 DEF QueueInv
<1> QED
  BY <1>2, <1>3

(* What the first message of a queue leaves behind it. *)
LEMMA QueueReads ==
    ASSUME TypeOK, QueueInv, NEW l \in Link, chan[l] # <<>>,
           chan' = [chan EXCEPT ![l] = Tail(@)], UNCHANGED <<conn, late, wpc>>
    PROVE  chan' \in [Link -> Seq(Message)] /\ QueueInv'
<1>1. chan \in [Link -> Seq(Message)]
  BY DEF TypeOK, LinkTypeOK
<1>2. /\ chan' \in [Link -> Seq(Message)]
      /\ chan'[l] = Tail(chan[l])
      /\ \A k \in Link : k # l => chan'[k] = chan[k]
  BY <1>1, TailIndex
<1>3. ASSUME NEW i \in 1 .. Len(chan'[l]), IsTorn(chan'[l][i])
      PROVE  i = Len(chan'[l]) /\ (conn[l] # "up" \/ wpc[l] = "killed")
  <2>1. /\ Len(chan'[l]) = Len(chan[l]) - 1 /\ Len(chan[l]) \in Nat \ {0}
        /\ chan'[l][i] = chan[l][i + 1] /\ i + 1 \in 1 .. Len(chan[l])
    BY <1>1, <1>2, TailIndex
  <2> QED
    BY <1>3, <2>1 DEF QueueInv
<1> QED
  BY <1>2, <1>3 DEF QueueInv

(* A chunk that is cut short ends the queue of a worker that is dead. *)
LEMMA QueueTears ==
    ASSUME TypeOK, QueueInv, NEW l \in Link, NEW q \in Seq(Message),
           q = chan[l], conn[l] = "up", wpc[l] # "killed", cur[l] \in Chunk
    PROVE  LET t == Append(q, Torn(l, q, Sending(l)))
           IN  /\ t \in Seq(Message)
               /\ \A i \in 1 .. Len(t) : IsTorn(t[i]) => i = Len(t)
<1>1. Torn(l, q, Sending(l)) \in Message
  BY SendingType, TornType
<1>2. \A i \in 1 .. Len(q) : ~IsTorn(q[i])
  BY DEF QueueInv
<1> QED
  BY <1>1, <1>2, AppendIndex

(* A worker that dies gives the semaphore back. *)
LEMMA Die1 ==
    ASSUME TypeOK, LockInv, NEW w \in Link, Die(w)
    PROVE  /\ wpc' = [wpc EXCEPT ![w] = "killed"]
           /\ wpc' \in [Link -> WorkerPC]
           /\ wmem' \in [Link -> ControlData]
           /\ sem' \in {0, 1}
           /\ LockInv'
<1>1. /\ wpc' = [wpc EXCEPT ![w] = "killed"]
      /\ wpc' \in [Link -> WorkerPC]
  BY DEF Die, TypeOK, WorkerPC, Ended
<1>2. wmem' \in [Link -> ControlData]
  BY InitialType DEF Die, TypeOK
<1>3. sem' \in {0, 1} /\ LockInv'
  BY <1>1 DEF Die, LockInv, TypeOK, Critical
<1> QED
  BY <1>1, <1>2, <1>3

(* A worker that writes its copy and releases the semaphore. *)
LEMMA Write1 ==
    ASSUME TypeOK, LockInv, NEW w \in Link, wpc[w] \in Critical,
           WriteAndRelease(w), NEW p \in WorkerPC \ Critical,
           wpc' = [wpc EXCEPT ![w] = p]
    PROVE  /\ file' \in Metadata
           /\ wmem' \in [Link -> ControlData]
           /\ sem' \in {0, 1}
           /\ LockInv'
<1>1. file' \in Metadata
  BY DEF WriteAndRelease, TypeOK, Metadata
<1>2. wmem' \in [Link -> ControlData]
  BY InitialType DEF WriteAndRelease, TypeOK
<1>3. sem' \in {0, 1} /\ LockInv'
  BY DEF WriteAndRelease, LockInv, TypeOK
<1> QED
  BY <1>1, <1>2, <1>3

LEMMA LinkStays ==
    ASSUME LinkTypeOK, UNCHANGED linkVars
    PROVE  LinkTypeOK'
BY DEF LinkTypeOK, linkVars

(* Main moves, and no worker with it. *)
LEMMA MainMoves ==
    ASSUME Layer1, UNCHANGED <<linkVars, wpc, cur, sem, wmem, history>>,
           hasFile' \in BOOLEAN, file' \in Metadata, snap' \in Metadata,
           killProc' \in 0 .. MaxSigint, main' \in MainPC,
           next' \in Link \cup {None},
           mon' \in [pc : {"off", "run"}, inUse : InUse, mem : InUse],
           main' \in Forking \ {"fork"} =>
               next' \in Link /\ wpc[next'] = "none",
           main' \in {"open", "store"} => NoWorkerYet
    PROVE  Layer1'
<1> USE DEF Layer1
<1>1. TypeOK'
  BY LinkStays DEF TypeOK, history
<1>2. LockInv' /\ ChunkInv' /\ TurnInv'
  BY DEF LockInv, ChunkInv, TurnInv, NoWorkerYet
<1>3. QueueInv'
  BY QueueStays DEF linkVars
<1> QED
  BY <1>1, <1>2, <1>3

LEMMA FreshTypes ==
    NoCopy \in Metadata /\ ArrayMissing \in Metadata
BY InitialType
   DEF NoCopy, ArrayMissing, Metadata, InUse, ControlData, ChunkInfo,
       ChunkStatus, Digest

LEMMA Main1 ==
    ASSUME Layer1, MainStep \/ MonitorTurn \/ Sigint
    PROVE  Layer1'
<1> USE DEF Layer1
<1>t. /\ hasFile \in BOOLEAN /\ file \in Metadata /\ snap \in Metadata
      /\ killProc \in 0 .. MaxSigint /\ next \in Link \cup {None}
      /\ mon \in [pc : {"off", "run"}, inUse : InUse, mem : InUse]
      /\ main \in MainPC
  BY DEF TypeOK
<1>1. ASSUME NEW l \in Link, Announce(l)
      PROVE  Layer1'
  <2>1. /\ main' \in {IF NoWorkerYet THEN "open" ELSE "init", "died"}
        /\ next' = l /\ wpc[l] = "none"
        /\ UNCHANGED <<linkVars, diskVars, sem, killProc, snap, mon, wpc, wmem,
                       cur, history>>
    BY <1>1 DEF Announce, Broken
  <2> QED
    BY <1>t, <2>1, MainMoves DEF diskVars, MainPC, Forking, Over
<1>2. CASE OpenMetadata
  <2>1. /\ hasFile' \in BOOLEAN /\ file' \in Metadata /\ snap' \in Metadata
        /\ main = "open" /\ main' \in {"init", "store"}
        /\ UNCHANGED <<linkVars, sem, killProc, next, mon, wpc, wmem, cur,
                       history>>
    BY <1>t, <1>2, FreshTypes DEF OpenMetadata, diskVars
  <2>2. NoWorkerYet /\ next \in Link /\ wpc[next] = "none"
    BY <2>1 DEF TurnInv, Forking
  <2> QED
    BY <1>t, <2>1, <2>2, MainMoves DEF MainPC, Forking
<1>3. CASE StoreArray
  BY <1>t, <1>3, MainMoves, FreshTypes
     DEF StoreArray, TurnInv, MainPC, Forking
<1>4. CASE InitUploadOnServer
  <2>1. /\ main = "init" /\ Send(next, Msg("init"))
        /\ main' \in {"save", "died"}
        /\ UNCHANGED <<conn, srv, remote, late, lost, spoilt, diskVars, sem,
                       killProc, snap, next, mon, wpc, wmem, cur, history>>
    BY <1>4 DEF InitUploadOnServer, Broken
  <2>2. next \in Link /\ wpc[next] = "none"
    BY <2>1 DEF TurnInv, Forking
  <2>3. Msg("init") \in Message /\ ~IsTorn(Msg("init"))
    BY MessageType DEF IsTorn, Msg
  <2>4. chan' \in [Link -> Seq(Message)]
    BY <2>1, <2>2, <2>3, SendEffect
  <2>5. QueueInv'
    BY <2>1, <2>2, <2>3, QueueSends
  <2>6. TypeOK'
    BY <2>1, <2>4 DEF TypeOK, LinkTypeOK, diskVars, history, MainPC, Forking,
                      Over
  <2>7. LockInv' /\ ChunkInv' /\ TurnInv'
    BY <2>1, <2>2 DEF LockInv, ChunkInv, TurnInv
  <2> QED
    BY <2>5, <2>6, <2>7
<1>5. CASE MainSave
  <2>1. snap' \in Metadata /\ file' \in Metadata
    BY <1>t, <1>5 DEF MainSave, Metadata, InUse
  <2> QED
    BY <1>t, <1>5, <2>1, MainMoves DEF MainSave, TurnInv, MainPC, Forking
<1>6. CASE ForkWorker
  <2>1. /\ wpc' = [wpc EXCEPT ![next] = "start"]
        /\ next' = None /\ main' = "fork" /\ main = "spawn"
        /\ UNCHANGED <<linkVars, diskVars, sem, killProc, snap, mon, wmem, cur,
                       history>>
    BY <1>6 DEF ForkWorker
  <2>2. next \in Link /\ wpc[next] = "none"
    BY <2>1 DEF TurnInv, Forking
  <2>3. TypeOK'
    BY <2>1, <2>2, LinkStays DEF TypeOK, diskVars, history, MainPC, Forking,
                                 WorkerPC
  <2>4. LockInv' /\ ChunkInv' /\ TurnInv'
    BY <2>1, <2>2 DEF LockInv, ChunkInv, TurnInv, TypeOK, Critical, Working
  <2>5. QueueInv'
    BY <2>1, <2>2, QueueStays DEF linkVars, TypeOK
  <2> QED
    BY <2>3, <2>4, <2>5
<1>7. CASE ForkMonitor
  BY <1>t, <1>7, MainMoves DEF ForkMonitor, diskVars, MainPC, Forking, InUse
<1>8. CASE MainFinish
  <2>1. file' \in Metadata
    BY <1>t, <1>8 DEF MainFinish, Metadata, InUse
  <2> QED
    BY <1>t, <1>8, <2>1, MainMoves DEF MainFinish, MainPC, Forking
<1>9. CASE MainEnd \/ HandlerWaited
  BY <1>t, <1>9, MainMoves DEF MainEnd, HandlerWaited, diskVars, MainPC, Forking,
                               Over
<1>10. CASE MonitorTurn
  <2>1. mon' \in [pc : {"off", "run"}, inUse : InUse, mem : InUse]
    <3>1. file.inUse \in InUse
      BY <1>t DEF Metadata
    <3>2. [mon EXCEPT !.inUse = mon.mem, !.mem = file.inUse]
              \in [pc : {"off", "run"}, inUse : InUse, mem : InUse]
      BY <1>t, <3>1
    <3>3. MonitorOff \in [pc : {"off", "run"}, inUse : InUse, mem : InUse]
      BY DEF MonitorOff, InUse
    <3> QED
      BY <1>10, <3>2, <3>3 DEF MonitorTurn
  <2> QED
    BY <1>t, <1>10, <2>1, MainMoves DEF MonitorTurn, diskVars, TurnInv
<1>11. CASE Sigint
  <2>1. killProc' \in 0 .. MaxSigint
    BY <1>t, <1>11, UploadAssumption DEF Sigint
  <2>2. mon' \in [pc : {"off", "run"}, inUse : InUse, mem : InUse]
    BY <1>t, <1>11 DEF Sigint, MonitorOff, InUse
  <2> QED
    BY <1>t, <1>11, <2>1, <2>2, MainMoves DEF Sigint, diskVars, MainPC, Forking,
                                              Over
<1> QED
  BY <1>1, <1>2, <1>3, <1>4, <1>5, <1>6, <1>7, <1>8, <1>9, <1>10, <1>11
     DEF MainStep

(* A worker moves, and main does not. *)
LEMMA WorkerMoves ==
    ASSUME Layer1, NEW w \in Link, wpc[w] # "none", wpc[w] # "killed",
           UNCHANGED <<hasFile, killProc, main, snap, next, mon, history,
                       conn, srv, remote, late>>,
           chan' \in [Link -> Seq(Message)],
           lost' \subseteq Chunk, spoilt' \subseteq Chunk,
           file' \in Metadata, sem' \in {0, 1},
           NEW p \in WorkerPC, wpc' = [wpc EXCEPT ![w] = p], p # "none",
           wmem' \in [Link -> ControlData], cur' \in [Link -> Chunk \cup {-1}],
           LockInv', QueueInv',
           \A v \in Link : v # w => cur'[v] = cur[v],
           p \in Working \cup {"claim"} => cur'[w] \in Chunk
    PROVE  Layer1'
<1> USE DEF Layer1
<1>1. TypeOK'
  BY DEF TypeOK, LinkTypeOK, history
<1>2. ChunkInv'
  BY DEF ChunkInv, TypeOK
<1>3. TurnInv'
  BY DEF TurnInv, NoWorkerYet, TypeOK
<1> QED
  BY <1>1, <1>2, <1>3

LEMMA Worker1 ==
    ASSUME Layer1, NEW w \in Link, WorkerStep(w)
    PROVE  Layer1'
<1> USE DEF Layer1
<1>0. /\ wpc[w] # "none" /\ wpc[w] # "killed"
      /\ UNCHANGED <<hasFile, killProc, main, snap, next, mon, history,
                     conn, srv, remote, late>>
  BY DEF WorkerStep, WorkerStart, AcquireAndLeave, AcquireForClaim, CommitClaim,
         SendChunk, BrokenPipe, AcquireForUpdate, CommitUpdate, linkVars,
         diskVars
<1>t. /\ chan \in [Link -> Seq(Message)]
      /\ lost \subseteq Chunk /\ spoilt \subseteq Chunk
      /\ file \in Metadata /\ file.info \in ControlData
      /\ wmem \in [Link -> ControlData] /\ sem \in {0, 1}
      /\ cur \in [Link -> Chunk \cup {-1}] /\ wpc \in [Link -> WorkerPC]
  BY DEF TypeOK, LinkTypeOK, Metadata
<1>q. ASSUME chan' = chan, NEW p, wpc' = [wpc EXCEPT ![w] = p]
      PROVE  QueueInv'
  BY <1>0, <1>t, <1>q, QueueStays
<1>1. ASSUME Die(w), UNCHANGED <<chan, lost, spoilt, file, cur>>
      PROVE  Layer1'
  <2>1. /\ wpc' = [wpc EXCEPT ![w] = "killed"] /\ "killed" \in WorkerPC
        /\ wmem' \in [Link -> ControlData] /\ sem' \in {0, 1} /\ LockInv'
    BY <1>1, Die1 DEF WorkerPC, Ended
  <2>2. QueueInv'
    BY <1>1, <1>q, <2>1
  <2> QED
    BY <1>0, <1>t, <1>1, <2>1, <2>2, WorkerMoves DEF Working
<1>2. ASSUME NEW m \in Message, ~IsTorn(m), Send(w, m),
             UNCHANGED <<file, sem, wmem>>,
             lost' \subseteq Chunk, spoilt' \subseteq Chunk,
             NEW p \in WorkerPC \ (Critical \cup {"none"}),
             wpc' = [wpc EXCEPT ![w] = p],
             cur' \in [Link -> Chunk \cup {-1}],
             \A v \in Link : v # w => cur'[v] = cur[v],
             p \in Working => cur'[w] \in Chunk
      PROVE  Layer1'
  <2>1. chan' \in [Link -> Seq(Message)]
    BY <1>2, SendEffect
  <2>2. QueueInv'
    BY <1>0, <1>2, <1>t, QueueSends
  <2>3. LockInv'
    BY <1>2, <1>t DEF LockInv
  <2>4. p # "none" /\ p # "claim"
    BY <1>2 DEF Critical
  <2> QED
    BY <1>0, <1>t, <1>2, <2>1, <2>2, <2>3, <2>4, WorkerMoves
<1>3. CASE WorkerStart(w)
  <2>1. CASE Die(w) /\ UNCHANGED chan
    BY <1>1, <1>3, <2>1 DEF WorkerStart, diskVars
  <2>2. CASE /\ Send(w, Msg("upload")) /\ UNCHANGED <<sem, wmem>>
             /\ wpc' = [wpc EXCEPT ![w] = "top"]
    <3>1. Msg("upload") \in Message /\ ~IsTorn(Msg("upload"))
      BY MessageType DEF IsTorn, Msg
    <3>2. /\ Send(w, Msg("upload"))
          /\ UNCHANGED <<file, sem, wmem, lost, spoilt, cur>>
      BY <1>3, <2>2 DEF WorkerStart, diskVars
    <3>3. "top" \in WorkerPC \ (Critical \cup {"none"}) /\ "top" \notin Working
      BY DEF WorkerPC, Critical, Working
    <3> QED
      BY <1>2, <1>t, <2>2, <3>1, <3>2, <3>3
  <2> QED
    BY <1>3, <2>1, <2>2 DEF WorkerStart
<1>4. CASE AcquireAndLeave(w)
  <2>1. Msg("end") \in Message /\ ~IsTorn(Msg("end"))
    BY MessageType DEF IsTorn, Msg
  <2>2. PICK p \in {"drained", "killed"} : wpc' = [wpc EXCEPT ![w] = p]
    BY <1>4 DEF AcquireAndLeave, Broken
  <2>3. /\ Send(w, Msg("end")) /\ UNCHANGED <<file, sem, wmem, lost, spoilt>>
        /\ cur' = [cur EXCEPT ![w] = -1]
    BY <1>4 DEF AcquireAndLeave, diskVars
  <2>4. p \in WorkerPC \ (Critical \cup {"none"}) /\ p \notin Working
    BY DEF WorkerPC, Critical, Working, Ended
  <2> QED
    BY <1>2, <1>t, <2>1, <2>2, <2>3, <2>4
<1>5. CASE AcquireForClaim(w)
  <2> DEFINE c == NextPendingChunk(file.info)
  <2>1. c \in Chunk
    BY <1>5, NextPendingChunkIsClaimable DEF AcquireForClaim, Claimable
  <2>2. SetStatus(file.info, c, "UPLOAD") \in ControlData
    BY <1>t, <2>1, SetStatusType DEF ChunkStatus
  <2>3. /\ sem = 1 /\ sem' = 0
        /\ cur' = [cur EXCEPT ![w] = c]
        /\ wmem' = [wmem EXCEPT ![w] = SetStatus(file.info, c, "UPLOAD")]
        /\ wpc' = [wpc EXCEPT ![w] = "claim"]
        /\ UNCHANGED <<chan, lost, spoilt, file>>
    BY <1>5 DEF AcquireForClaim, linkVars, diskVars
  <2> HIDE DEF c
  <2>4. LockInv'
    BY <1>t, <2>3 DEF LockInv, Critical
  <2>5. QueueInv'
    BY <1>q, <2>3
  <2>6. "claim" \in WorkerPC
    BY DEF WorkerPC
  <2> QED
    BY <1>0, <1>t, <2>1, <2>2, <2>3, <2>4, <2>5, <2>6, WorkerMoves
<1>6. ASSUME WriteAndRelease(w), wpc[w] \in Critical,
             UNCHANGED <<chan, lost, spoilt, cur>>,
             NEW p \in WorkerPC \ (Critical \cup {"none"}),
             wpc' = [wpc EXCEPT ![w] = p], cur[w] \in Chunk
      PROVE  Layer1'
  <2>1. /\ file' \in Metadata /\ wmem' \in [Link -> ControlData]
        /\ sem' \in {0, 1} /\ LockInv'
    BY <1>6, Write1
  <2>2. QueueInv'
    BY <1>6, <1>q
  <2> QED
    BY <1>0, <1>t, <1>6, <2>1, <2>2, WorkerMoves
<1>7. CASE CommitClaim(w)
  BY <1>6, <1>7 DEF CommitClaim, Critical, WorkerPC, Working, linkVars, ChunkInv
<1>8. CASE CommitUpdate(w)
  <2> DEFINE p == IF killProc = 0 THEN "top" ELSE "stopped"
  <2>1. p \in WorkerPC \ (Critical \cup {"none"})
    BY DEF WorkerPC, Ended, Critical
  <2>2. /\ wpc' = [wpc EXCEPT ![w] = p] /\ WriteAndRelease(w)
        /\ wpc[w] \in Critical /\ UNCHANGED <<chan, lost, spoilt, cur>>
        /\ cur[w] \in Chunk
    BY <1>8 DEF CommitUpdate, linkVars, Critical, ChunkInv, Working
  <2> HIDE DEF p
  <2> QED
    BY <1>6, <2>1, <2>2
<1>9. CASE SendChunk(w)
  <2>1. cur[w] \in Chunk
    BY <1>9 DEF SendChunk, ChunkInv, Working
  <2>2. Sending(w) \in Message /\ ~IsTorn(Sending(w))
    BY <2>1, SendingType DEF IsTorn
  <2>3. /\ Send(w, Sending(w)) /\ UNCHANGED <<file, sem, wmem, cur>>
        /\ lost' = IF conn[w] = "up" THEN lost \ {cur[w]} ELSE lost \cup {cur[w]}
        /\ spoilt' = IF conn[w] = "up" THEN spoilt \ {cur[w]} ELSE spoilt
        /\ wpc' = [wpc EXCEPT ![w] = "sent"]
    BY <1>9 DEF SendChunk, diskVars
  <2>4. /\ "sent" \in WorkerPC \ (Critical \cup {"none"})
        /\ lost' \subseteq Chunk /\ spoilt' \subseteq Chunk
    BY <1>t, <2>1, <2>3 DEF WorkerPC, Critical, Working
  <2> QED
    BY <1>2, <1>t, <2>1, <2>2, <2>3, <2>4
<1>10. CASE BrokenPipe(w)
  BY <1>1, <1>10 DEF BrokenPipe, linkVars, diskVars
<1>11. CASE AcquireForUpdate(w)
  <2>1. cur[w] \in Chunk
    BY <1>11 DEF AcquireForUpdate, ChunkInv, Working
  <2>2. SetChunk(file.info, cur[w], "OK", JunkDigest) \in ControlData
    BY <1>t, <2>1, SetChunkType DEF ChunkStatus, Digest
  <2>3. /\ sem = 1 /\ sem' = 0 /\ UNCHANGED <<chan, lost, spoilt, file, cur>>
        /\ wmem' = [wmem EXCEPT ![w] =
                      SetChunk(file.info, cur[w], "OK", JunkDigest)]
        /\ wpc' = [wpc EXCEPT ![w] = "commit"]
    BY <1>11 DEF AcquireForUpdate, linkVars, diskVars
  <2>4. LockInv'
    BY <1>t, <2>3 DEF LockInv, Critical
  <2>5. QueueInv'
    BY <1>q, <2>3
  <2>6. "commit" \in WorkerPC
    BY DEF WorkerPC, Working
  <2> QED
    BY <1>0, <1>t, <2>1, <2>2, <2>3, <2>4, <2>5, <2>6, WorkerMoves
<1> QED
  BY <1>3, <1>4, <1>5, <1>7, <1>8, <1>9, <1>10, <1>11 DEF WorkerStep

(* The server's children and the connections move, and no client with them. *)
LEMMA ServerMoves ==
    ASSUME Layer1, NoServer, LinkTypeOK', QueueInv'
    PROVE  Layer1'
<1> USE DEF Layer1
<1>1. TypeOK'
  BY DEF TypeOK, NoServer, clientVars, diskVars, history
<1>2. LockInv' /\ TurnInv' /\ ChunkInv'
  BY DEF LockInv, TurnInv, ChunkInv, NoWorkerYet, NoServer, clientVars
<1> QED
  BY <1>1, <1>2

LEMMA WriteTypes ==
    ASSUME LinkTypeOK, NEW m \in Message
    PROVE  /\ m.kind = "chunk" /\ WriteChunk(m) => remote' \in [Chunk -> Data]
           /\ WriteTorn(m) => /\ remote' \in [Chunk -> Data]
                              /\ lost' \subseteq Chunk /\ spoilt' \subseteq Chunk
<1>1. m.kind = "chunk" => m.of \in Chunk
  BY DEF Message, Chunked
<1>2. m.kind = "chunk" /\ WriteChunk(m) => remote' \in [Chunk -> Data]
  BY <1>1 DEF WriteChunk, LinkTypeOK, Data
<1>3. ASSUME WriteTorn(m)
      PROVE  /\ remote' \in [Chunk -> Data]
             /\ lost' \subseteq Chunk /\ spoilt' \subseteq Chunk
  <2>1. PICK over \in Overwrites(m) :
          /\ remote' = [c \in Chunk |-> IF c \in over THEN Hole ELSE remote[c]]
          /\ lost' = lost \cup (over \cap {m.of})
          /\ spoilt' = spoilt \cup (over \ {m.of})
    BY <1>3 DEF WriteTorn
  <2>2. over \subseteq Chunk
    BY DEF Overwrites
  <2> QED
    BY <2>1, <2>2 DEF LinkTypeOK, Data
<1> QED
  BY <1>2, <1>3

LEMMA Server1 ==
    ASSUME Layer1, NEW l \in Link, ServerStep(l)
    PROVE  Layer1'
<1> USE DEF Layer1
<1>0. /\ NoServer /\ UNCHANGED <<wpc, conn, late>>
  BY DEF ServerStep, NoServer, clientVars, SrvStep, SrvRcvCmd, SrvRcvChunk,
         SrvRcvTorn, SrvRcvEnd, SrvExit
<1>t. /\ LinkTypeOK
      /\ chan \in [Link -> Seq(Message)] /\ remote \in [Chunk -> Data]
      /\ srv \in [Link -> {"cmd", "fresh", "recv", "gone"}]
      /\ lost \subseteq Chunk /\ spoilt \subseteq Chunk
  BY DEF TypeOK, LinkTypeOK
<1>1. ASSUME chan[l] # <<>>, chan' = [chan EXCEPT ![l] = Tail(@)],
             srv' \in [Link -> {"cmd", "fresh", "recv", "gone"}],
             remote' \in [Chunk -> Data], UNCHANGED <<lost, spoilt>>
      PROVE  Layer1'
  <2>1. chan' \in [Link -> Seq(Message)] /\ QueueInv'
    BY <1>0, <1>1, QueueReads
  <2>2. LinkTypeOK'
    BY <1>0, <1>t, <1>1, <2>1 DEF LinkTypeOK
  <2> QED
    BY <1>0, <2>1, <2>2, ServerMoves
<1>2. CASE SrvRcvCmd(l)
  BY <1>t, <1>1, <1>2 DEF SrvRcvCmd
<1>3. CASE SrvRcvChunk(l)
  <2>1. Head(chan[l]) \in Message /\ Head(chan[l]).kind = "chunk"
    BY <1>t, <1>3, TailIndex DEF SrvRcvChunk
  <2>2. remote' \in [Chunk -> Data]
    BY <1>t, <1>3, <2>1, WriteTypes DEF SrvRcvChunk
  <2> QED
    BY <1>t, <1>1, <1>3, <2>2 DEF SrvRcvChunk
<1>4. CASE SrvRcvTorn(l)
  <2>1. Head(chan[l]) \in Message
    BY <1>t, <1>4, TailIndex DEF SrvRcvTorn
  <2>2. /\ remote' \in [Chunk -> Data]
        /\ lost' \subseteq Chunk /\ spoilt' \subseteq Chunk
    BY <1>t, <1>4, <2>1, WriteTypes DEF SrvRcvTorn
  <2>3. <<>> \in Seq(Message) /\ Len(<<>>) = 0
    OBVIOUS
  <2>4. /\ chan' = [chan EXCEPT ![l] = <<>>] /\ chan' \in [Link -> Seq(Message)]
        /\ srv' \in [Link -> {"cmd", "fresh", "recv", "gone"}]
    BY <1>t, <1>4, <2>3 DEF SrvRcvTorn
  <2>5. LinkTypeOK'
    BY <1>0, <1>t, <2>2, <2>4 DEF LinkTypeOK
  <2>6. QueueInv'
    BY <1>0, <1>t, <2>3, <2>4 DEF QueueInv
  <2> QED
    BY <1>0, <2>5, <2>6, ServerMoves
<1>5. CASE SrvRcvEnd(l)
  BY <1>t, <1>1, <1>5 DEF SrvRcvEnd
<1>6. CASE SrvExit(l)
  <2>1. LinkTypeOK'
    BY <1>0, <1>t, <1>6 DEF SrvExit, LinkTypeOK
  <2>2. QueueInv'
    BY <1>0, <1>6, QueueStays DEF SrvExit
  <2> QED
    BY <1>0, <2>1, <2>2, ServerMoves
<1> QED
  BY <1>2, <1>3, <1>4, <1>5, <1>6 DEF ServerStep, SrvStep

LEMMA Late1 ==
    ASSUME Layer1, LateStep
    PROVE  Layer1'
<1> USE DEF Layer1
<1>1. PICK m \in late : SrvLate(m)
  BY DEF LateStep
<1>2. m \in Message /\ LinkTypeOK /\ NoServer
  BY DEF TypeOK, LinkTypeOK, LateStep
<1>3. /\ remote' \in [Chunk -> Data]
      /\ lost' \subseteq Chunk /\ spoilt' \subseteq Chunk
      /\ late' = late \ {m} /\ UNCHANGED <<conn, chan, srv>>
  BY <1>1, <1>2, WriteTypes DEF SrvLate, LinkTypeOK
<1>4. LinkTypeOK'
  BY <1>2, <1>3 DEF LinkTypeOK
<1>5. QueueInv'
  BY <1>2, <1>3 DEF QueueInv, NoServer, clientVars
<1> QED
  BY <1>2, <1>4, <1>5, ServerMoves

(***************************************************************************)
(* What is left of the queue of a connection that breaks: its first n      *)
(* messages, and perhaps the beginning of the next one.                    *)
(***************************************************************************)
LEMMA CutEffect ==
    ASSUME Layer1, NEW l \in Link, LinkFail(l)
    PROVE  \E n \in 0 .. Len(chan[l]) :
             LET q == chan'[l]
                 rest == SubSeq(chan[l], n + 1, Len(chan[l]))
             IN  /\ q \in Seq(Message)
                 /\ \A i \in 1 .. n : q[i] = chan[l][i]
                 /\ \/ Len(q) = n
                    \/ /\ Len(q) = n + 1 /\ n < Len(chan[l])
                       /\ IsTorn(q[n + 1]) /\ q[n + 1].kind # "chunk"
                       /\ q[n + 1].at = chan[l][n + 1].at
                       /\ q[n + 1].of = chan[l][n + 1].of
                 /\ rest \in Seq(Message)
                 /\ lost' = lost \cup Whole(ToSet(rest))
<1> DEFINE r(n) == SubSeq(chan[l], n + 1, Len(chan[l]))
           p(n) == SubSeq(chan[l], 1, n)
<1>1. PICK n \in 0 .. Len(chan[l]) :
        /\ \/ chan' = [chan EXCEPT ![l] = p(n)]
           \/ /\ r(n) # <<>>
              /\ Head(r(n)).kind = "chunk"
              /\ chan' = [chan EXCEPT ![l] = Append(p(n), Torn(l, p(n), Head(r(n))))]
        /\ lost' = lost \cup Whole(ToSet(r(n)))
  BY DEF LinkFail
<1>2. chan \in [Link -> Seq(Message)] /\ chan[l] \in Seq(Message)
  BY DEF Layer1, TypeOK, LinkTypeOK
<1> DEFINE q == chan'[l]
<1>3. /\ p(n) \in Seq(Message) /\ Len(p(n)) = n
      /\ \A i \in 1 .. n : p(n)[i] = chan[l][i]
      /\ r(n) \in Seq(Message) /\ Len(r(n)) = Len(chan[l]) - n
      /\ \A i \in 1 .. Len(chan[l]) - n : r(n)[i] = chan[l][n + i]
  BY <1>2, CutIndex
<1> HIDE DEF p, r
<1>4. CASE chan' = [chan EXCEPT ![l] = p(n)]
  <2>1. q = p(n)
    BY <1>2, <1>4
  <2> QED
    BY <1>1, <1>3, <2>1 DEF r
<1>5. CASE /\ r(n) # <<>> /\ Head(r(n)).kind = "chunk"
           /\ chan' = [chan EXCEPT ![l] = Append(p(n), Torn(l, p(n), Head(r(n))))]
  <2>1. /\ Head(r(n)) \in Message /\ Head(r(n)) = r(n)[1]
        /\ Len(r(n)) \in Nat \ {0}
    BY <1>3, <1>5, TailIndex
  <2>2. n < Len(chan[l]) /\ r(n)[1] = chan[l][n + 1] /\ Len(chan[l]) \in Nat
    BY <1>2, <1>3, <2>1
  <2> DEFINE t == Torn(l, p(n), Head(r(n)))
  <2>3. /\ t \in Message /\ IsTorn(t) /\ t.kind # "chunk"
        /\ t.of = chan[l][n + 1].of /\ t.at = chan[l][n + 1].at
    BY <1>5, <2>1, <2>2, TornType
  <2>4. q = Append(p(n), t)
    BY <1>2, <1>5
  <2> HIDE DEF t, q
  <2>5. /\ q \in Seq(Message) /\ Len(q) = n + 1 /\ q[n + 1] = t
        /\ \A i \in 1 .. n : q[i] = chan[l][i]
    BY <1>3, <2>3, <2>4, AppendIndex
  <2> QED
    BY <1>1, <1>3, <2>2, <2>3, <2>5 DEF r, q
<1> QED
  BY <1>1, <1>4, <1>5

LEMMA Break1 ==
    ASSUME Layer1, NEW l \in Link, LinkBreaks(l)
    PROVE  Layer1'
<1> USE DEF Layer1
<1>1. LinkFail(l) /\ NoServer
  BY DEF LinkBreaks
<1>t. /\ chan \in [Link -> Seq(Message)]
      /\ lost \subseteq Chunk /\ spoilt \subseteq Chunk
      /\ conn \in [Link -> {"up", "broken", "closed"}] /\ LinkTypeOK
  BY DEF TypeOK, LinkTypeOK
<1>2. PICK n \in 0 .. Len(chan[l]) :
        /\ chan'[l] \in Seq(Message)
        /\ \A i \in 1 .. n : chan'[l][i] = chan[l][i]
        /\ \/ Len(chan'[l]) = n
           \/ Len(chan'[l]) = n + 1 /\ n < Len(chan[l])
        /\ SubSeq(chan[l], n + 1, Len(chan[l])) \in Seq(Message)
        /\ lost' = lost \cup Whole(ToSet(SubSeq(chan[l], n + 1, Len(chan[l]))))
  BY <1>1, CutEffect
<1>3. /\ conn' = [conn EXCEPT ![l] = "broken"]
      /\ UNCHANGED <<srv, remote, late, spoilt>>
      /\ \A k \in Link : k # l => chan'[k] = chan[k]
      /\ chan' \in [Link -> Seq(Message)]
  BY <1>1, <1>t, <1>2 DEF LinkFail
<1>4. lost' \subseteq Chunk
  <2> DEFINE r == SubSeq(chan[l], n + 1, Len(chan[l]))
  <2>1. r \in Seq(Message)
    BY <1>2
  <2> HIDE DEF r
  <2>2. \A c \in Whole(ToSet(r)) : c \in Chunk
    BY <2>1, WholeIndex, ElementOfSeq DEF Message, Chunked
  <2> QED
    BY <1>2, <1>t, <2>2 DEF r
<1>5. LinkTypeOK'
  BY <1>t, <1>3, <1>4 DEF LinkTypeOK
<1>6. ASSUME NEW i \in 1 .. Len(chan'[l]), IsTorn(chan'[l][i])
      PROVE  i = Len(chan'[l])
  <2>1. Len(chan[l]) \in Nat
    BY <1>t
  <2>2. CASE i \in 1 .. n
    BY <1>2, <1>6, <2>1, <2>2 DEF QueueInv
  <2> QED
    BY <1>2, <1>6, <2>1, <2>2
<1>7. conn'[l] # "up" /\ \A k \in Link : k # l => conn'[k] = conn[k]
  BY <1>t, <1>3
<1>8. QueueInv'
  BY <1>1, <1>3, <1>6, <1>7 DEF QueueInv, NoServer, clientVars
<1> QED
  BY <1>1, <1>5, <1>8, ServerMoves

LEMMA WorkerKilled1 ==
    ASSUME Layer1, NEW w \in Link, WorkerKilled(w)
    PROVE  Layer1'
<1> USE DEF Layer1
<1>t. /\ chan \in [Link -> Seq(Message)]
      /\ lost \subseteq Chunk /\ spoilt \subseteq Chunk
      /\ file \in Metadata /\ wpc \in [Link -> WorkerPC]
      /\ cur \in [Link -> Chunk \cup {-1}]
  BY DEF TypeOK, LinkTypeOK
<1>1. /\ wpc[w] # "none" /\ wpc[w] # "killed" /\ Die(w) /\ Killed(w)
      /\ UNCHANGED <<hasFile, killProc, main, snap, next, mon, history,
                     conn, srv, remote, late, spoilt, file, cur>>
  BY DEF WorkerKilled, Alive, Ended, diskVars
<1>2. /\ wpc' = [wpc EXCEPT ![w] = "killed"] /\ "killed" \in WorkerPC
      /\ wmem' \in [Link -> ControlData] /\ sem' \in {0, 1} /\ LockInv'
  BY <1>1, Die1 DEF WorkerPC, Ended
<1>3. /\ chan' \in [Link -> Seq(Message)]
      /\ lost' \subseteq Chunk /\ QueueInv'
  <2>1. CASE UNCHANGED <<chan, lost>>
    BY <1>1, <1>2, <1>t, <2>1, QueueStays
  <2> DEFINE t == Append(chan[w], Torn(w, chan[w], Sending(w)))
  <2>2. CASE /\ wpc[w] = "send" /\ conn[w] = "up"
             /\ chan' = [chan EXCEPT ![w] = t] /\ lost' = lost \cup {cur[w]}
    <3>1. cur[w] \in Chunk
      BY <2>2 DEF ChunkInv, Working
    <3>2. t \in Seq(Message) /\ \A i \in 1 .. Len(t) : IsTorn(t[i]) => i = Len(t)
      BY <1>t, <1>1, <2>2, <3>1, QueueTears
    <3>3. chan'[w] = t /\ \A k \in Link : k # w => chan'[k] = chan[k]
      BY <1>t, <2>2
    <3>4. chan' \in [Link -> Seq(Message)]
      BY <1>t, <2>2, <3>2
    <3> HIDE DEF t
    <3>5. QueueInv'
      BY <1>1, <1>2, <1>t, <3>2, <3>3 DEF QueueInv
    <3> QED
      BY <1>t, <1>1, <2>2, <3>1, <3>4, <3>5
  <2> QED
    BY <1>1, <2>1, <2>2 DEF Killed
<1> QED
  BY <1>1, <1>2, <1>3, <1>t, WorkerMoves DEF Working

LEMMA LastWrite1 ==
    ASSUME Layer1, NEW w \in Link, LastWrite(w)
    PROVE  Layer1'
<1> USE DEF Layer1
<1>t. /\ chan \in [Link -> Seq(Message)]
      /\ lost \subseteq Chunk /\ spoilt \subseteq Chunk
      /\ file \in Metadata /\ wmem \in [Link -> ControlData]
      /\ cur \in [Link -> Chunk \cup {-1}] /\ wpc \in [Link -> WorkerPC]
  BY DEF TypeOK, LinkTypeOK
<1>1. /\ wpc[w] # "none" /\ wpc[w] # "killed" /\ Die(w)
      /\ file' = [file EXCEPT !.info = wmem[w]]
      /\ UNCHANGED <<hasFile, killProc, main, snap, next, mon, history,
                     conn, srv, remote, late, chan, lost, spoilt, cur>>
  BY DEF LastWrite, Critical, linkVars
<1>2. /\ wpc' = [wpc EXCEPT ![w] = "killed"] /\ "killed" \in WorkerPC
      /\ wmem' \in [Link -> ControlData] /\ sem' \in {0, 1} /\ LockInv'
  BY <1>1, Die1 DEF WorkerPC, Ended
<1>3. file' \in Metadata
  BY <1>1, <1>t DEF Metadata
<1>4. QueueInv'
  BY <1>1, <1>2, <1>t, QueueStays
<1> QED
  BY <1>1, <1>2, <1>3, <1>4, <1>t, WorkerMoves DEF Working

LEMMA Crash1 ==
    ASSUME Layer1, Crash
    PROVE  Layer1'
<1> USE DEF Layer1
<1>t. /\ chan \in [Link -> Seq(Message)]
      /\ lost \subseteq Chunk /\ spoilt \subseteq Chunk
      /\ wpc \in [Link -> WorkerPC] /\ cur \in [Link -> Chunk \cup {-1}]
  BY DEF TypeOK, LinkTypeOK
<1> DEFINE t(w) == Append(chan[w], Torn(w, chan[w], Sending(w)))
<1>1. PICK torn \in SUBSET {w \in Link : wpc[w] = "send" /\ conn[w] = "up"} :
         /\ chan' = [w \in Link |-> IF w \in torn THEN t(w) ELSE chan[w]]
         /\ lost' = lost \cup {cur[w] : w \in torn}
  BY DEF Crash
<1>2. /\ main' = "crashed" /\ mon' = MonitorOff
      /\ wpc' = [w \in Link |-> IF Alive(w) THEN "killed" ELSE wpc[w]]
      /\ wmem' = [w \in Link |-> InitControlData] /\ sem' = 1
      /\ UNCHANGED <<conn, srv, remote, late, spoilt, diskVars, killProc, snap,
                     next, cur, history>>
  BY DEF Crash
<1>3. \A w \in torn : wpc[w] = "send" /\ conn[w] = "up" /\ cur[w] \in Chunk
  BY DEF ChunkInv, Working
<1>4. ASSUME NEW w \in torn
      PROVE  /\ t(w) \in Seq(Message)
             /\ \A i \in 1 .. Len(t(w)) : IsTorn(t(w)[i]) => i = Len(t(w))
  BY <1>t, <1>3, QueueTears
<1>5. /\ chan' \in [Link -> Seq(Message)]
      /\ \A w \in Link : chan'[w] = IF w \in torn THEN t(w) ELSE chan[w]
  <2> HIDE DEF t
  <2> QED
    BY <1>t, <1>1, <1>4
<1>6. /\ wpc' \in [Link -> WorkerPC]
      /\ \A w \in Link : wpc'[w] \in Ended \cup {"none"}
      /\ \A w \in Link : wpc[w] = "killed" => wpc'[w] = "killed"
      /\ \A w \in torn : wpc'[w] = "killed"
  BY <1>2, <1>3, <1>t DEF WorkerPC, Alive, Ended
<1>7. TypeOK'
  <2>1. lost' \subseteq Chunk
    BY <1>1, <1>3, <1>t
  <2>2. LinkTypeOK'
    BY <1>2, <1>5, <2>1 DEF TypeOK, LinkTypeOK
  <2>3. wmem' \in [Link -> ControlData]
    BY <1>2, InitialType
  <2> QED
    BY <1>2, <1>6, <2>2, <2>3
       DEF TypeOK, diskVars, history, MainPC, Over, MonitorOff, InUse
<1>8. LockInv' /\ TurnInv' /\ ChunkInv'
  BY <1>2, <1>6
     DEF LockInv, TurnInv, ChunkInv, Critical, Working, Ended, Forking
<1>9. QueueInv'
  <2> HIDE DEF t
  <2>1. ASSUME NEW w \in Link, NEW i \in 1 .. Len(chan'[w]), IsTorn(chan'[w][i])
        PROVE  i = Len(chan'[w]) /\ (conn'[w] # "up" \/ wpc'[w] = "killed")
    <3>1. CASE w \in torn
      BY <1>4, <1>5, <1>6, <2>1, <3>1
    <3>2. CASE w \notin torn
      BY <1>2, <1>5, <1>6, <2>1, <3>2 DEF QueueInv
    <3> QED
      BY <3>1, <3>2
  <2> QED
    BY <1>2, <2>1 DEF QueueInv
<1> QED
  BY <1>7, <1>8, <1>9

LEMMA Rerun1 ==
    ASSUME Layer1, Rerun
    PROVE  Layer1'
<1> USE DEF Layer1
<1>t. /\ chan \in [Link -> Seq(Message)] /\ late \subseteq Message
      /\ LinkTypeOK /\ session \in 1 .. MaxSessions
  BY DEF TypeOK, LinkTypeOK
<1>1. /\ late' \subseteq Message /\ \A m \in late' : m.kind \in Chunked
  <2>1. \A l \in Link : ToSet(chan[l]) \subseteq Message
    BY <1>t, ElementOfSeq DEF ToSet
  <2> QED
    BY <1>t, <2>1 DEF Rerun, QueueInv
<1>2. <<>> \in Seq(Message) /\ Len(<<>>) = 0
  OBVIOUS
<1>3. LinkTypeOK'
  BY <1>t, <1>1, <1>2 DEF LinkTypeOK, Rerun
<1>4. /\ NoCopy \in Metadata /\ InitControlData \in ControlData
      /\ MonitorOff \in [pc : {"off", "run"}, inUse : InUse, mem : InUse]
  BY FreshTypes, InitialType DEF MonitorOff, InUse
<1>5. scale' \in Scales \cup {1} /\ session' \in 1 .. MaxSessions
      /\ stale' \subseteq Chunk
  BY <1>t, UploadAssumption DEF Rerun
<1>6. /\ killProc' \in 0 .. MaxSigint
      /\ hasFile' \in BOOLEAN /\ file' \in Metadata /\ sem' \in {0, 1}
      /\ snap' = NoCopy /\ main' = "fork" /\ next' = None /\ mon' = MonitorOff
      /\ wpc' = [w \in Link |-> "none"]
      /\ wmem' = [w \in Link |-> InitControlData]
      /\ cur' = [w \in Link |-> -1]
  BY UploadAssumption DEF Rerun, TypeOK, diskVars
<1>7. TypeOK'
  BY <1>3, <1>4, <1>5, <1>6 DEF TypeOK, MainPC, Forking, WorkerPC
<1>8. LockInv' /\ TurnInv' /\ ChunkInv'
  BY <1>6 DEF LockInv, TurnInv, ChunkInv, Critical, Working, Forking
<1>9. QueueInv'
  <2>1. \A l \in Link : chan'[l] = <<>>
    BY DEF Rerun
  <2> QED
    BY <1>1, <1>2, <2>1 DEF QueueInv
<1> QED
  BY <1>7, <1>8, <1>9

(* mhstatus rewrites the metadata between two runs. *)
LEMMA StatusWrites ==
    ASSUME TypeOK, Status
    PROVE  /\ SessionOver /\ file' \in Metadata /\ hasFile' \in BOOLEAN
           /\ UNCHANGED <<linkVars, clientVars, scale, session, stale>>
           /\ \A c \in Chunk :
                 \/ file'.info[c] = file.info[c]
                 \/ file'.info[c].status \in {"PENDING", "ERROR"}
<1>1. file \in Metadata /\ hasFile \in BOOLEAN
  BY DEF TypeOK
<1>2. ASSUME NEW force \in BOOLEAN, StatusRecover(force)
      PROVE  /\ file' \in Metadata
             /\ \A c \in Chunk :
                   \/ file'.info[c] = file.info[c]
                   \/ file'.info[c].status \in {"PENDING", "ERROR"}
  <2>1. file' = ResetDownloadingChunks(file)
    BY <1>2 DEF StatusRecover
  <2>2. file' \in Metadata
    BY <1>1, <2>1, ResetDownloadingType
  <2> QED
    BY <2>1, <2>2 DEF ResetDownloadingChunks
<1>3. ASSUME NEW force \in BOOLEAN, StatusReset(force)
      PROVE  /\ file' \in Metadata
             /\ \A c \in Chunk : file'.info[c].status = "PENDING"
  BY <1>1, <1>3, ResetAllType DEF StatusReset
<1>4. ASSUME StatusCheck
      PROVE  /\ file' \in Metadata
             /\ \A c \in Chunk :
                   \/ file'.info[c] = file.info[c]
                   \/ file'.info[c].status \in {"PENDING", "ERROR"}
  BY <1>1, <1>4, CheckType DEF StatusCheck
<1>5. ASSUME CreateMetaData
      PROVE  /\ file' \in Metadata
             /\ \A c \in Chunk : file'.info[c].status = "PENDING"
  BY <1>5, FreshTypes DEF CreateMetaData, NoCopy, InitControlData
<1>6. /\ SessionOver /\ hasFile' \in BOOLEAN
      /\ UNCHANGED <<linkVars, clientVars, scale, session, stale>>
  BY <1>1 DEF Status, StatusRecover, StatusReset, StatusCheck, CreateMetaData
<1> QED
  BY <1>2, <1>3, <1>4, <1>5, <1>6 DEF Status

LEMMA Step1 == Layer1 /\ [Next]_vars => Layer1'
<1> SUFFICES ASSUME Layer1, [Next]_vars
             PROVE  Layer1'
  OBVIOUS
<1> USE DEF Layer1
<1>1. CASE UNCHANGED vars
  <2>1. LinkTypeOK' /\ QueueInv'
    BY <1>1, LinkStays, QueueStays DEF vars, linkVars, clientVars, TypeOK
  <2> QED
    BY <1>1, <2>1, ServerMoves DEF vars, NoServer
<1>2. CASE CloseConnections
  <2>1. /\ conn' = [l \in Link |-> IF conn[l] = "up" THEN "closed" ELSE conn[l]]
        /\ UNCHANGED <<chan, srv, remote, late, lost, spoilt, clientVars,
                       diskVars, history>>
    BY <1>2 DEF CloseConnections
  <2>2. LinkTypeOK'
    BY <2>1 DEF LinkTypeOK, TypeOK
  <2>3. QueueInv'
    BY <2>1, QueueStays DEF clientVars
  <2> QED
    BY <2>1, <2>2, <2>3, ServerMoves DEF NoServer
<1>3. CASE Status
  <2>1. /\ file' \in Metadata /\ hasFile' \in BOOLEAN
        /\ UNCHANGED <<linkVars, clientVars, scale, session, stale>>
    BY <1>3, StatusWrites
  <2> QED
    BY <2>1, MainMoves DEF TypeOK, TurnInv, clientVars, history
<1> QED
  BY <1>1, <1>2, <1>3, Main1, Worker1, WorkerKilled1, LastWrite1, Server1,
     Break1, Late1, Crash1, Rerun1 DEF Next

(* The types of all the variables. *)
THEOREM UploadTypeCorrect == Spec => []TypeOK
<1>1. Layer1 => TypeOK
  BY DEF Layer1
<1> QED
  BY <1>1, Init1, Step1, PTL DEF Spec
-----------------------------------------------------------------------------
(* What the steps do to the metadata and to its copies. *)
Claims(w) ==
    /\ wpc[w] = "top" /\ wpc'[w] = "claim" /\ sem = 1
    /\ cur'[w] \in Claimable(file.info)
    /\ wmem'[w] = SetStatus(file.info, cur'[w], "UPLOAD")
    /\ file' = file

Updates(w) ==
    /\ wpc[w] = "sent" /\ wpc'[w] = "commit" /\ sem = 1
    /\ cur'[w] = cur[w]
    /\ wmem'[w] = SetChunk(file.info, cur[w], "OK", JunkDigest)
    /\ file' = file

Writes(w) ==
    /\ \/ wpc[w] = "claim" /\ wpc'[w] \in {"send", "killed"}
       \/ wpc[w] = "commit" /\ wpc'[w] \in {"top", "stopped", "killed"}
    /\ file'.info = wmem[w]
    /\ cur'[w] = cur[w] /\ wmem'[w] = InitControlData

Leaves(w) ==
    /\ wpc[w] = "top" /\ wpc'[w] \in {"drained", "killed"}
    /\ Claimable(file.info) = {}
    /\ file' = file /\ wmem'[w] = wmem[w]

Carries(w) ==
    /\ \/ wpc[w] = "start" /\ wpc'[w] = "top"
       \/ wpc[w] = "send" /\ wpc'[w] = "sent" /\ SendChunk(w)
       \/ wpc'[w] = "killed"
    /\ wmem'[w] \in {wmem[w], InitControlData}
    /\ file' = file /\ cur'[w] = cur[w]

WorkerShape(w) ==
    /\ UNCHANGED <<main, snap, stale>>
    /\ wpc[w] # "none"
    /\ \A v \in Link \ {w} :
          wpc'[v] = wpc[v] /\ wmem'[v] = wmem[v] /\ cur'[v] = cur[v]
    /\ Claims(w) \/ Updates(w) \/ Writes(w) \/ Leaves(w) \/ Carries(w)

LEMMA DieShape ==
    ASSUME TypeOK, NEW w \in Link, Die(w), Alive(w),
           UNCHANGED <<main, snap, stale, cur>>,
           \/ file' = file
           \/ wpc[w] \in Critical /\ file' = [file EXCEPT !.info = wmem[w]]
    PROVE  WorkerShape(w)
<1>1. /\ wpc \in [Link -> WorkerPC] /\ wmem \in [Link -> ControlData]
      /\ file \in Metadata
  BY DEF TypeOK
<1>2. /\ wpc'[w] = "killed" /\ wmem'[w] = InitControlData
      /\ \A v \in Link \ {w} : wpc'[v] = wpc[v] /\ wmem'[v] = wmem[v]
  BY <1>1 DEF Die
<1>3. CASE file' = file
  BY <1>2, <1>3 DEF WorkerShape, Carries, Alive
<1>4. CASE wpc[w] \in Critical /\ file' = [file EXCEPT !.info = wmem[w]]
  <2>1. file'.info = wmem[w]
    BY <1>1, <1>4 DEF Metadata
  <2> QED
    BY <1>2, <1>4, <2>1 DEF WorkerShape, Writes, Critical, Alive
<1> QED
  BY <1>3, <1>4

LEMMA WorkerShapes ==
    ASSUME TypeOK, NEW w \in Link,
           WorkerStep(w) \/ WorkerKilled(w) \/ LastWrite(w)
    PROVE  WorkerShape(w)
<1>t. /\ wpc \in [Link -> WorkerPC] /\ wmem \in [Link -> ControlData]
      /\ cur \in [Link -> Chunk \cup {-1}] /\ file \in Metadata
  BY DEF TypeOK
<1>1. CASE WorkerKilled(w)
  BY <1>1, DieShape DEF WorkerKilled, diskVars, history
<1>2. CASE LastWrite(w)
  BY <1>2, DieShape DEF LastWrite, history, Alive, Critical, Ended
<1>3. CASE BrokenPipe(w)
  BY <1>3, DieShape DEF BrokenPipe, diskVars, history, Alive, Ended
<1>4. CASE WorkerStart(w)
  <2>1. CASE Die(w) /\ UNCHANGED chan
    BY <1>4, <2>1, DieShape DEF WorkerStart, diskVars, history, Alive, Ended
  <2>2. CASE wpc' = [wpc EXCEPT ![w] = "top"] /\ UNCHANGED wmem
    BY <1>t, <1>4, <2>2
       DEF WorkerStart, diskVars, history, WorkerShape, Carries
  <2> QED
    BY <1>4, <2>1, <2>2 DEF WorkerStart
<1>5. CASE AcquireAndLeave(w)
  <2>1. Claimable(file.info) = {}
    BY <1>5, NextPendingChunkIsClaimable DEF AcquireAndLeave, Claimable, Chunk
  <2> QED
    BY <1>t, <1>5, <2>1
       DEF AcquireAndLeave, Broken, diskVars, history, WorkerShape, Leaves
<1>6. CASE AcquireForClaim(w)
  <2> DEFINE c == NextPendingChunk(file.info)
  <2>1. c \in Claimable(file.info)
    BY <1>6, NextPendingChunkIsClaimable DEF AcquireForClaim
  <2>2. /\ sem = 1 /\ wpc[w] = "top"
        /\ cur' = [cur EXCEPT ![w] = c]
        /\ wmem' = [wmem EXCEPT ![w] = SetStatus(file.info, c, "UPLOAD")]
        /\ wpc' = [wpc EXCEPT ![w] = "claim"]
        /\ UNCHANGED <<file, main, snap, stale>>
    BY <1>6 DEF AcquireForClaim, diskVars, history
  <2> HIDE DEF c
  <2> QED
    BY <1>t, <2>1, <2>2 DEF WorkerShape, Claims
<1>7. CASE CommitClaim(w)
  <2>1. file'.info = wmem[w]
    BY <1>t, <1>7 DEF CommitClaim, WriteAndRelease, Metadata
  <2> QED
    BY <1>t, <1>7, <2>1
       DEF CommitClaim, WriteAndRelease, history, WorkerShape, Writes
<1>8. CASE SendChunk(w)
  BY <1>t, <1>8 DEF SendChunk, diskVars, history, WorkerShape, Carries
<1>9. CASE AcquireForUpdate(w)
  BY <1>t, <1>9 DEF AcquireForUpdate, diskVars, history, WorkerShape, Updates
<1>10. CASE CommitUpdate(w)
  <2>1. file'.info = wmem[w]
    BY <1>t, <1>10 DEF CommitUpdate, WriteAndRelease, Metadata
  <2> QED
    BY <1>t, <1>10, <2>1
       DEF CommitUpdate, WriteAndRelease, history, WorkerShape, Writes
<1> QED
  BY <1>1, <1>2, <1>3, <1>4, <1>5, <1>6, <1>7, <1>8, <1>9, <1>10 DEF WorkerStep

Opens ==
    /\ NoWorkerYet /\ main = "open" /\ main' = "init"
    /\ snap' = file /\ UNCHANGED <<file, wpc>>

Creates ==
    /\ NoWorkerYet /\ main = "open" /\ main' = "store"
    /\ file' = ArrayMissing /\ UNCHANGED <<snap, wpc>>

Stores ==
    /\ NoWorkerYet /\ main = "store" /\ main' = "init"
    /\ file' = NoCopy /\ snap' = NoCopy /\ UNCHANGED wpc

Saves ==
    /\ main = "save" /\ main' = "spawn"
    /\ file'.info = snap.info /\ snap'.info = snap.info /\ UNCHANGED wpc

Forks ==
    /\ main = "spawn" /\ main' = "fork"
    /\ next \in Link /\ wpc[next] = "none" /\ wpc'[next] = "start"
    /\ \A v \in Link \ {next} : wpc'[v] = wpc[v]
    /\ UNCHANGED <<file, snap>>

(* The fork loop goes on, or ends; any step that main takes no part in. *)
GoesOn ==
    /\ Opened' => Opened
    /\ main' \in {"fork", "wait", "finish"} => main \in {"fork", "wait", "finish"}
    /\ file'.info = file.info /\ UNCHANGED <<snap, wpc>>

MainShape ==
    /\ UNCHANGED <<wmem, cur, stale>>
    /\ Opens \/ Creates \/ Stores \/ Saves \/ Forks \/ GoesOn

MainAction ==
    \/ MainStep \/ MonitorTurn \/ Sigint \/ NoServer \/ CloseConnections

LEMMA MainShapes ==
    ASSUME TypeOK, TurnInv, MainAction
    PROVE  MainShape
<1>t. /\ wpc \in [Link -> WorkerPC] /\ file \in Metadata /\ snap \in Metadata
  BY DEF TypeOK
<1>1. ASSUME NEW l \in Link, Announce(l)
      PROVE  MainShape
  <2>1. /\ main = "fork"
        /\ main' \in {IF NoWorkerYet THEN "open" ELSE "init", "died"}
        /\ UNCHANGED <<file, snap, wpc, wmem, cur, stale>>
    BY <1>1 DEF Announce, Broken, diskVars, history
  <2> QED
    BY <2>1 DEF MainShape, GoesOn, Opened
<1>2. CASE OpenMetadata
  BY <1>2 DEF OpenMetadata, diskVars, history, MainShape, Opens, Creates,
              TurnInv
<1>3. CASE StoreArray
  BY <1>3 DEF StoreArray, history, MainShape, Stores, TurnInv
<1>4. CASE InitUploadOnServer
  <2>1. /\ main = "init" /\ main' \in {"save", "died"}
        /\ UNCHANGED <<file, snap, wpc, wmem, cur, stale>>
    BY <1>4 DEF InitUploadOnServer, Broken, diskVars, history
  <2> QED
    BY <2>1 DEF MainShape, GoesOn, Opened
<1>5. CASE MainSave
  <2>1. file'.info = snap.info /\ snap'.info = snap.info
    BY <1>t, <1>5 DEF MainSave, Metadata
  <2> QED
    BY <1>5, <2>1 DEF MainSave, history, MainShape, Saves
<1>6. CASE ForkWorker
  BY <1>t, <1>6 DEF ForkWorker, diskVars, history, MainShape, Forks, TurnInv,
                    Forking
<1>7. CASE ForkMonitor
  BY <1>7 DEF ForkMonitor, diskVars, history, MainShape, GoesOn, Opened
<1>8. CASE MainFinish
  <2>1. file'.info = file.info
    BY <1>t, <1>8 DEF MainFinish, Metadata
  <2> QED
    BY <1>8, <2>1 DEF MainFinish, history, MainShape, GoesOn, Opened
<1>9. CASE MainEnd \/ HandlerWaited
  BY <1>9 DEF MainEnd, HandlerWaited, diskVars, history, MainShape, GoesOn,
              Opened
<1>10. CASE MonitorTurn \/ NoServer \/ CloseConnections
  BY <1>10 DEF MonitorTurn, NoServer, CloseConnections, clientVars, diskVars,
               history, MainShape, GoesOn, Opened, NoWorkerYet
<1>11. CASE Sigint
  <2>1. /\ main' \in {"hwait", "interrupted"}
        /\ UNCHANGED <<file, snap, wpc, wmem, cur, stale>>
    BY <1>11 DEF Sigint, diskVars, history
  <2> QED
    BY <2>1 DEF MainShape, GoesOn, Opened
<1> QED
  BY <1>1, <1>2, <1>3, <1>4, <1>5, <1>6, <1>7, <1>8, <1>9, <1>10, <1>11
     DEF MainStep, MainAction

(* Every step of the specification is one of these, or ends a session. *)
LEMMA NextShapes ==
    ASSUME TypeOK, TurnInv, [Next]_vars
    PROVE  \/ \E w \in Link : WorkerShape(w)
           \/ MainShape
           \/ Crash \/ Rerun \/ Status
<1>1. CASE UNCHANGED vars
  BY <1>1, MainShapes DEF vars, MainAction, NoServer
<1>2. ASSUME NEW w \in Link, WorkerStep(w) \/ WorkerKilled(w) \/ LastWrite(w)
      PROVE  WorkerShape(w)
  BY <1>2, WorkerShapes
<1>3. ASSUME NEW l \in Link, ServerStep(l) \/ LinkBreaks(l)
      PROVE  MainShape
  BY <1>3, MainShapes DEF MainAction, ServerStep, LinkBreaks
<1>4. CASE \/ MainStep \/ MonitorTurn \/ Sigint \/ LateStep \/ CloseConnections
  BY <1>4, MainShapes DEF MainAction, LateStep
<1> QED
  BY <1>1, <1>2, <1>3, <1>4 DEF Next
-----------------------------------------------------------------------------
(* Layer 2: whose mark a mark is. *)
Layer2 == Layer1 /\ StatusInv /\ MarksInv /\ UploadHasOwner

LEMMA Quiet ==
    /\ NoDownload(NoCopy.info) /\ NoDownload(ArrayMissing.info)
    /\ NoDownload(InitControlData)
    /\ \A c \in Chunk : /\ NoCopy.info[c].status = "PENDING"
                        /\ ArrayMissing.info[c].status = "OK"
                        /\ InitControlData[c].status = "PENDING"
BY DEF NoDownload, NoCopy, ArrayMissing, InitControlData

LEMMA CopyTypes ==
    ASSUME TypeOK
    PROVE  /\ file.info \in ControlData /\ snap.info \in ControlData
           /\ \A w \in Link : wmem[w] \in ControlData
           /\ \A c \in Chunk : /\ file.info[c].status \in ChunkStatus
                               /\ snap.info[c].status \in ChunkStatus
BY DEF TypeOK, Metadata, ControlData, ChunkInfo

(* The copy of a worker that has claimed a chunk, or transferred it. *)
LEMMA ClaimCopy ==
    ASSUME TypeOK, NEW w \in Link, Claims(w)
    PROVE  /\ cur'[w] \in Chunk /\ wmem'[w][cur'[w]].status = "UPLOAD"
           /\ \A c \in Chunk : c # cur'[w] => wmem'[w][c] = file.info[c]
<1> DEFINE c == cur'[w]
<1>1. c \in Chunk /\ wmem'[w] = SetStatus(file.info, c, "UPLOAD")
  BY DEF Claims, Claimable
<1>2. file.info \in ControlData /\ "UPLOAD" \in ChunkStatus
  BY CopyTypes DEF ChunkStatus
<1> HIDE DEF c
<1>3. /\ wmem'[w][c].status = "UPLOAD"
      /\ \A d \in Chunk : d # c => wmem'[w][d] = file.info[d]
  BY <1>1, <1>2, SetStatusType
<1> QED
  BY <1>1, <1>3 DEF c

LEMMA UpdateCopy ==
    ASSUME TypeOK, ChunkInv, NEW w \in Link, Updates(w)
    PROVE  /\ cur'[w] = cur[w] /\ cur[w] \in Chunk
           /\ wmem'[w][cur[w]] = [md5sum |-> JunkDigest, status |-> "OK"]
           /\ \A c \in Chunk : c # cur[w] => wmem'[w][c] = file.info[c]
<1>1. /\ cur[w] \in Chunk /\ cur'[w] = cur[w]
      /\ wmem'[w] = SetChunk(file.info, cur[w], "OK", JunkDigest)
  BY DEF Updates, ChunkInv, Working
<1>2. /\ file.info \in ControlData /\ "OK" \in ChunkStatus
      /\ JunkDigest \in Digest
  BY CopyTypes DEF ChunkStatus, Digest
<1> QED
  BY <1>1, <1>2, SetChunkType

LEMMA Init2 == Init => StatusInv /\ MarksInv /\ UploadHasOwner
BY Quiet DEF Init, ClientInit, StatusInv, MarksInv, UploadHasOwner, NoCopy,
             NoDownload, Critical, Working

LEMMA WorkerStatus ==
    ASSUME Layer2, NEW w \in Link, WorkerShape(w)
    PROVE  StatusInv'
<1> USE DEF Layer2, Layer1
<1>1. /\ snap' = snap /\ \A v \in Link \ {w} : wmem'[v] = wmem[v]
      /\ Claims(w) \/ Updates(w) \/ Writes(w) \/ Leaves(w) \/ Carries(w)
  BY DEF WorkerShape
<1>2. NoDownload(file'.info)
  BY <1>1 DEF Claims, Updates, Writes, Leaves, Carries, StatusInv
<1>3. NoDownload(wmem'[w])
  <2>1. CASE Claims(w)
    BY <2>1, ClaimCopy DEF StatusInv, NoDownload
  <2>2. CASE Updates(w)
    BY <2>2, UpdateCopy DEF StatusInv, NoDownload
  <2>3. CASE Writes(w) \/ Leaves(w) \/ Carries(w)
    BY <2>3, Quiet DEF Writes, Leaves, Carries, StatusInv
  <2> QED
    BY <1>1, <2>1, <2>2, <2>3
<1> QED
  BY <1>1, <1>2, <1>3 DEF StatusInv, NoDownload

(* Marks outlive the steps that leave the metadata and their owners. *)
LEMMA MarksStay ==
    ASSUME MarksInv, UploadHasOwner, UNCHANGED <<snap, stale>>,
           \A c \in Chunk : file'.info[c].status = "UPLOAD" =>
                                file.info[c].status = "UPLOAD",
           \A v \in Link : Owning(v) => Owning(v)' /\ cur'[v] = cur[v],
           \A v \in Link : wpc'[v] \in Critical =>
               wpc'[v] = wpc[v] /\ wmem'[v] = wmem[v] /\ cur'[v] = cur[v]
    PROVE  MarksInv' /\ UploadHasOwner'
BY DEF MarksInv, UploadHasOwner, Owning

LEMMA WorkerMarks ==
    ASSUME Layer2, NEW w \in Link, WorkerShape(w)
    PROVE  MarksInv' /\ UploadHasOwner'
<1> USE DEF Layer2, Layer1
<1>1. /\ UNCHANGED <<snap, stale>>
      /\ \A v \in Link \ {w} :
            wpc'[v] = wpc[v] /\ wmem'[v] = wmem[v] /\ cur'[v] = cur[v]
      /\ Claims(w) \/ Updates(w) \/ Writes(w) \/ Leaves(w) \/ Carries(w)
  BY DEF WorkerShape
<1>2. CASE Claims(w)
  <2>1. /\ wpc[w] = "top" /\ wpc'[w] = "claim" /\ file' = file
        /\ \A v \in Link : wpc[v] \notin Critical
        /\ ~Owning(w)
    BY <1>2 DEF Claims, LockInv, Owning, Working
  <2>2. UploadHasOwner'
    BY <1>1, <2>1 DEF UploadHasOwner, Working
  <2>3. ASSUME NEW c \in Chunk, wmem'[w][c].status = "UPLOAD"
        PROVE  \/ c \in stale
               \/ c = cur'[w]
               \/ \E v \in Link \ {w} : Owning(v)' /\ cur'[v] = c
    <3>1. c # cur'[w] => file.info[c].status = "UPLOAD"
      BY <1>2, <2>3, ClaimCopy
    <3> QED
      BY <1>1, <2>1, <3>1 DEF UploadHasOwner, Owning
  <2>4. \A v \in Link \ {w} : wpc'[v] \notin Critical
    BY <1>1, <2>1
  <2> QED
    BY <1>1, <2>1, <2>2, <2>3, <2>4 DEF MarksInv
<1>3. CASE Updates(w)
  <2>1. /\ wpc[w] = "sent" /\ wpc'[w] = "commit" /\ file' = file
        /\ \A v \in Link : wpc[v] \notin Critical
        /\ cur'[w] = cur[w] /\ cur[w] \in Chunk
    BY <1>3 DEF Updates, LockInv, ChunkInv, Working
  <2>2. UploadHasOwner'
    BY <1>1, <2>1 DEF UploadHasOwner, Working
  <2>3. ASSUME NEW c \in Chunk, wmem'[w][c].status = "UPLOAD"
        PROVE  \/ c \in stale
               \/ \E v \in Link \ {w} : Owning(v)' /\ cur'[v] = c
    <3>1. c # cur[w] /\ file.info[c].status = "UPLOAD"
      BY <1>3, <2>3, UpdateCopy
    <3> QED
      BY <1>1, <2>1, <3>1 DEF UploadHasOwner, Owning
  <2>4. \A v \in Link \ {w} : wpc'[v] \notin Critical
    BY <1>1, <2>1
  <2> QED
    BY <1>1, <2>1, <2>2, <2>3, <2>4 DEF MarksInv
<1>4. CASE Writes(w)
  <2>1. /\ wpc[w] \in Critical /\ wpc'[w] \notin Critical
        /\ wpc[w] = "claim" => wpc'[w] \in {"send", "killed"}
        /\ file'.info = wmem[w] /\ cur'[w] = cur[w]
        /\ \A v \in Link \ {w} : wpc[v] \notin Critical
    BY <1>4 DEF Writes, LockInv, Critical
  <2>2. \A v \in Link : wpc'[v] \notin Critical
    BY <1>1, <2>1
  <2>3. ASSUME NEW c \in Chunk, wmem[w][c].status = "UPLOAD"
        PROVE  c \in stale \/ \E v \in Link : Owning(v)' /\ cur'[v] = c
    <3>1. CASE c = cur[w] /\ wpc[w] = "claim"
      BY <2>1, <3>1 DEF Owning, Working
    <3>2. CASE \E v \in Link \ {w} : Owning(v) /\ cur[v] = c
      BY <1>1, <3>2 DEF Owning
    <3> QED
      BY <2>1, <2>3, <3>1, <3>2 DEF MarksInv
  <2>4. UploadHasOwner'
    BY <1>1, <2>1, <2>3 DEF UploadHasOwner, Owning
  <2> QED
    BY <1>1, <2>2, <2>4 DEF MarksInv
<1>5. CASE Leaves(w)
  BY <1>1, <1>5, MarksStay DEF Leaves, Owning, Working, Critical
<1>6. CASE Carries(w)
  BY <1>1, <1>6, MarksStay DEF Carries, Owning, Working, Critical
<1> QED
  BY <1>1, <1>2, <1>3, <1>4, <1>5, <1>6

LEMMA Main2 ==
    ASSUME Layer2, MainShape
    PROVE  StatusInv' /\ MarksInv' /\ UploadHasOwner'
<1> USE DEF Layer2, Layer1
<1>1. /\ UNCHANGED <<wmem, cur, stale>>
      /\ Opens \/ Creates \/ Stores \/ Saves \/ Forks \/ GoesOn
  BY DEF MainShape
<1>2. NoWorkerYet => \A w \in Link : ~Owning(w) /\ wpc[w] \notin Critical
  BY DEF NoWorkerYet, Owning, Working, Critical
<1>3. CASE Opens
  <2>1. \A c \in Chunk : file.info[c].status = "UPLOAD" => c \in stale
    BY <1>2, <1>3 DEF Opens, UploadHasOwner, Owning
  <2> QED
    BY <1>1, <1>2, <1>3, <2>1
       DEF Opens, StatusInv, NoDownload, MarksInv, UploadHasOwner
<1>4. CASE Creates
  BY <1>1, <1>2, <1>4, Quiet
     DEF Creates, StatusInv, NoDownload, MarksInv, UploadHasOwner
<1>5. CASE Stores
  BY <1>1, <1>2, <1>5, Quiet
     DEF Stores, StatusInv, NoDownload, MarksInv, UploadHasOwner
<1>6. CASE Saves
  BY <1>1, <1>6 DEF Saves, StatusInv, NoDownload, MarksInv, UploadHasOwner,
                    Owning
<1>7. CASE Forks
  <2>1. /\ \A v \in Link : Owning(v) => Owning(v)'
        /\ \A v \in Link : wpc'[v] \in Critical => wpc'[v] = wpc[v]
    BY <1>7 DEF Forks, Owning, Working, Critical
  <2> QED
    BY <1>1, <1>7, <2>1, MarksStay DEF Forks, StatusInv, NoDownload
<1>8. CASE GoesOn
  BY <1>1, <1>8, MarksStay DEF GoesOn, StatusInv, NoDownload, Owning
<1> QED
  BY <1>1, <1>3, <1>4, <1>5, <1>6, <1>7, <1>8

(* After a crash, and after a session, no worker is at work. *)
LEMMA CrashShape ==
    ASSUME TypeOK, Crash
    PROVE  /\ UNCHANGED <<file, snap, cur, stale>> /\ main' = "crashed"
           /\ \A w \in Link : /\ wpc'[w] \notin Critical
                              /\ wpc'[w] # "none" => wpc[w] # "none"
                              /\ wmem'[w] = InitControlData
                              /\ Owning(w) => Owning(w)'
                              /\ wpc'[w] = wpc[w] \/ wpc'[w] = "killed"
BY DEF TypeOK, Crash, diskVars, history, Owning, Alive, Working, Ended, Critical

LEMMA OverShape ==
    ASSUME SessionOver
    PROVE  \A w \in Link : wpc[w] \notin {"claim", "send", "sent", "commit"}
BY DEF SessionOver, Alive, Ended

LEMMA Ends2 ==
    ASSUME Layer2, Crash \/ Rerun \/ Status
    PROVE  StatusInv' /\ MarksInv' /\ UploadHasOwner'
<1> USE DEF Layer2, Layer1
<1>1. CASE Crash
  BY <1>1, CrashShape, MarksStay, Quiet DEF StatusInv, NoDownload
<1>2. CASE Rerun
  <2>1. /\ file' = file /\ snap' = NoCopy
        /\ stale' = {c \in Chunk : file.info[c].status = "UPLOAD"}
        /\ \A w \in Link : wpc'[w] = "none" /\ wmem'[w] = InitControlData
    BY <1>2 DEF Rerun, diskVars
  <2> QED
    BY <2>1, Quiet DEF StatusInv, NoDownload, MarksInv, UploadHasOwner, Critical
<1>3. CASE Status
  <2>1. /\ UNCHANGED <<snap, wpc, wmem, cur, stale>>
        /\ \A c \in Chunk :
              \/ file'.info[c] = file.info[c]
              \/ file'.info[c].status \in {"PENDING", "ERROR"}
    BY <1>3, StatusWrites DEF clientVars
  <2> QED
    BY <2>1, MarksStay DEF StatusInv, NoDownload, Owning
<1> QED
  BY <1>1, <1>2, <1>3

LEMMA Step2 == Layer2 /\ [Next]_vars => Layer2'
<1> SUFFICES ASSUME Layer2, [Next]_vars
             PROVE  Layer2'
  OBVIOUS
<1>1. Layer1'
  BY Step1 DEF Layer2
<1>2. StatusInv' /\ MarksInv' /\ UploadHasOwner'
  BY NextShapes, WorkerStatus, WorkerMarks, Main2, Ends2 DEF Layer2, Layer1
<1> QED
  BY <1>1, <1>2 DEF Layer2

(***************************************************************************)
(* No chunk is marked UPLOAD without a worker of this session that         *)
(* transfers it, or was killed over it, but for marks that the session     *)
(* found: although main overwrites the metadata without the semaphore.     *)
(***************************************************************************)
THEOREM MarksAreOwned == Spec => []UploadHasOwner
<1>1. Init => Layer2
  BY Init1, Init2 DEF Layer2
<1>2. Layer2 => UploadHasOwner
  BY DEF Layer2
<1> QED
  BY <1>1, <1>2, Step2, PTL DEF Spec
-----------------------------------------------------------------------------
(* Layer 3: what main's copy knows, and what a worker's copy may not lose. *)
Layer3 == Layer2 /\ SnapInv /\ ImageInv

LEMMA Init3 == Init => SnapInv /\ ImageInv
BY DEF Init, ClientInit, SnapInv, ImageInv, Opened, NoWorkerYet, Critical

LEMMA Worker3 ==
    ASSUME Layer3, NEW w \in Link, WorkerShape(w)
    PROVE  SnapInv' /\ ImageInv'
<1> USE DEF Layer3, Layer2, Layer1
<1>1. /\ UNCHANGED <<main, snap>> /\ wpc[w] # "none"
      /\ \A v \in Link \ {w} :
            wpc'[v] = wpc[v] /\ wmem'[v] = wmem[v] /\ cur'[v] = cur[v]
      /\ Claims(w) \/ Updates(w) \/ Writes(w) \/ Leaves(w) \/ Carries(w)
  BY DEF WorkerShape
<1>2. Opened' => Opened
  BY <1>1 DEF Opened, NoWorkerYet
<1>3. CASE Claims(w)
  <2>1. /\ wpc'[w] = "claim" /\ file' = file /\ cur'[w] \in Claimable(file.info)
        /\ \A v \in Link \ {w} : wpc[v] \notin Critical
    BY <1>3 DEF Claims, LockInv
  <2>2. \A c \in Chunk : c # cur'[w] => wmem'[w][c] = file.info[c]
    BY <1>3, ClaimCopy
  <2>3. ImageInv'
    BY <1>1, <2>1, <2>2 DEF ImageInv, Claimable
  <2>4. ASSUME Opened
        PROVE  cur'[w] \in Claimable(snap.info) /\ Settled(wmem'[w])
    <3>1. cur'[w] \in Claimable(snap.info)
      BY <2>1, <2>4 DEF SnapInv, Settled, Claimable
    <3> QED
      BY <2>2, <2>4, <3>1 DEF SnapInv, Settled
  <2>5. SnapInv'
    BY <1>1, <1>2, <2>1, <2>4 DEF SnapInv, Settled
  <2> QED
    BY <2>3, <2>5
<1>4. CASE Updates(w)
  <2>1. /\ wpc'[w] = "commit" /\ wpc[w] = "sent" /\ file' = file
        /\ \A v \in Link \ {w} : wpc[v] \notin Critical
    BY <1>4 DEF Updates, LockInv
  <2>2. /\ \A c \in Chunk : c # cur[w] => wmem'[w][c] = file.info[c]
        /\ wmem'[w][cur[w]].status = "OK" /\ cur'[w] = cur[w]
    BY <1>4, UpdateCopy
  <2>3. ImageInv'
    BY <1>1, <2>1, <2>2 DEF ImageInv
  <2>4. Opened => cur[w] \in Claimable(snap.info) /\ Settled(wmem'[w])
    BY <2>1, <2>2 DEF SnapInv, Settled, Working
  <2>5. SnapInv'
    BY <1>1, <1>2, <2>1, <2>2, <2>4 DEF SnapInv, Settled
  <2> QED
    BY <2>3, <2>5
<1>5. CASE Writes(w)
  <2>1. /\ wpc[w] \in Critical /\ wpc'[w] \notin Critical
        /\ wpc'[w] \in Working => wpc[w] = "claim"
        /\ file'.info = wmem[w] /\ cur'[w] = cur[w]
        /\ \A v \in Link \ {w} : wpc[v] \notin Critical
    BY <1>5 DEF Writes, LockInv, Critical, Working
  <2>2. \A v \in Link : wpc'[v] \notin Critical
    BY <1>1, <2>1
  <2>3. ImageInv'
    BY <2>2 DEF ImageInv
  <2>4. SnapInv'
    BY <1>1, <1>2, <2>1, <2>2 DEF SnapInv, Settled, Critical
  <2> QED
    BY <2>3, <2>4
<1>6. CASE Leaves(w) \/ Carries(w)
  <2>1. /\ file' = file /\ wpc'[w] \notin Critical
        /\ wpc'[w] \in Working => wpc[w] = "send" /\ cur'[w] = cur[w]
    BY <1>6 DEF Leaves, Carries, Critical, Working
  <2>2. ImageInv'
    BY <1>1, <2>1 DEF ImageInv
  <2>3. SnapInv'
    BY <1>1, <1>2, <2>1 DEF SnapInv, Settled, Working, Critical
  <2> QED
    BY <2>2, <2>3
<1> QED
  BY <1>1, <1>3, <1>4, <1>5, <1>6

LEMMA Main3 ==
    ASSUME Layer3, MainShape
    PROVE  SnapInv' /\ ImageInv'
<1> USE DEF Layer3, Layer2, Layer1
<1>1. /\ UNCHANGED <<wmem, cur>>
      /\ Opens \/ Creates \/ Stores \/ Saves \/ Forks \/ GoesOn
  BY DEF MainShape
<1>2. NoWorkerYet => \A w \in Link : wpc[w] \notin Working \cup Critical
  BY DEF NoWorkerYet, Working, Critical
<1>3. CASE Opens \/ Creates \/ Stores
  <2>1. /\ NoWorkerYet /\ UNCHANGED wpc
        /\ main' = "store" \/ snap'.info = file'.info
    BY <1>3 DEF Opens, Creates, Stores
  <2> QED
    BY <1>2, <2>1 DEF SnapInv, ImageInv, Settled, Opened, Critical
<1>4. CASE Saves
  <2>1. /\ Opened /\ UNCHANGED wpc
        /\ file'.info = snap.info /\ snap'.info = snap.info
    BY <1>4 DEF Saves, Opened
  <2>2. ImageInv'
    <3>1. ASSUME NEW w \in Link, wpc[w] \in Critical,
                 NEW c \in Chunk, snap.info[c].status = "OK"
          PROVE  wmem[w][c].status = "OK"
      BY <2>1, <3>1 DEF SnapInv, Settled, Claimable
    <3> QED
      BY <1>1, <2>1, <3>1 DEF ImageInv
  <2> QED
    BY <1>1, <2>1, <2>2 DEF SnapInv, Settled
<1>5. CASE Forks
  <2>1. /\ Opened /\ UNCHANGED <<file, snap>>
        /\ \A v \in Link : wpc'[v] \in Working \cup Critical => wpc'[v] = wpc[v]
    BY <1>5 DEF Forks, Opened, Working, Critical
  <2> QED
    BY <1>1, <2>1 DEF SnapInv, ImageInv, Settled, Critical
<1>6. CASE GoesOn
  BY <1>1, <1>6 DEF GoesOn, SnapInv, ImageInv, Settled
<1> QED
  BY <1>1, <1>3, <1>4, <1>5, <1>6

LEMMA Ends3 ==
    ASSUME Layer3, Crash \/ Rerun \/ Status
    PROVE  SnapInv' /\ ImageInv'
<1> USE DEF Layer3, Layer2, Layer1
<1>1. CASE Crash
  BY <1>1, CrashShape DEF SnapInv, ImageInv, Opened
<1>2. CASE Rerun
  <2>1. \A w \in Link : wpc'[w] = "none"
    BY <1>2 DEF Rerun
  <2>2. main' = "fork"
    BY <1>2 DEF Rerun
  <2> QED
    BY <2>1, <2>2 DEF SnapInv, ImageInv, Opened, NoWorkerYet, Critical
<1>3. CASE Status
  <2>1. /\ SessionOver /\ UNCHANGED <<main, wpc>>
    BY <1>3, StatusWrites DEF clientVars
  <2>2. main' \in Over /\ \A w \in Link : wpc'[w] \notin Critical
    BY <2>1, OverShape DEF SessionOver, Critical
  <2> QED
    BY <2>2 DEF SnapInv, ImageInv, Opened, Over
<1> QED
  BY <1>1, <1>2, <1>3

LEMMA Step3 == Layer3 /\ [Next]_vars => Layer3'
<1> SUFFICES ASSUME Layer3, [Next]_vars
             PROVE  Layer3'
  OBVIOUS
<1>1. Layer2'
  BY Step2 DEF Layer3
<1>2. SnapInv' /\ ImageInv'
  BY NextShapes, Worker3, Main3, Ends3 DEF Layer3, Layer2, Layer1
<1> QED
  BY <1>1, <1>2 DEF Layer3

(***************************************************************************)
(* Only mhstatus and main's saves take an OK away: never a worker, however *)
(* old the copy that it writes back.                                       *)
(***************************************************************************)
THEOREM OkIsNeverLost == Spec => OkIsKept
<1> DEFINE Kept == \A c \in Chunk :
              /\ file.info[c].status = "OK"
              /\ file'.info[c].status # "OK"
              => \/ SessionOver
                 \/ main = "store" /\ main' = "init"
                 \/ /\ main = "save" /\ main' = "spawn"
                    /\ snap.info[c].status # "OK"
<1>1. Layer3 /\ [Next]_vars => Kept
  <2> SUFFICES ASSUME Layer3, [Next]_vars
               PROVE  Kept
    OBVIOUS
  <2> USE DEF Layer3, Layer2, Layer1
  <2>1. ASSUME NEW w \in Link, WorkerShape(w)
        PROVE  Kept
    BY <2>1 DEF WorkerShape, Claims, Updates, Writes, Leaves, Carries, ImageInv,
                Critical
  <2>2. CASE MainShape
    BY <2>2, Quiet DEF MainShape, Opens, Creates, Stores, Saves, Forks, GoesOn
  <2>3. CASE Crash \/ Rerun \/ Status
    BY <2>3, StatusWrites DEF Crash, Rerun, diskVars
  <2> QED
    BY <2>1, <2>2, <2>3, NextShapes
<1>2. Layer3 /\ [Next]_vars => [Kept]_vars
  BY <1>1
<1>3. Init => Layer3
  BY Init1, Init2, Init3 DEF Layer2, Layer3
<1>4. Spec => [][Kept]_vars
  BY <1>2, <1>3, Step3, PTL DEF Spec
<1> QED
  BY <1>4 DEF OkIsKept
-----------------------------------------------------------------------------
(* Layer 4: when no worker is left at work, nothing is left to claim. *)
LEMMA Init4 == Init => DrainedInv
BY DEF Init, ClientInit, DrainedInv, NoWorkerYet

LEMMA Step4 ==
    ASSUME Layer1, DrainedInv, [Next]_vars
    PROVE  DrainedInv'
<1> USE DEF Layer1
<1> DEFINE Idle == /\ main \in {"fork", "wait", "finish"}
                   /\ ~NoWorkerYet
                   /\ \A w \in Link : wpc[w] \in {"none", "drained"}
<1>1. ASSUME NEW w \in Link, WorkerShape(w), Idle'
      PROVE  Claimable(file'.info) = {}
  <2>1. wpc'[w] = "drained" \/ wpc'[w] = "none"
    BY <1>1
  <2> QED
    BY <1>1, <2>1
       DEF WorkerShape, Claims, Updates, Writes, Leaves, Carries
<1>2. ASSUME MainShape, Idle'
      PROVE  Claimable(file'.info) = {}
  <2>1. CASE Opens \/ Creates \/ Stores \/ Saves
    BY <1>2, <2>1 DEF Opens, Creates, Stores, Saves
  <2>2. CASE Forks
    BY <1>2, <2>2 DEF Forks
  <2>3. CASE GoesOn
    BY <1>2, <2>3 DEF GoesOn, DrainedInv, NoWorkerYet, Claimable
  <2> QED
    BY <1>2, <2>1, <2>2, <2>3 DEF MainShape
<1>3. CASE Crash
  BY <1>3, CrashShape DEF DrainedInv
<1>4. CASE Rerun
  <2>1. \A w \in Link : wpc'[w] = "none"
    BY <1>4 DEF Rerun
  <2> QED
    BY <2>1 DEF DrainedInv, NoWorkerYet
<1>5. CASE Status
  <2>1. SessionOver /\ UNCHANGED main
    BY <1>5, StatusWrites DEF clientVars
  <2> QED
    BY <2>1 DEF DrainedInv, SessionOver, Over
<1> QED
  BY <1>1, <1>2, <1>3, <1>4, <1>5, NextShapes DEF DrainedInv

LEMMA FinishedMeansOk ==
    ASSUME SomeHost, Layer2, DrainedInv
    PROVE  FinishedIsAllOk
<1> SUFFICES ASSUME main = "finish", \A w \in Link : wpc[w] = "drained",
                    NEW c \in Chunk, file.info[c].status # "OK"
             PROVE  c \in stale
  BY DEF FinishedIsAllOk
<1>1. ~NoWorkerYet
  BY DEF SomeHost, NoWorkerYet
<1>2. c \notin Claimable(file.info)
  BY <1>1 DEF DrainedInv
<1>3. file.info[c].status = "UPLOAD"
  BY <1>2 DEF Claimable, Layer2, StatusInv, NoDownload
<1>4. \A w \in Link : wpc[w] \notin Working \cup {"killed"}
  BY DEF Working
<1> QED
  BY <1>3, <1>4 DEF Layer2, UploadHasOwner

(***************************************************************************)
(* When every worker has left for want of a chunk, and there was one, all  *)
(* the chunks are recorded OK, but for the marks of an earlier session:    *)
(* what main's saves have forgotten has been transferred again.            *)
(***************************************************************************)
THEOREM FinishedUploads ==
    ASSUME SomeHost
    PROVE  Spec => []FinishedIsAllOk
<1> DEFINE I == Layer2 /\ DrainedInv
<1>1. Init => I
  BY Init1, Init2, Init4 DEF Layer2
<1>2. I /\ [Next]_vars => I'
  BY Step2, Step4 DEF Layer2
<1>3. I => FinishedIsAllOk
  BY FinishedMeansOk
<1> QED
  BY <1>1, <1>2, <1>3, PTL DEF Spec
-----------------------------------------------------------------------------
(***************************************************************************)
(* Layer 5: what becomes of a chunk that was handed to a connection, when  *)
(* the chunk size is the one of the metadata.                              *)
(***************************************************************************)
Layer5 == Layer1 /\ AddressInv /\ SentInv

(* Chunks that were sent, by the places of the messages that carry them. *)
Carried(c) ==
    \/ remote[c] = c \/ c \in Gone
    \/ \E m \in late : m.kind = "chunk" /\ m.of = c
    \/ \E l \in Link : \E i \in 1 .. Len(chan[l]) :
          chan[l][i].kind = "chunk" /\ chan[l][i].of = c

LEMMA SentIndex ==
    ASSUME NEW c \in Chunk
    PROVE  /\ TypeOK => (c \in Sent <=> Carried(c))
           /\ TypeOK' => ((c \in Sent)' <=> Carried(c)')
<1>1. TypeOK => (c \in Sent <=> Carried(c))
  <2>1. ASSUME TypeOK, NEW l \in Link
        PROVE  c \in Whole(ToSet(chan[l])) <=>
                  \E i \in 1 .. Len(chan[l]) :
                      chan[l][i].kind = "chunk" /\ chan[l][i].of = c
    BY <2>1, WholeIndex DEF TypeOK, LinkTypeOK
  <2>2. c \in Whole(late) <=> \E m \in late : m.kind = "chunk" /\ m.of = c
    BY DEF Whole
  <2> QED
    BY <2>1, <2>2 DEF Sent, InFlight, Carried
<1>2. TypeOK' => ((c \in Sent)' <=> Carried(c)')
  <2>1. ASSUME TypeOK', NEW l \in Link
        PROVE  c \in Whole(ToSet(chan'[l])) <=>
                  \E i \in 1 .. Len(chan'[l]) :
                      chan'[l][i].kind = "chunk" /\ chan'[l][i].of = c
    BY <2>1, WholeIndex DEF TypeOK, LinkTypeOK
  <2>2. c \in Whole(late') <=> \E m \in late' : m.kind = "chunk" /\ m.of = c
    BY DEF Whole
  <2> QED
    BY <2>1, <2>2 DEF Sent, InFlight, Carried
<1> QED
  BY <1>1, <1>2

(* Every chunk keeps its place, and none that was sent is forgotten. *)
Keeps == AddressInv' /\ \A c \in Chunk : Carried(c) => Carried(c)'

Known == Layer1 /\ TypeOK' /\ AddressInv

LEMMA KeepsStill ==
    ASSUME Known, UNCHANGED <<scale, chan, remote, late, lost, spoilt>>
    PROVE  Keeps
BY DEF Known, Keeps, AddressInv, Carried, Gone

LEMMA KeepsSending ==
    ASSUME Known, NEW l \in Link, NEW m \in Message, m.at = m.of, Send(l, m),
           UNCHANGED <<scale, remote, late>>,
           \A c \in Gone : \/ c \in Gone'
                           \/ conn[l] = "up" /\ m.kind = "chunk" /\ m.of = c
    PROVE  Keeps
<1> USE DEF Known, Layer1
<1>1. /\ \A k \in Link : k # l => chan'[k] = chan[k]
      /\ chan'[l] = IF conn[l] = "up" THEN Append(chan[l], m) ELSE chan[l]
      /\ chan[l] \in Seq(Message)
  BY SendEffect DEF TypeOK, LinkTypeOK
<1>2. CASE conn[l] # "up"
  BY <1>1, <1>2 DEF Keeps, AddressInv, Carried
<1>3. CASE conn[l] = "up"
  <2>1. /\ Len(chan'[l]) = Len(chan[l]) + 1 /\ Len(chan[l]) \in Nat
        /\ chan'[l][Len(chan[l]) + 1] = m
        /\ \A i \in 1 .. Len(chan[l]) : chan'[l][i] = chan[l][i]
    BY <1>1, <1>3, AppendIndex
  <2>2. AddressInv'
    <3>1. ASSUME NEW i \in 1 .. Len(chan'[l])
          PROVE  chan'[l][i].at = chan'[l][i].of
      <4>1. i \in 1 .. Len(chan[l]) \/ i = Len(chan[l]) + 1
        BY <2>1
      <4> QED
        BY <2>1, <4>1 DEF AddressInv
    <3>2. ASSUME NEW k \in Link, k # l, NEW i \in 1 .. Len(chan'[k])
          PROVE  chan'[k][i].at = chan'[k][i].of
      BY <1>1, <3>2 DEF AddressInv
    <3> QED
      BY <3>1, <3>2 DEF AddressInv
  <2>3. ASSUME NEW c \in Chunk, Carried(c)
        PROVE  Carried(c)'
    <3>1. CASE remote[c] = c \/ \E n \in late : n.kind = "chunk" /\ n.of = c
      BY <3>1 DEF Carried
    <3>2. CASE c \in Gone
      <4>1. CASE c \in Gone'
        BY <4>1 DEF Carried
      <4>2. CASE m.kind = "chunk" /\ m.of = c
        BY <2>1, <4>2 DEF Carried
      <4> QED
        BY <3>2, <4>1, <4>2
    <3>3. ASSUME NEW k \in Link, NEW i \in 1 .. Len(chan[k]),
                 chan[k][i].kind = "chunk" /\ chan[k][i].of = c
          PROVE  Carried(c)'
      <4>1. i \in 1 .. Len(chan'[k]) /\ chan'[k][i] = chan[k][i]
        <5>1. CASE k = l
          BY <2>1, <5>1
        <5>2. CASE k # l
          BY <1>1, <5>2
        <5> QED
          BY <5>1, <5>2
      <4> QED
        BY <3>3, <4>1 DEF Carried
    <3> QED
      BY <2>3, <3>1, <3>2, <3>3 DEF Carried
  <2> QED
    BY <2>2, <2>3 DEF Keeps
<1> QED
  BY <1>2, <1>3

(* A client that dies while it writes leaves the beginning of a chunk. *)
LEMMA KeepsTearing ==
    ASSUME Known, NEW torn \in SUBSET Link,
           \A l \in torn : cur[l] \in Chunk,
           \A l \in Link : chan'[l] =
               IF l \in torn THEN Append(chan[l], Torn(l, chan[l], Sending(l)))
                             ELSE chan[l],
           Gone \subseteq Gone', UNCHANGED <<scale, remote, late>>
    PROVE  Keeps
<1> USE DEF Known, Layer1
<1>1. ASSUME NEW l \in torn
      PROVE  /\ Torn(l, chan[l], Sending(l)) \in Message
             /\ Torn(l, chan[l], Sending(l)).at = Torn(l, chan[l], Sending(l)).of
  <2>1. /\ Sending(l) \in Message /\ Sending(l).kind = "chunk"
        /\ Sending(l).of = cur[l] /\ Sending(l).at = cur[l] * scale
    BY SendingType
  <2>2. cur[l] * scale = cur[l]
    BY ChunksAssumption DEF AddressInv, Chunk
  <2> QED
    BY <2>1, <2>2, TornType
<1>2. ASSUME NEW l \in Link
      PROVE  /\ \A i \in 1 .. Len(chan'[l]) : chan'[l][i].at = chan'[l][i].of
             /\ \A i \in 1 .. Len(chan[l]) :
                   i \in 1 .. Len(chan'[l]) /\ chan'[l][i] = chan[l][i]
  <2>1. chan[l] \in Seq(Message) /\ Len(chan[l]) \in Nat
    BY DEF TypeOK, LinkTypeOK
  <2>2. CASE l \notin torn
    BY <2>2 DEF AddressInv
  <2>3. CASE l \in torn
    <3> DEFINE m == Torn(l, chan[l], Sending(l))
    <3>1. m \in Message /\ m.at = m.of /\ chan'[l] = Append(chan[l], m)
      BY <1>1, <2>3
    <3> HIDE DEF m
    <3>2. /\ Len(chan'[l]) = Len(chan[l]) + 1
          /\ chan'[l][Len(chan[l]) + 1] = m
          /\ \A i \in 1 .. Len(chan[l]) : chan'[l][i] = chan[l][i]
      BY <2>1, <3>1, AppendIndex
    <3> QED
      BY <2>1, <3>1, <3>2 DEF AddressInv
  <2> QED
    BY <2>2, <2>3
<1>3. AddressInv'
  BY <1>2 DEF AddressInv
<1>4. \A c \in Chunk : Carried(c) => Carried(c)'
  BY <1>2 DEF Carried
<1> QED
  BY <1>3, <1>4 DEF Keeps

(* A write of the server puts a chunk in its place, or spoils some. *)
LEMMA KeepsWriting ==
    ASSUME TypeOK, NEW m \in Message, NEW c \in Chunk
    PROVE  /\ m.kind = "chunk" /\ m.at = m.of /\ WriteChunk(m) =>
                 /\ remote'[m.of] = m.of
                 /\ remote[c] = c => remote'[c] = c
           /\ WriteTorn(m) =>
                 /\ c \in Gone => c \in Gone'
                 /\ remote[c] = c => remote'[c] = c \/ c \in Gone'
<1>1. m.kind = "chunk" => m.of \in Chunk
  BY DEF Message, Chunked
<1>2. m.kind = "chunk" /\ m.at = m.of /\ WriteChunk(m) =>
        /\ remote'[m.of] = m.of
        /\ remote[c] = c => remote'[c] = c
  BY <1>1 DEF WriteChunk
<1>3. WriteTorn(m) => /\ c \in Gone => c \in Gone'
                      /\ remote[c] = c => remote'[c] = c \/ c \in Gone'
  BY DEF WriteTorn, Gone
<1> QED
  BY <1>2, <1>3

LEMMA KeepsReading ==
    ASSUME Known, NEW l \in Link, ServerStep(l)
    PROVE  Keeps
<1> USE DEF Known, Layer1
<1>0. UNCHANGED <<scale, conn, late>>
  BY DEF ServerStep, NoServer, history, SrvStep, SrvRcvCmd, SrvRcvChunk,
         SrvRcvTorn, SrvRcvEnd, SrvExit
<1>t. /\ chan \in [Link -> Seq(Message)] /\ chan[l] \in Seq(Message)
      /\ Len(chan[l]) \in Nat
  BY DEF TypeOK, LinkTypeOK
<1>1. ASSUME chan[l] # <<>>, chan' = [chan EXCEPT ![l] = Tail(@)],
             UNCHANGED <<lost, spoilt>>,
             \A c \in Chunk : remote[c] = c => remote'[c] = c,
             Head(chan[l]).kind = "chunk" =>
                 remote'[Head(chan[l]).of] = Head(chan[l]).of
      PROVE  Keeps
  <2>1. /\ Head(chan[l]) = chan[l][1] /\ Len(chan'[l]) = Len(chan[l]) - 1
        /\ \A i \in 1 .. Len(chan[l]) - 1 : chan'[l][i] = chan[l][i + 1]
        /\ \A k \in Link \ {l} : chan'[k] = chan[k]
    BY <1>t, <1>1, TailIndex
  <2>2. ASSUME NEW i \in 1 .. Len(chan'[l])
        PROVE  chan'[l][i].at = chan'[l][i].of
    <3>1. i + 1 \in 1 .. Len(chan[l]) /\ chan'[l][i] = chan[l][i + 1]
      BY <1>t, <2>1
    <3> QED
      BY <3>1 DEF AddressInv
  <2>3. AddressInv'
    BY <1>0, <2>1, <2>2 DEF AddressInv
  <2>4. ASSUME NEW c \in Chunk, NEW k \in Link, NEW i \in 1 .. Len(chan[k]),
               chan[k][i].kind = "chunk" /\ chan[k][i].of = c
        PROVE  Carried(c)'
    <3>1. CASE k # l
      BY <2>1, <2>4, <3>1 DEF Carried
    <3>2. CASE k = l /\ i = 1
      BY <1>1, <2>1, <2>4, <3>2 DEF Carried
    <3>3. CASE k = l /\ i # 1
      <4>1. i - 1 \in 1 .. Len(chan'[l]) /\ chan'[l][i - 1] = chan[l][i]
        BY <1>t, <2>1, <3>3
      <4> QED
        BY <2>4, <3>3, <4>1 DEF Carried
    <3> QED
      BY <3>1, <3>2, <3>3
  <2>5. ASSUME NEW c \in Chunk, Carried(c)
        PROVE  Carried(c)'
    BY <1>0, <1>1, <2>4, <2>5 DEF Carried, Gone
  <2> QED
    BY <2>3, <2>5 DEF Keeps
<1>2. CASE SrvRcvCmd(l) \/ SrvRcvEnd(l)
  <2>1. /\ chan[l] # <<>> /\ Head(chan[l]).kind # "chunk"
        /\ chan' = [chan EXCEPT ![l] = Tail(@)] /\ UNCHANGED <<remote, lost, spoilt>>
    BY <1>2 DEF SrvRcvCmd, SrvRcvEnd
  <2> QED
    BY <1>1, <2>1
<1>3. CASE SrvRcvChunk(l)
  <2> DEFINE m == Head(chan[l])
  <2>1. /\ chan[l] # <<>> /\ m.kind = "chunk" /\ WriteChunk(m)
        /\ UNCHANGED <<lost, spoilt>>
        /\ chan' = [chan EXCEPT ![l] = Tail(@)]
    BY <1>3 DEF SrvRcvChunk
  <2>2. m \in Message /\ m.at = m.of /\ m.of \in Chunk
    <3>1. /\ m \in Message /\ m = chan[l][1] /\ Len(chan[l]) \in Nat \ {0}
      BY <1>t, <2>1, TailIndex
    <3>2. m.at = m.of
      BY <3>1 DEF AddressInv
    <3> QED
      BY <2>1, <3>1, <3>2 DEF Message, Chunked
  <2>3. /\ remote'[m.of] = m.of
        /\ \A c \in Chunk : remote[c] = c => remote'[c] = c
    BY <2>1, <2>2, KeepsWriting
  <2> QED
    BY <1>1, <2>1, <2>3
<1>4. CASE SrvRcvTorn(l)
  <2> DEFINE m == Head(chan[l])
  <2>1. /\ chan[l] # <<>> /\ IsTorn(m) /\ WriteTorn(m)
        /\ chan' = [chan EXCEPT ![l] = <<>>]
    BY <1>4 DEF SrvRcvTorn, IsTorn
  <2>2. /\ m \in Message /\ m = chan[l][1] /\ Len(chan[l]) \in Nat \ {0}
    BY <1>t, <2>1, TailIndex
  <2>3. Len(chan[l]) = 1 /\ chan[l][1].kind # "chunk"
    <3>1. IsTorn(chan[l][1]) /\ 1 \in 1 .. Len(chan[l])
      BY <2>1, <2>2
    <3> QED
      BY <3>1 DEF QueueInv, IsTorn
  <2>4. /\ \A k \in Link \ {l} : chan'[k] = chan[k]
        /\ Len(chan'[l]) = 0
    BY <1>t, <2>1
  <2>5. AddressInv'
    BY <1>0, <2>4 DEF AddressInv
  <2>6. ASSUME NEW c \in Chunk
        PROVE  /\ c \in Gone => c \in Gone'
               /\ remote[c] = c => remote'[c] = c \/ c \in Gone'
    BY <2>1, <2>2, KeepsWriting
  <2>7. ASSUME NEW c \in Chunk, NEW k \in Link, NEW i \in 1 .. Len(chan[k]),
               chan[k][i].kind = "chunk" /\ chan[k][i].of = c
        PROVE  Carried(c)'
    <3>1. k # l
      BY <2>3, <2>7
    <3> QED
      BY <2>4, <2>7, <3>1 DEF Carried
  <2> QED
    BY <1>0, <2>5, <2>6, <2>7 DEF Keeps, Carried
<1>5. CASE SrvExit(l)
  BY <1>0, <1>5, KeepsStill DEF SrvExit
<1> QED
  BY <1>2, <1>3, <1>4, <1>5 DEF ServerStep, SrvStep

LEMMA KeepsLate ==
    ASSUME Known, LateStep
    PROVE  Keeps
<1> USE DEF Known, Layer1
<1>1. PICK m \in late : SrvLate(m)
  BY DEF LateStep
<1>2. /\ m \in Message /\ m.at = m.of
      /\ late' = late \ {m} /\ UNCHANGED <<chan, scale>>
  BY <1>1 DEF TypeOK, LinkTypeOK, AddressInv, SrvLate, LateStep, NoServer,
              history
<1>3. AddressInv'
  BY <1>2 DEF AddressInv
<1>4. CASE m.kind = "chunk"
  <2>1. WriteChunk(m) /\ UNCHANGED <<lost, spoilt>>
    BY <1>1, <1>4 DEF SrvLate
  <2>2. m.of \in Chunk
    BY <1>2, <1>4 DEF Message, Chunked
  <2>3. /\ remote'[m.of] = m.of
        /\ \A c \in Chunk : remote[c] = c => remote'[c] = c
    BY <1>2, <1>4, <2>1, <2>2, KeepsWriting
  <2> QED
    BY <1>2, <1>3, <2>1, <2>3 DEF Keeps, Carried, Gone
<1>5. CASE m.kind # "chunk"
  <2>1. WriteTorn(m)
    BY <1>1, <1>5 DEF SrvLate
  <2>2. \A c \in Chunk : /\ c \in Gone => c \in Gone'
                         /\ remote[c] = c => remote'[c] = c \/ c \in Gone'
    BY <1>2, <2>1, KeepsWriting
  <2> QED
    BY <1>2, <1>3, <1>5, <2>2 DEF Keeps, Carried
<1> QED
  BY <1>4, <1>5

LEMMA KeepsBreaking ==
    ASSUME Known, NEW l \in Link, LinkBreaks(l)
    PROVE  Keeps
<1> USE DEF Known, Layer1
<1>1. LinkFail(l) /\ UNCHANGED <<scale, remote, late, spoilt>>
  BY DEF LinkBreaks, LinkFail, NoServer, history
<1>t. chan \in [Link -> Seq(Message)] /\ Len(chan[l]) \in Nat
  BY DEF TypeOK, LinkTypeOK
<1> DEFINE rest(n) == SubSeq(chan[l], n + 1, Len(chan[l]))
<1>2. PICK n \in 0 .. Len(chan[l]) :
        /\ chan'[l] \in Seq(Message)
        /\ \A i \in 1 .. n : chan'[l][i] = chan[l][i]
        /\ \/ Len(chan'[l]) = n
           \/ /\ Len(chan'[l]) = n + 1 /\ n < Len(chan[l])
              /\ chan'[l][n + 1].at = chan[l][n + 1].at
              /\ chan'[l][n + 1].of = chan[l][n + 1].of
        /\ rest(n) \in Seq(Message)
        /\ lost' = lost \cup Whole(ToSet(rest(n)))
  BY <1>1, CutEffect
<1>3. /\ Len(rest(n)) = Len(chan[l]) - n
      /\ \A i \in 1 .. Len(chan[l]) - n : rest(n)[i] = chan[l][n + i]
  BY <1>t, CutIndex
<1>4. \A k \in Link \ {l} : chan'[k] = chan[k]
  BY <1>1, <1>t DEF LinkFail
<1>5. AddressInv'
  <2>1. ASSUME NEW i \in 1 .. Len(chan'[l])
        PROVE  chan'[l][i].at = chan'[l][i].of
    <3>1. CASE i \in 1 .. n
      <4>1. i \in 1 .. Len(chan[l])
        BY <1>t, <3>1
      <4> QED
        BY <1>2, <3>1, <4>1, SMTT(30) DEF AddressInv
    <3>2. CASE i \notin 1 .. n
      <4>1. /\ i = n + 1 /\ n + 1 \in 1 .. Len(chan[l])
            /\ chan'[l][n + 1].at = chan[l][n + 1].at
            /\ chan'[l][n + 1].of = chan[l][n + 1].of
        BY <1>2, <1>t, <3>2
      <4> QED
        BY <4>1 DEF AddressInv
    <3> QED
      BY <3>1, <3>2
  <2> QED
    BY <1>1, <1>4, <2>1 DEF AddressInv
<1>6. ASSUME NEW c \in Chunk, NEW k \in Link, NEW i \in 1 .. Len(chan[k]),
             chan[k][i].kind = "chunk" /\ chan[k][i].of = c
      PROVE  Carried(c)'
  <2>1. CASE k # l
    BY <1>4, <1>6, <2>1 DEF Carried
  <2>2. CASE k = l /\ i <= n
    <3>1. i \in 1 .. n /\ i \in 1 .. Len(chan'[l])
      BY <1>2, <1>t, <2>2
    <3> QED
      BY <1>2, <1>6, <2>2, <3>1 DEF Carried
  <2>3. CASE k = l /\ i > n
    <3>1. /\ i - n \in 1 .. Len(rest(n)) /\ rest(n)[i - n] = chan[l][n + (i - n)]
          /\ n + (i - n) = i
      BY <1>3, <1>t, <2>3, SMTT(30)
    <3> HIDE DEF rest
    <3>2. c \in Whole(ToSet(rest(n)))
      BY <1>2, <1>6, <2>3, <3>1, WholeIndex
    <3> QED
      BY <1>2, <3>2 DEF Carried, Gone
  <2> QED
    BY <1>t, <2>1, <2>2, <2>3
<1>7. \A c \in Chunk : Carried(c) => Carried(c)'
  BY <1>1, <1>2, <1>6, SMTT(30) DEF Carried, Gone
<1> QED
  BY <1>5, <1>7 DEF Keeps

LEMMA KeepsRerun ==
    ASSUME ChunkSizeKept, Known, Rerun
    PROVE  Keeps
<1> USE DEF Known, Layer1
<1>1. /\ scale' = 1 /\ UNCHANGED <<remote, lost, spoilt>>
      /\ \A l \in Link : chan'[l] = <<>>
      /\ late' = late \cup {m \in UNION {ToSet(chan[l]) : l \in Link} :
                               m.kind \in Chunked}
  BY DEF Rerun, ChunkSizeKept
<1>2. ASSUME NEW l \in Link
      PROVE  /\ \A m \in ToSet(chan[l]) : m.at = m.of
             /\ \A i \in 1 .. Len(chan[l]) : chan[l][i] \in ToSet(chan[l])
  <2>1. chan[l] \in Seq(Message) /\ DOMAIN chan[l] = 1 .. Len(chan[l])
    BY DEF TypeOK, LinkTypeOK
  <2> QED
    BY <2>1 DEF AddressInv, ToSet
<1>3. AddressInv'
  <2>1. Len(<<>>) = 0
    OBVIOUS
  <2> QED
    BY <1>1, <1>2, <2>1 DEF AddressInv
<1>4. ASSUME NEW c \in Chunk, NEW k \in Link, NEW i \in 1 .. Len(chan[k]),
             chan[k][i].kind = "chunk" /\ chan[k][i].of = c
      PROVE  Carried(c)'
  <2>1. chan[k][i] \in late'
    BY <1>1, <1>2, <1>4 DEF Chunked
  <2> QED
    BY <1>4, <2>1 DEF Carried
<1>5. \A c \in Chunk : Carried(c) => Carried(c)'
  BY <1>1, <1>4 DEF Carried, Gone
<1> QED
  BY <1>3, <1>5 DEF Keeps

LEMMA KeepsMain ==
    ASSUME Known, MainStep \/ MonitorTurn \/ Sigint
    PROVE  Keeps
<1> USE DEF Known, Layer1
<1>1. CASE InitUploadOnServer
  <2>1. /\ Send(next, Msg("init")) /\ UNCHANGED <<scale, remote, late, lost, spoilt>>
        /\ next \in Link
    BY <1>1 DEF InitUploadOnServer, history, TurnInv, Forking
  <2>2. Msg("init") \in Message /\ Msg("init").at = Msg("init").of
    BY MessageType DEF Msg
  <2> QED
    BY <2>1, <2>2, KeepsSending DEF Gone
<1>2. CASE ~InitUploadOnServer
  <2>1. UNCHANGED <<scale, chan, remote, late, lost, spoilt>>
    BY <1>2 DEF MainStep, MonitorTurn, Sigint, Announce, OpenMetadata, StoreArray,
                MainSave, ForkWorker, ForkMonitor, MainFinish, MainEnd,
                HandlerWaited, linkVars, history
  <2> QED
    BY <2>1, KeepsStill
<1> QED
  BY <1>1, <1>2

LEMMA KeepsWorking ==
    ASSUME Known, NEW w \in Link, WorkerStep(w)
    PROVE  Keeps
<1> USE DEF Known, Layer1
<1>1. CASE SendChunk(w)
  <2>1. cur[w] \in Chunk /\ cur[w] * scale = cur[w]
    BY <1>1, ChunksAssumption
       DEF SendChunk, ChunkInv, Working, AddressInv, Chunk
  <2>2. /\ Sending(w) \in Message /\ Sending(w).kind = "chunk"
        /\ Sending(w).of = cur[w] /\ Sending(w).at = cur[w]
    BY <2>1, SendingType
  <2>3. /\ Send(w, Sending(w)) /\ UNCHANGED <<scale, remote, late>>
        /\ lost' = IF conn[w] = "up" THEN lost \ {cur[w]} ELSE lost \cup {cur[w]}
        /\ spoilt' = IF conn[w] = "up" THEN spoilt \ {cur[w]} ELSE spoilt
    BY <1>1 DEF SendChunk, history
  <2>4. \A c \in Gone : \/ c \in Gone'
                        \/ conn[w] = "up" /\ Sending(w).of = c
    BY <2>2, <2>3 DEF Gone
  <2> QED
    BY <2>2, <2>3, <2>4, KeepsSending
<1>2. ASSUME NEW k \in {"upload", "end"}, Send(w, Msg(k)),
             UNCHANGED <<scale, remote, late, lost, spoilt>>
      PROVE  Keeps
  <2>1. Msg(k) \in Message /\ Msg(k).at = Msg(k).of
    BY <1>2, MessageType DEF Msg
  <2> QED
    BY <1>2, <2>1, KeepsSending DEF Gone
<1>3. CASE WorkerStart(w)
  <2>1. CASE UNCHANGED chan
    BY <1>3, <2>1, KeepsStill DEF WorkerStart, history
  <2>2. CASE Send(w, Msg("upload"))
    BY <1>2, <1>3, <2>2 DEF WorkerStart, history
  <2> QED
    BY <1>3, <2>1, <2>2 DEF WorkerStart
<1>4. CASE AcquireAndLeave(w)
  BY <1>2, <1>4 DEF AcquireAndLeave, history
<1>5. CASE \/ AcquireForClaim(w) \/ CommitClaim(w) \/ BrokenPipe(w)
           \/ AcquireForUpdate(w) \/ CommitUpdate(w)
  <2>1. UNCHANGED <<scale, chan, remote, late, lost, spoilt>>
    BY <1>5 DEF AcquireForClaim, CommitClaim, BrokenPipe, AcquireForUpdate,
                CommitUpdate, linkVars, history
  <2> QED
    BY <2>1, KeepsStill
<1> QED
  BY <1>1, <1>3, <1>4, <1>5 DEF WorkerStep

LEMMA KeepsDying ==
    ASSUME Known,
           (\E w \in Link : WorkerKilled(w) \/ LastWrite(w)) \/ Crash
    PROVE  Keeps
<1> USE DEF Known, Layer1
<1>t. chan \in [Link -> Seq(Message)]
  BY DEF TypeOK, LinkTypeOK
<1>1. ASSUME NEW w \in Link, WorkerKilled(w)
      PROVE  Keeps
  <2>1. CASE UNCHANGED <<chan, lost>>
    BY <1>1, <2>1, KeepsStill DEF WorkerKilled, history
  <2>2. CASE /\ wpc[w] = "send"
             /\ chan' = [chan EXCEPT ![w] =
                           Append(@, Torn(w, @, Sending(w)))]
             /\ lost' = lost \cup {cur[w]}
    <3>1. cur[w] \in Chunk /\ {w} \in SUBSET Link
      BY <2>2 DEF ChunkInv, Working
    <3>2. \A l \in Link : chan'[l] =
             IF l \in {w} THEN Append(chan[l], Torn(l, chan[l], Sending(l)))
                          ELSE chan[l]
      BY <1>t, <2>2
    <3>3. UNCHANGED <<scale, remote, late>> /\ Gone \subseteq Gone'
      BY <1>1, <2>2 DEF WorkerKilled, history, Gone
    <3>4. \A l \in {w} : cur[l] \in Chunk
      BY <3>1
    <3> QED
      BY <3>1, <3>2, <3>3, <3>4, KeepsTearing
  <2> QED
    BY <1>1, <2>1, <2>2 DEF WorkerKilled, Killed
<1>2. ASSUME NEW w \in Link, LastWrite(w)
      PROVE  Keeps
  BY <1>2, KeepsStill DEF LastWrite, linkVars, history
<1>3. CASE Crash
  <2>1. PICK torn \in SUBSET {w \in Link : wpc[w] = "send" /\ conn[w] = "up"} :
          /\ chan' = [l \in Link |->
                        IF l \in torn
                        THEN Append(chan[l], Torn(l, chan[l], Sending(l)))
                        ELSE chan[l]]
          /\ lost' = lost \cup {cur[w] : w \in torn}
    BY <1>3 DEF Crash
  <2>2. \A l \in torn : cur[l] \in Chunk
    BY DEF ChunkInv, Working
  <2>3. UNCHANGED <<scale, remote, late, spoilt>>
    BY <1>3 DEF Crash, history
  <2>4. torn \in SUBSET Link /\ Gone \subseteq Gone'
    BY <2>1, <2>3 DEF Gone
  <2> QED
    BY <2>1, <2>2, <2>3, <2>4, KeepsTearing
<1> QED
  BY <1>1, <1>2, <1>3

LEMMA KeepsNext ==
    ASSUME ChunkSizeKept, Known, [Next]_vars
    PROVE  Keeps
<1>1. CASE UNCHANGED vars
  BY <1>1, KeepsStill DEF vars, linkVars, history
<1>2. CASE CloseConnections
  BY <1>2, KeepsStill DEF CloseConnections, history
<1>3. CASE Status
  BY <1>3, StatusWrites, KeepsStill DEF linkVars, Known, Layer1
<1> QED
  BY <1>1, <1>2, <1>3, KeepsMain, KeepsWorking, KeepsDying, KeepsReading,
     KeepsLate, KeepsBreaking, KeepsRerun DEF Next

(* What a worker has just sent is sent, or lost. *)
LEMMA SendingSends ==
    ASSUME Known, NEW w \in Link, SendChunk(w)
    PROVE  Carried(cur[w])'
<1> USE DEF Known, Layer1
<1>1. cur[w] \in Chunk /\ chan[w] \in Seq(Message)
  BY DEF SendChunk, ChunkInv, Working, TypeOK, LinkTypeOK
<1>2. Sending(w) \in Message /\ Sending(w).kind = "chunk"
      /\ Sending(w).of = cur[w]
  BY <1>1, SendingType
<1>3. /\ Send(w, Sending(w)) /\ cur' = cur
      /\ lost' = IF conn[w] = "up" THEN lost \ {cur[w]} ELSE lost \cup {cur[w]}
  BY DEF SendChunk
<1>4. CASE conn[w] # "up"
  BY <1>3, <1>4 DEF Carried, Gone
<1>5. CASE conn[w] = "up"
  <2>1. chan'[w] = Append(chan[w], Sending(w))
    BY <1>2, <1>3, <1>5, SendEffect
  <2>2. /\ Len(chan[w]) + 1 \in 1 .. Len(chan'[w])
        /\ chan'[w][Len(chan[w]) + 1] = Sending(w)
    BY <1>1, <1>2, <2>1, AppendIndex
  <2> QED
    BY <1>2, <1>3, <2>2 DEF Carried
<1> QED
  BY <1>4, <1>5

LEMMA BlankCopies ==
    \A c \in Chunk :
        /\ NoCopy.info[c] # [md5sum |-> JunkDigest, status |-> "OK"]
        /\ ArrayMissing.info[c] # [md5sum |-> JunkDigest, status |-> "OK"]
        /\ InitControlData[c] # [md5sum |-> JunkDigest, status |-> "OK"]
<1>1. ZeroDigest # JunkDigest
  <2>1. ZeroDigest.of = -2 /\ JunkDigest.of = -3
    BY DEF ZeroDigest, JunkDigest
  <2> QED
    BY <2>1
<1> QED
  BY <1>1 DEF NoCopy, ArrayMissing, InitControlData

LEMMA Init5 == Init => AddressInv /\ SentInv
<1>1. Len(<<>>) = 0
  OBVIOUS
<1> QED
  BY <1>1, BlankCopies
     DEF Init, LinkInit, ClientInit, AddressInv, SentInv, SentCopy, NoCopy

LEMMA Worker5 ==
    ASSUME Layer5, TypeOK', NEW w \in Link, WorkerShape(w),
           \A c \in Chunk : c \in Sent => (c \in Sent)'
    PROVE  SentInv'
<1> USE DEF Layer5, Layer1
<1> DEFINE Junk == [md5sum |-> JunkDigest, status |-> "OK"]
<1>1. /\ UNCHANGED snap
      /\ \A v \in Link \ {w} :
            wpc'[v] = wpc[v] /\ wmem'[v] = wmem[v] /\ cur'[v] = cur[v]
      /\ Claims(w) \/ Updates(w) \/ Writes(w) \/ Leaves(w) \/ Carries(w)
  BY DEF WorkerShape
<1>2. /\ \A c \in Chunk : file.info[c] = Junk => (c \in Sent)'
      /\ \A c \in Chunk : snap.info[c] = Junk => (c \in Sent)'
      /\ \A v \in Link : \A c \in Chunk : wmem[v][c] = Junk => (c \in Sent)'
  BY DEF SentInv, SentCopy
<1>3. \A c \in Chunk : file'.info[c] = Junk => (c \in Sent)'
  BY <1>1, <1>2 DEF Claims, Updates, Writes, Leaves, Carries
<1>4. /\ \A c \in Chunk : wmem'[w][c] = Junk => (c \in Sent)'
      /\ wpc'[w] \in {"sent", "commit"} => (cur[w] \in Sent)' /\ cur'[w] = cur[w]
  <2>1. CASE Claims(w)
    <3>1. \A c \in Chunk : wmem'[w][c] = Junk => file.info[c] = Junk
      BY <2>1, ClaimCopy
    <3> QED
      BY <1>2, <2>1, <3>1 DEF Claims
  <2>2. CASE Updates(w)
    <3>1. cur[w] \in Chunk /\ cur'[w] = cur[w]
      BY <2>2, UpdateCopy
    <3>2. (cur[w] \in Sent)'
      BY <2>2, <3>1 DEF Updates, SentInv
    <3>3. \A c \in Chunk : c # cur[w] => wmem'[w][c] = file.info[c]
      BY <2>2, UpdateCopy
    <3> QED
      BY <1>2, <3>1, <3>2, <3>3
  <2>3. CASE Writes(w) \/ Leaves(w)
    BY <1>2, <2>3, BlankCopies DEF Writes, Leaves
  <2>4. CASE Carries(w)
    <3>1. \A c \in Chunk : wmem'[w][c] = Junk => (c \in Sent)'
      BY <1>2, <2>4, BlankCopies DEF Carries
    <3>2. SendChunk(w) => (cur[w] \in Sent)' /\ cur'[w] = cur[w]
      <4> SUFFICES ASSUME SendChunk(w)
                   PROVE  (cur[w] \in Sent)' /\ cur'[w] = cur[w]
        OBVIOUS
      <4>1. cur' = cur /\ cur[w] \in Chunk
        BY DEF SendChunk, ChunkInv, Working
      <4>2. Carried(cur[w])'
        BY SendingSends DEF Known
      <4> DEFINE c == cur[w]
      <4>3. c \in Chunk /\ Carried(c)'
        BY <4>1, <4>2
      <4> QED
        BY <4>1, <4>2, SentIndex
    <3> QED
      BY <2>4, <3>1, <3>2 DEF Carries
  <2> QED
    BY <1>1, <2>1, <2>2, <2>3, <2>4
<1>5. ASSUME NEW v \in Link, v # w, wpc'[v] \in {"sent", "commit"}
      PROVE  cur'[v] = cur[v] /\ (cur[v] \in Sent)'
  BY <1>1, <1>5 DEF SentInv, ChunkInv, Working
<1> QED
  BY <1>1, <1>2, <1>3, <1>4, <1>5 DEF SentInv, SentCopy

LEMMA Main5 ==
    ASSUME Layer5, MainShape, \A c \in Chunk : c \in Sent => (c \in Sent)'
    PROVE  SentInv'
<1> USE DEF Layer5, Layer1
<1> DEFINE Junk == [md5sum |-> JunkDigest, status |-> "OK"]
<1>1. /\ UNCHANGED <<wmem, cur>>
      /\ Opens \/ Creates \/ Stores \/ Saves \/ Forks \/ GoesOn
  BY DEF MainShape
<1>2. /\ \A c \in Chunk : file.info[c] = Junk => (c \in Sent)'
      /\ \A c \in Chunk : snap.info[c] = Junk => (c \in Sent)'
      /\ \A v \in Link : \A c \in Chunk : wmem[v][c] = Junk => (c \in Sent)'
  BY DEF SentInv, SentCopy
<1>3. /\ \A c \in Chunk : file'.info[c] = Junk => (c \in Sent)'
      /\ \A c \in Chunk : snap'.info[c] = Junk => (c \in Sent)'
  BY <1>1, <1>2, BlankCopies DEF Opens, Creates, Stores, Saves, Forks, GoesOn
<1>4. ASSUME NEW v \in Link, wpc'[v] \in {"sent", "commit"}
      PROVE  cur[v] \in Chunk /\ cur[v] \in Sent
  <2>1. wpc[v] \in {"sent", "commit"}
    BY <1>1, <1>4 DEF Opens, Creates, Stores, Saves, Forks, GoesOn
  <2> QED
    BY <2>1 DEF SentInv, ChunkInv, Working
<1> QED
  BY <1>1, <1>2, <1>3, <1>4 DEF SentInv, SentCopy

LEMMA Ends5 ==
    ASSUME Layer5, Crash \/ Rerun \/ Status,
           \A c \in Chunk : c \in Sent => (c \in Sent)'
    PROVE  SentInv'
<1> USE DEF Layer5, Layer1
<1> DEFINE Junk == [md5sum |-> JunkDigest, status |-> "OK"]
<1>1. /\ \A c \in Chunk : file.info[c] = Junk => (c \in Sent)'
      /\ \A c \in Chunk : snap.info[c] = Junk => (c \in Sent)'
      /\ \A v \in Link : \A c \in Chunk : wmem[v][c] = Junk => (c \in Sent)'
  BY DEF SentInv, SentCopy
<1>2. CASE Crash
  <2>1. /\ UNCHANGED <<file, snap>>
        /\ \A w \in Link : /\ wmem'[w] = InitControlData
                           /\ wpc'[w] \notin {"sent", "commit"}
    BY <1>2 DEF Crash, diskVars, Alive, Ended
  <2> QED
    BY <1>1, <2>1, BlankCopies DEF SentInv, SentCopy
<1>3. CASE Rerun
  <2>1. /\ file' = file /\ snap' = NoCopy
        /\ \A w \in Link : wpc'[w] = "none" /\ wmem'[w] = InitControlData
    BY <1>3 DEF Rerun, diskVars
  <2> QED
    BY <1>1, <2>1, BlankCopies DEF SentInv, SentCopy
<1>4. CASE Status
  <2>1. /\ UNCHANGED <<snap, wpc, wmem>> /\ SessionOver
        /\ \A c \in Chunk :
              \/ file'.info[c] = file.info[c]
              \/ file'.info[c].status \in {"PENDING", "ERROR"}
    BY <1>4, StatusWrites DEF clientVars
  <2>2. \A c \in Chunk : file'.info[c] = Junk => (c \in Sent)'
    BY <1>1, <2>1
  <2>3. \A w \in Link : wpc'[w] \notin {"sent", "commit"}
    BY <2>1, OverShape
  <2> QED
    BY <1>1, <2>1, <2>2, <2>3 DEF SentInv, SentCopy
<1> QED
  BY <1>2, <1>3, <1>4

LEMMA Step5 ==
    ASSUME ChunkSizeKept
    PROVE  Layer5 /\ [Next]_vars => Layer5'
<1> SUFFICES ASSUME Layer5, [Next]_vars
             PROVE  Layer5'
  OBVIOUS
<1>1. Layer1'
  BY Step1 DEF Layer5
<1>2. TypeOK /\ TypeOK' /\ TurnInv /\ Known
  BY <1>1 DEF Layer5, Layer1, Known
<1>3. Keeps
  BY <1>2, KeepsNext
<1>4. \A c \in Chunk : c \in Sent => (c \in Sent)'
  BY <1>2, <1>3, SentIndex DEF Keeps
<1>5. SentInv'
  BY <1>2, <1>4, NextShapes, Worker5, Main5, Ends5
<1> QED
  BY <1>1, <1>3, <1>5 DEF Layer5, Keeps

(***************************************************************************)
(* OK means that the chunk is on the server or on its way there, or that a *)
(* failure took it since, whatever metadata main has written back and      *)
(* whatever crashed, as long as option -c is what it was.                  *)
(***************************************************************************)
THEOREM OkMeansSent ==
    ASSUME ChunkSizeKept
    PROVE  Spec => []OkIsSent
<1>1. Init => Layer5
  BY Init1, Init5 DEF Layer5
<1>2. Layer5 => OkIsSent
  BY DEF Layer5, SentInv, SentCopy, Sent, Gone, OkIsSent, RecordedBySender
<1> QED
  BY <1>1, <1>2, Step5, PTL DEF Spec

(* All the layers: the invariant that TLC evaluates. *)
THEOREM UploadIsSafe ==
    ASSUME ChunkSizeKept, SomeHost
    PROVE  Spec => []UploadInv
<1> DEFINE I == Layer3 /\ DrainedInv /\ Layer5
<1>1. Init => I
  BY Init1, Init2, Init3, Init4, Init5 DEF Layer2, Layer3, Layer5
<1>2. I /\ [Next]_vars => I'
  BY Step3, Step4, Step5 DEF Layer5
<1>3. I => UploadInv
  BY FinishedMeansOk DEF Layer1, Layer2, Layer3, Layer5, UploadInv
<1> QED
  BY <1>1, <1>2, <1>3, PTL DEF Spec
=============================================================================
