---------------------------- MODULE MhFetchProofs ----------------------------
(***************************************************************************)
(* The safety of the start of a download, for every number of runs, with   *)
(* and without faults.                                                     *)
(***************************************************************************)
EXTENDS MhFetch, SequenceTheorems, TLAPS

Message == {"MH_OK", "MH_FILE_NOT_FOUND", "header"}

(* What the answers of the server are, one after the other. *)
LEMMA AnswersDiffer ==
    /\ OkAnswer # <<>> /\ NoAnswer # <<>> /\ HeaderOnly # <<>>
    /\ OkAndHeader # <<>> /\ OkAnswer # NoAnswer /\ OkAnswer # HeaderOnly
    /\ OkAnswer # OkAndHeader /\ NoAnswer # HeaderOnly
    /\ NoAnswer # OkAndHeader /\ HeaderOnly # OkAndHeader
BY DEF OkAnswer, NoAnswer, HeaderOnly, OkAndHeader

LEMMA AnswersSent ==
    /\ Append(<<>>, "MH_OK") = OkAnswer
    /\ Append(<<>>, "MH_FILE_NOT_FOUND") = NoAnswer
    /\ Append(<<>>, "header") = HeaderOnly
    /\ Append(OkAnswer, "header") = OkAndHeader
<1>1. ASSUME NEW a \in Message
      PROVE  Append(<<>>, a) = <<a>>
  <2>1. /\ Append(<<>>, a) \in Seq(Message) /\ Len(Append(<<>>, a)) = 1
        /\ Append(<<>>, a)[1] = a
    BY AppendProperties
  <2> QED
    BY <2>1, SeqEqual
<1>2. Append(OkAnswer, "header") = OkAndHeader
  <2>1. OkAnswer \in Seq(Message) /\ Len(OkAnswer) = 1 /\ OkAnswer[1] = "MH_OK"
    BY DEF OkAnswer, Message
  <2>2. LET q == Append(OkAnswer, "header")
        IN q \in Seq(Message) /\ Len(q) = 2 /\ q[1] = "MH_OK" /\ q[2] = "header"
    BY <2>1, AppendProperties, SMTT(20) DEF Message
  <2>3. /\ OkAndHeader \in Seq(Message) /\ Len(OkAndHeader) = 2
        /\ OkAndHeader[1] = "MH_OK" /\ OkAndHeader[2] = "header"
    BY DEF OkAndHeader, Message
  <2> QED
    BY <2>2, <2>3, SeqEqual
<1> QED
  BY <1>1, <1>2 DEF OkAnswer, NoAnswer, HeaderOnly, Message

LEMMA AnswersRead ==
    /\ Head(OkAnswer) = "MH_OK" /\ Tail(OkAnswer) = <<>>
    /\ Head(NoAnswer) = "MH_FILE_NOT_FOUND" /\ Tail(NoAnswer) = <<>>
    /\ Head(HeaderOnly) = "header" /\ Tail(HeaderOnly) = <<>>
    /\ Head(OkAndHeader) = "MH_OK" /\ Tail(OkAndHeader) = HeaderOnly
BY DEF OkAnswer, NoAnswer, HeaderOnly, OkAndHeader

(* A connection that breaks cuts the answers short. *)
LEMMA AnswersCut ==
    ASSUME NEW q \in Answers, NEW n \in 0 .. Len(q)
    PROVE  \/ SubSeq(q, 1, n) \in {<<>>, q}
           \/ q = OkAndHeader /\ SubSeq(q, 1, n) = OkAnswer
<1>1. CASE q = <<>>
  BY <1>1, SubSeqEmpty
<1>2. CASE q \in {OkAnswer, NoAnswer, HeaderOnly}
  <2>1. Len(q) = 1 /\ q \in Seq(Message)
    BY <1>2, SMTT(30) DEF OkAnswer, NoAnswer, HeaderOnly, Message
  <2>2. n = 0 \/ n = 1
    BY <2>1
  <2>3. SubSeq(q, 1, 0) = <<>> /\ SubSeq(q, 1, 1) = q
    BY <2>1, SubSeqEmpty, SubSeqFull
  <2> QED
    BY <2>2, <2>3
<1>3. CASE q = OkAndHeader
  <2>1. Len(q) = 2 /\ q \in Seq(Message) /\ q[1] = "MH_OK"
    BY <1>3 DEF OkAndHeader, Message
  <2>2. SubSeq(q, 1, 0) = <<>> /\ SubSeq(q, 1, 2) = q
    BY <2>1, SubSeqEmpty, SubSeqFull
  <2>3. SubSeq(q, 1, 1) = OkAnswer
    <3>1. LET p == SubSeq(q, 1, 1)
          IN p \in Seq(Message) /\ Len(p) = 1 /\ p[1] = "MH_OK"
      BY <2>1, SubSeqProperties
    <3>2. OkAnswer \in Seq(Message) /\ Len(OkAnswer) = 1 /\ OkAnswer[1] = "MH_OK"
      BY DEF OkAnswer, Message
    <3> QED
      BY <3>1, <3>2, SeqEqual
  <2>4. n = 0 \/ n = 1 \/ n = 2
    BY <2>1
  <2> QED
    BY <1>3, <2>2, <2>3, <2>4
<1> QED
  BY <1>1, <1>2, <1>3 DEF Answers
-----------------------------------------------------------------------------
LEMMA NoFileType == NoFile \in [written : WrittenState, of : {"server", "junk"}]
BY DEF NoFile, WrittenState

LEMMA InitFetch == Init => FetchInv
<1> SUFFICES ASSUME Init PROVE FetchInv
  OBVIOUS
<1> USE DEF Init
<1>1. TypeOK
  <2>1. run \in 1 .. MaxRuns
    BY FetchAssumption
  <2> QED
    BY <2>1, NoFileType DEF TypeOK, Fetching, Answers
<1>2. WireInv /\ AnswerInv
  BY AnswersDiffer DEF WireInv, AnswerInv
<1>3. DiskInv /\ NotFoundLeavesNothing /\ TransferStartsRight
  BY DEF DiskInv, NotFoundLeavesNothing, TransferStartsRight, NoFile
<1> QED
  BY <1>1, <1>2, <1>3 DEF FetchInv

LEMMA StepFetch ==
    ASSUME FetchInv, [Next]_vars
    PROVE  FetchInv'
<1> USE AnswersDiffer
    DEF FetchInv, TypeOK, WireInv, AnswerInv, DiskInv, NotFoundLeavesNothing,
        TransferStartsRight, NoFile, Fetching, Stopped, world, server, Answers
<1>1. CASE UNCHANGED vars
  BY <1>1 DEF vars
<1>2. CASE Look
  BY <1>2 DEF Look
<1>3. CASE AskForMetadata
  <2>1. CASE pc' = "answer"
    <3>1. toServer' \in BOOLEAN /\ (toServer' => link = "up")
      BY <1>3, <2>1 DEF AskForMetadata
    <3> QED
      BY <1>3, <2>1, <3>1 DEF AskForMetadata
  <2>2. CASE pc' = "died"
    BY <1>3, <2>2 DEF AskForMetadata
  <2> QED
    BY <1>3, <2>1, <2>2 DEF AskForMetadata
<1>4. CASE ReadAnswer
  <2>1. \/ toClient = OkAnswer /\ toClient' = <<>> /\ pc' = "touch"
        \/ toClient = NoAnswer /\ toClient' = <<>> /\ pc' = "notfound"
        \/ toClient = OkAndHeader /\ toClient' = HeaderOnly /\ pc' = "touch"
        \/ /\ toClient = <<>> /\ toClient' = <<>>
           /\ link = "broken" /\ pc' \in {"notfound", "touch"}
    <3>1. toClient \in {<<>>, OkAnswer, NoAnswer, OkAndHeader}
      BY <1>4 DEF ReadAnswer
    <3> QED
      BY <1>4, <3>1, AnswersRead DEF ReadAnswer
  <2>2. /\ pc = "answer"
        /\ UNCHANGED <<world, link, toServer, srv, disk, hdr, info>>
    BY <1>4 DEF ReadAnswer
  <2>3. CASE toClient = <<>>
    BY <2>1, <2>2, <2>3
  <2>4. CASE toClient = OkAnswer
    BY <2>1, <2>2, <2>4
  <2>5. CASE toClient = NoAnswer
    BY <2>1, <2>2, <2>5
  <2>6. CASE toClient = OkAndHeader
    BY <2>1, <2>2, <2>6
  <2> QED
    BY <2>1, <2>3, <2>4, <2>5, <2>6
<1>5. CASE Touch
  BY <1>5 DEF Touch, WrittenState, Written
<1>6. CASE ReadHeader
  BY <1>6, AnswersRead DEF ReadHeader
<1>7. CASE SaveNext
  BY <1>7 DEF SaveNext, WrittenState, Written
<1>8. CASE Load
  BY <1>8 DEF Load, LoadStatus, WrittenState, Written
<1>9. CASE SrvAnswer
  <2>1. /\ srv = "cmd" /\ link = "up" /\ toServer
        /\ toServer' = FALSE /\ srv' = IF remote THEN "md5" ELSE "cmd"
        /\ UNCHANGED <<world, link, disk, pc, hdr, info>>
    BY <1>9 DEF SrvAnswer
  <2>2. toClient = <<>> /\ pc \in {"answer", "died"}
    BY <2>1
  <2>3. CASE remote
    <3>1. toClient' = OkAnswer /\ srv' = "md5"
      BY <1>9, <2>2, <2>3, AnswersSent DEF SrvAnswer
    <3>2. TypeOK' /\ AnswerInv'
      BY <2>1, <2>2, <2>3, <3>1
    <3>3. WireInv'
      BY <2>1, <2>2, <2>3, <3>1
    <3>4. DiskInv' /\ NotFoundLeavesNothing' /\ TransferStartsRight'
      BY <2>1
    <3> QED
      BY <3>2, <3>3, <3>4
  <2>4. CASE ~remote
    <3>1. toClient' = NoAnswer /\ srv' = "cmd"
      BY <1>9, <2>2, <2>4, AnswersSent DEF SrvAnswer
    <3>2. TypeOK' /\ AnswerInv'
      BY <2>1, <2>2, <2>4, <3>1
    <3>3. WireInv'
      BY <2>1, <2>2, <2>4, <3>1
    <3>4. DiskInv' /\ NotFoundLeavesNothing' /\ TransferStartsRight'
      BY <2>1
    <3> QED
      BY <3>2, <3>3, <3>4
  <2> QED
    BY <2>3, <2>4
<1>10. CASE SrvSendHeader
  <2>1. toClient = <<>> \/ toClient = OkAnswer
    BY <1>10 DEF SrvSendHeader
  <2>2. toClient' = IF toClient = <<>> THEN HeaderOnly ELSE OkAndHeader
    BY <1>10, <2>1, AnswersSent DEF SrvSendHeader
  <2>3. toClient = OkAnswer => pc \in {"answer", "died"}
    BY <1>10 DEF SrvSendHeader
  <2> QED
    BY <1>10, <2>1, <2>2, <2>3 DEF SrvSendHeader
<1>11. CASE LinkFail
  <2>1. \/ toClient' = <<>> \/ toClient' = toClient
        \/ toClient = OkAndHeader /\ toClient' = OkAnswer
    <3>1. toClient \in Answers
      BY DEF Answers
    <3> QED
      BY <1>11, <3>1, AnswersCut DEF LinkFail
  <2>2. /\ link' = "broken" /\ srv' = "gone" /\ toServer' = FALSE
        /\ broke' = TRUE /\ pc \in Fetching
        /\ UNCHANGED <<remote, run, stopped, disk, pc, hdr, info>>
    BY <1>11 DEF LinkFail
  <2>3. CASE toClient' = <<>>
    BY <2>2, <2>3
  <2>4. CASE toClient' = toClient
    <3>1. TypeOK'
      BY <2>2, <2>4
    <3>2. WireInv'
      BY <2>2, <2>4
    <3>3. AnswerInv'
      BY <2>2, <2>4
    <3>4. DiskInv' /\ NotFoundLeavesNothing' /\ TransferStartsRight'
      BY <2>2
    <3> QED
      BY <3>1, <3>2, <3>3, <3>4
  <2>5. CASE toClient = OkAndHeader /\ toClient' = OkAnswer
    <3>1. pc = "answer" \/ pc \notin {"look", "ask", "save", "touch", "header"}
      BY <2>5
    <3>2. pc = "answer"
      BY <2>2, <3>1
    <3> QED
      BY <2>2, <2>5, <3>2
  <2> QED
    BY <2>1, <2>3, <2>4, <2>5
<1>12. CASE ClientStopped
  BY <1>12 DEF ClientStopped
<1>13. CASE InterruptedLoad
  BY <1>13 DEF InterruptedLoad, WrittenState
<1>14. CASE Rerun
  <2>1. TypeOK'
    <3>1. run' \in 1 .. MaxRuns
      BY <1>14, FetchAssumption DEF Rerun
    <3>2. disk' \in [written : WrittenState, of : {"server", "junk"}]
      BY <1>14, NoFileType DEF Rerun
    <3> QED
      BY <1>14, <3>1, <3>2 DEF Rerun
  <2>2. WireInv' /\ AnswerInv'
    BY <1>14 DEF Rerun
  <2>3. DiskInv' /\ NotFoundLeavesNothing' /\ TransferStartsRight'
    BY <1>14 DEF Rerun
  <2> QED
    BY <2>1, <2>2, <2>3
<1> QED
  BY <1>1, <1>2, <1>3, <1>4, <1>5, <1>6, <1>7, <1>8, <1>9, <1>10, <1>11, <1>12,
     <1>13, <1>14 DEF Next, ClientStep, ServerStep

(***************************************************************************)
(* In every reachable state of a fetch what is on the connection is what   *)
(* the client waits for, and what is on disk is as far as it got.          *)
(***************************************************************************)
THEOREM FetchIsSafe == Spec => []FetchInv
<1>1. FetchInv /\ [Next]_vars => FetchInv'
  BY StepFetch
<1> QED
  BY InitFetch, <1>1, PTL DEF Spec

(***************************************************************************)
(* The server's answer comes before the client creates a file: for a file  *)
(* that the server does not have, none is left, unless a connection broke. *)
(***************************************************************************)
THEOREM NothingForNothing == Spec => []NotFoundLeavesNothing
<1>1. FetchInv => NotFoundLeavesNothing
  BY DEF FetchInv
<1> QED
  BY <1>1, FetchIsSafe, PTL

(***************************************************************************)
(* A transfer starts from the server's header unless a connection broke    *)
(* under a fetch, and with every chunk PENDING unless a client was stopped.*)
(***************************************************************************)
THEOREM TransfersStartRight == Spec => []TransferStartsRight
<1>1. FetchInv => TransferStartsRight
  BY DEF FetchInv
<1> QED
  BY <1>1, FetchIsSafe, PTL

(* Every variable of a fetch keeps to its type, the connection included. *)
THEOREM FetchTypeCorrect == Spec => []TypeOK
<1>1. FetchInv => TypeOK
  BY DEF FetchInv
<1> QED
  BY <1>1, FetchIsSafe, PTL
=============================================================================
