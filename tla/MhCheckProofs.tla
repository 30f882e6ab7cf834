--------------------------- MODULE MhCheckProofs ---------------------------
(***************************************************************************)
(* The arithmetic of the chunks and the exactness of mhstatus --check, for *)
(* files and chunks of every size.                                         *)
(***************************************************************************)
EXTENDS MhCheck, TLAPS

LEMMA Division ==
    ASSUME NEW a \in Nat, NEW b \in Nat \ {0}
    PROVE  /\ a \div b \in Nat
           /\ a % b \in Nat
           /\ a % b < b
           /\ a = b * (a \div b) + (a % b)
OBVIOUS

LEMMA Monotone ==
    ASSUME NEW a \in Nat, NEW b \in Nat, NEW k \in Nat, a <= b
    PROVE  a * k <= b * k
<1>1. PICK d \in Nat : b = a + d
  <2>1. b - a \in Nat /\ b = a + (b - a)
    OBVIOUS
  <2> QED
    BY <2>1
<1>2. b * k = a * k + d * k
  BY <1>1
<1>3. d * k \in Nat /\ a * k \in Nat
  OBVIOUS
<1> QED
  BY <1>2, <1>3

(***************************************************************************)
(* The chunks tile the file: they begin one where the other ends, none of  *)
(* them is empty, all but the last are whole, and the last ends where the  *)
(* file does.  Server, workers and --check each rely on a part of this.    *)
(***************************************************************************)
THEOREM ChunksTileTheFile ==
    ASSUME NEW fs \in Nat, NEW cs \in Nat \ {0},
           NEW c \in 0 .. NumChunks(fs, cs) - 1
    PROVE  /\ NumChunks(fs, cs) \in Nat
           /\ ChunkLength(fs, cs, c) \in 1 .. cs
           /\ FilePos(cs, c) + ChunkLength(fs, cs, c) =
                 IF c + 1 < NumChunks(fs, cs) THEN FilePos(cs, c + 1) ELSE fs
<1> DEFINE q == fs \div cs
           r == fs % cs
           n == NumChunks(fs, cs)
<1>1. q \in Nat /\ r \in Nat /\ r < cs /\ fs = cs * q + r
  BY Division
<1>2. n = IF r # 0 THEN q + 1 ELSE q
  BY <1>1 DEF NumChunks
<1>3. n \in Nat /\ c \in Nat /\ c <= n - 1
  BY <1>1, <1>2
<1> HIDE DEF q, r, n
<1>4. cs * c \in Nat /\ cs * c = c * cs /\ (c + 1) * cs = cs * c + cs
  BY <1>3
<1>5. CASE c + 1 < n
  <2>1. c + 1 <= q
    BY <1>1, <1>2, <1>3, <1>5
  <2>2. (c + 1) * cs <= q * cs
    BY <1>1, <1>3, <2>1, Monotone
  <2>3. fs - cs * c >= cs
    BY <1>1, <1>4, <2>2
  <2>4. ChunkLength(fs, cs, c) = cs
    BY <2>3 DEF ChunkLength
  <2>5. FilePos(cs, c) + cs = FilePos(cs, c + 1)
    BY <1>4 DEF FilePos
  <2> QED
    BY <1>3, <1>5, <2>4, <2>5 DEF n
<1>6. CASE c + 1 = n
  <2>1. CASE r = 0
    <3>1. q = c + 1
      BY <1>2, <1>6, <2>1
    <3>2. fs = cs * c + cs
      BY <1>1, <1>4, <2>1, <3>1
    <3>3. ChunkLength(fs, cs, c) = cs
      BY <1>4, <3>2 DEF ChunkLength
    <3> QED
      BY <1>3, <1>4, <1>6, <3>2, <3>3 DEF n, FilePos
  <2>2. CASE r # 0
    <3>1. q = c
      BY <1>1, <1>2, <1>3, <1>6, <2>2
    <3>2. fs = cs * c + r
      BY <1>1, <3>1
    <3>3. ChunkLength(fs, cs, c) = r
      BY <1>1, <1>4, <3>2 DEF ChunkLength
    <3> QED
      BY <1>1, <1>3, <1>4, <1>6, <2>2, <3>2, <3>3 DEF n, FilePos
  <2> QED
    BY <2>1, <2>2
<1> QED
  BY <1>3, <1>5, <1>6
-----------------------------------------------------------------------------
IInv == TypeOK /\ Aligned /\ CheckIsExact

N == NumChunks(fileSize, chunkSize)

LEMMA SizesType ==
    ASSUME TypeOK
    PROVE  /\ fileSize \in Nat /\ chunkSize \in Nat \ {0}
           /\ N \in Nat
           /\ length \in Nat /\ length <= fileSize
           /\ \A c \in Chunk :
                 /\ c \in Nat /\ c + 1 <= N
                 /\ FilePos(chunkSize, c) \in Nat
                 /\ Len(c) \in Nat /\ Len(c) > 0
                 /\ FilePos(chunkSize, c) + Len(c) = Start(c + 1)
<1>1. fileSize \in Nat /\ chunkSize \in Nat \ {0}
  BY CheckAssumption DEF TypeOK
<1>2. length \in Nat /\ length <= fileSize
  BY <1>1 DEF TypeOK
<1>3. N \in Nat
  BY <1>1, Division DEF N, NumChunks
<1>4. ASSUME NEW c \in Chunk
      PROVE  /\ c \in Nat /\ c + 1 <= N
             /\ FilePos(chunkSize, c) \in Nat
             /\ Len(c) \in Nat /\ Len(c) > 0
             /\ FilePos(chunkSize, c) + Len(c) = Start(c + 1)
  <2>1. c \in Nat /\ c + 1 <= N /\ (c + 1 \in Chunk <=> c + 1 < N)
    BY <1>3, <1>4 DEF Chunk, N
  <2>2. FilePos(chunkSize, c) \in Nat
    BY <1>1, <2>1 DEF FilePos
  <2>3. /\ Len(c) \in 1 .. chunkSize
        /\ FilePos(chunkSize, c) + Len(c) =
              IF c + 1 < N THEN FilePos(chunkSize, c + 1) ELSE fileSize
    BY <1>1, <1>4, ChunksTileTheFile DEF Len, Chunk, N
  <2>4. Len(c) \in Nat /\ Len(c) > 0
    BY <1>1, <2>3
  <2> QED
    BY <2>1, <2>2, <2>3, <2>4 DEF Start
<1> QED
  BY <1>1, <1>2, <1>3, <1>4

LEMMA StartInFile ==
    ASSUME TypeOK, NEW c \in Chunk
    PROVE  Start(c) <= fileSize /\ Start(c + 1) <= fileSize
<1>1. /\ fileSize \in Nat /\ chunkSize \in Nat \ {0}
      /\ c \in Nat /\ Len(c) \in Nat
      /\ FilePos(chunkSize, c) + Len(c) = Start(c + 1)
      /\ Start(c) = FilePos(chunkSize, c)
  BY SizesType DEF Start
<1>2. chunkSize * c \in Nat /\ c * chunkSize = chunkSize * c
  BY <1>1
<1>3. Len(c) <= fileSize - chunkSize * c
  BY <1>1, <1>2 DEF Len, ChunkLength
<1>4. FilePos(chunkSize, c) = chunkSize * c
  BY <1>2 DEF FilePos
<1> QED
  BY <1>1, <1>2, <1>3, <1>4

LEMMA InitIInv == Init => IInv
<1> SUFFICES ASSUME Init PROVE IInv
  OBVIOUS
<1>1. fileSize \in Nat /\ chunkSize \in Nat \ {0}
  BY CheckAssumption DEF Init
<1>2. NumChunks(fileSize, chunkSize) \in Nat
  BY <1>1, Division DEF NumChunks
<1>3. TypeOK
  BY <1>1, <1>2 DEF Init, TypeOK
<1>4. Start(0) \in Nat /\ (0 \in Chunk => Start(0) = 0)
  BY <1>1 DEF Start, FilePos
<1>5. 0 \notin Chunk => length <= 0
  <2> SUFFICES ASSUME 0 \notin Chunk PROVE fileSize = 0
    BY <1>1 DEF Init
  <2>1. N = 0
    BY <1>2 DEF Chunk, N
  <2> DEFINE q == fileSize \div chunkSize
             r == fileSize % chunkSize
  <2>2. q \in Nat /\ r \in Nat /\ fileSize = chunkSize * q + r
    BY <1>1, Division
  <2>3. q = 0 /\ r = 0
    BY <2>1, <2>2 DEF N, NumChunks
  <2> HIDE DEF q, r
  <2> QED
    BY <1>1, <2>2, <2>3
<1>6. Aligned
  BY <1>1, <1>4, <1>5 DEF Init, Aligned
<1>7. CheckIsExact
  <2>1. \A c \in ok : ~(c < i)
    BY <1>2 DEF Init, Chunk
  <2>2. ~(i > NumChunks(fileSize, chunkSize))
    BY <1>2 DEF Init
  <2> QED
    BY <2>1, <2>2 DEF Init, CheckIsExact
<1> QED
  BY <1>3, <1>6, <1>7 DEF IInv

(* What Damaged says depends on the files alone. *)
LEMMA SameFile ==
    ASSUME UNCHANGED file
    PROVE  /\ Chunk' = Chunk /\ N' = N
           /\ \A c \in Chunk : Damaged(c)' <=> Damaged(c)
BY DEF file, Chunk, N, Damaged, Len

LEMMA StepIInv == IInv /\ [Next]_vars => IInv'
<1> SUFFICES ASSUME IInv, [Next]_vars PROVE IInv'
  OBVIOUS
<1>t. TypeOK /\ Aligned /\ CheckIsExact
  BY DEF IInv
<1>s. /\ fileSize \in Nat /\ chunkSize \in Nat \ {0}
      /\ N \in Nat
      /\ length \in Nat /\ length <= fileSize
      /\ pos \in Nat /\ i \in Nat
  BY <1>t, SizesType DEF TypeOK
<1>c. /\ \A c \in Chunk : c \in Nat
      /\ i \in Chunk => /\ FilePos(chunkSize, i) \in Nat /\ i + 1 <= N
                        /\ Len(i) \in Nat /\ Len(i) > 0
                        /\ FilePos(chunkSize, i) + Len(i) = Start(i + 1)
                        /\ Start(i) = FilePos(chunkSize, i)
  BY <1>t, SizesType DEF Start
<1>1. CASE UNCHANGED vars
  BY <1>t, <1>1 DEF vars, IInv, TypeOK, Aligned, CheckIsExact, Chunk, Len,
                    Start, Damaged
<1>2. CASE CheckOk
  <2>1. /\ i \in Chunk /\ i \in ok /\ i' = i + 1
        /\ error' = IF Matches(i) THEN error ELSE error \cup {i}
        /\ pos' = pos + BytesRead(i)
        /\ UNCHANGED <<fileSize, chunkSize, ok, length, rotten, inUse, saved>>
    BY <1>2 DEF CheckOk, file
  <2>2. /\ BytesRead(i) \in Nat
        /\ pos < length => pos = FilePos(chunkSize, i)
        /\ pos <= FilePos(chunkSize, i)
        /\ pos + BytesRead(i) <= Start(i + 1)
        /\ \/ pos + BytesRead(i) = Start(i + 1)
           \/ pos + BytesRead(i) >= length
        /\ Start(i + 1) <= fileSize
    <3>1. Start(i + 1) <= fileSize
      BY <1>t, <1>s, <2>1, StartInFile
    <3> QED
      BY <1>t, <1>s, <1>c, <2>1, <3>1 DEF Aligned, BytesRead
  <2>3. Matches(i) <=> ~Damaged(i)
    BY <1>s, <1>c, <2>1, <2>2 DEF Matches, Damaged, BytesRead
  <2>4. /\ Chunk' = Chunk /\ N' = N
        /\ \A c \in Chunk : Damaged(c)' <=> Damaged(c)
    BY <2>1, SameFile DEF file
  <2>5. TypeOK'
    BY <1>t, <1>s, <1>c, <2>1, <2>2, <2>4 DEF TypeOK, N
  <2>6. Aligned'
    BY <2>1, <2>2 DEF Aligned, Start, Chunk
  <2>7. CheckIsExact'
    <3>1. {c \in ok : c < i + 1 /\ Damaged(c)} =
             {c \in ok : c < i /\ Damaged(c)} \cup
             (IF Damaged(i) THEN {i} ELSE {})
      <4>1. \A c \in ok : c < i + 1 <=> c < i \/ c = i
        BY <1>t, <1>s, <1>c DEF TypeOK
      <4>2. i \in ok /\ ~(i < i)
        BY <1>s, <2>1
      <4> QED
        BY <4>1, <4>2
    <3>2. error' = {c \in ok : c < i + 1 /\ Damaged(c)}
      BY <1>t, <2>1, <2>3, <3>1 DEF CheckIsExact
    <3>3. saved' = {} /\ ~(i' > N')
      BY <1>t, <1>s, <1>c, <2>1, <2>4 DEF CheckIsExact, N
    <3>4. {c \in ok : c < i + 1 /\ Damaged(c)} =
             {c \in ok' : c < i' /\ Damaged(c)'}
      BY <1>t, <2>1, <2>4 DEF TypeOK
    <3> QED
      BY <3>2, <3>3, <3>4 DEF CheckIsExact, N
  <2> QED
    BY <2>5, <2>6, <2>7 DEF IInv
<1>3. CASE Skip
  <2>1. /\ i \in Chunk /\ i \notin ok /\ i' = i + 1
        /\ pos' = pos + Len(i)
        /\ UNCHANGED <<fileSize, chunkSize, ok, length, rotten, inUse, error,
                       saved>>
    BY <1>3 DEF Skip, file
  <2>2. /\ Start(i + 1) <= fileSize
        /\ pos + Len(i) <= Start(i + 1)
        /\ pos + Len(i) = Start(i + 1) \/ pos + Len(i) >= length
    <3>1. Start(i + 1) <= fileSize
      BY <1>t, <2>1, StartInFile
    <3> QED
      BY <1>t, <1>s, <1>c, <2>1, <3>1 DEF Aligned
  <2>3. /\ Chunk' = Chunk /\ N' = N
        /\ \A c \in Chunk : Damaged(c)' <=> Damaged(c)
    BY <2>1, SameFile DEF file
  <2>4. TypeOK'
    BY <1>t, <1>s, <1>c, <2>1, <2>2, <2>3 DEF TypeOK, N
  <2>5. Aligned'
    BY <2>1, <2>2 DEF Aligned, Start, Chunk
  <2>6. CheckIsExact'
    <3>1. {c \in ok : c < i /\ Damaged(c)} =
             {c \in ok' : c < i' /\ Damaged(c)'}
      <4>1. \A c \in ok : c < i + 1 <=> c < i
        BY <1>t, <1>s, <1>c, <2>1 DEF TypeOK
      <4>2. ok \subseteq Chunk /\ ok' = ok /\ i' = i + 1
        BY <1>t, <2>1 DEF TypeOK
      <4> QED
        BY <2>3, <4>1, <4>2
    <3>2. saved' = {} /\ ~(i' > N')
      BY <1>t, <1>s, <1>c, <2>1, <2>3 DEF CheckIsExact, N
    <3> QED
      BY <1>t, <2>1, <3>1, <3>2 DEF CheckIsExact, N
  <2> QED
    BY <2>4, <2>5, <2>6 DEF IInv
<1>4. CASE Save
  <2>1. /\ i = N /\ i' = i + 1
        /\ saved' = IF inUse = 0 THEN error ELSE {}
        /\ UNCHANGED <<fileSize, chunkSize, ok, length, rotten, inUse, error,
                       pos>>
    BY <1>4 DEF Save, file, N
  <2>2. /\ Chunk' = Chunk /\ N' = N
        /\ \A c \in Chunk : Damaged(c)' <=> Damaged(c)
    BY <2>1, SameFile DEF file
  <2>3. TypeOK'
    BY <1>t, <1>s, <2>1, <2>2 DEF TypeOK, N
  <2>4. Aligned'
    <3>1. ~(i \in Chunk) /\ ~(i + 1 \in Chunk)
      BY <1>s, <2>1 DEF Chunk, N
    <3>2. ~(i' \in Chunk')
      BY <2>1, <2>2, <3>1
    <3> QED
      BY <1>t, <2>1, <3>1, <3>2 DEF Aligned, Start
  <2>5. CheckIsExact'
    <3>1. error = {c \in ok : Damaged(c)}
      BY <1>t, <1>s, <1>c, SizesType, <2>1 DEF CheckIsExact, TypeOK
    <3>2. /\ {c \in ok : c < i /\ Damaged(c)} =
                {c \in ok' : c < i' /\ Damaged(c)'}
          /\ {c \in ok : Damaged(c)} = {c \in ok' : Damaged(c)'}
      <4>1. \A c \in ok : c < i + 1 /\ c < i
        BY <1>t, <1>s, SizesType, <2>1 DEF TypeOK
      <4>2. ok \subseteq Chunk /\ ok' = ok /\ i' = i + 1
        BY <1>t, <2>1 DEF TypeOK
      <4> QED
        BY <2>2, <4>1, <4>2
    <3>3. i' > N'
      BY <1>s, <2>1, <2>2
    <3> QED
      BY <1>t, <2>1, <3>1, <3>2, <3>3 DEF CheckIsExact, N
  <2> QED
    BY <2>3, <2>4, <2>5 DEF IInv
<1> QED
  BY <1>1, <1>2, <1>3, <1>4 DEF Next

(***************************************************************************)
(* mhstatus --check marks exactly the damaged chunks, for a file and       *)
(* chunks of any size, wherever the file was cut.                          *)
(***************************************************************************)
THEOREM CheckMarksTheDamaged == Spec => []CheckIsExact
<1>1. IInv => CheckIsExact
  BY DEF IInv
<1> QED
  BY <1>1, InitIInv, StepIInv, PTL DEF Spec

(* The loop keeps its types: its position and its marks are in the file. *)
THEOREM CheckTypeCorrect == Spec => []TypeOK
<1>1. IInv => TypeOK
  BY DEF IInv
<1> QED
  BY <1>1, InitIInv, StepIInv, PTL DEF Spec

(* The loop never loses its place in the file. *)
THEOREM CheckKeepsItsPlace == Spec => [](TypeOK /\ Aligned)
<1>1. IInv => TypeOK /\ Aligned
  BY DEF IInv
<1> QED
  BY <1>1, InitIInv, StepIInv, PTL DEF Spec
=============================================================================
