--------------------------- MODULE RemoteFile_proofs ---------------------------
(* Proofs about RemoteFile, for any contents, chunks and failures: with one  *)
(* writer the remote file is a register.                                     *)
EXTENDS RemoteFile, TLAPS

LEMMA WholeIsData == Contents \subseteq Data /\ Blank \in Data
BY DEF Contents, Data, Whole, Blank

LEMMA BlankIsNoContent == Blank \notin Contents
<1>1. 1 \in Chunks /\ Blank[1] = None
  BY FileAssumption DEF Chunks, Blank
<1>2. ASSUME NEW v \in Values PROVE Whole(v) # Blank
  BY <1>1, FileAssumption DEF Whole, Chunks
<1> QED
  BY <1>2 DEF Contents

LEMMA InitInv == Init => FileInv
<1> SUFFICES ASSUME Init PROVE FileInv
  OBVIOUS
<1> USE FileAssumption DEF Init, Threads
<1>1. PICK v \in Values : data = [o \in Objects |-> Whole(v)]
  OBVIOUS
<1>2. data \in [Objects -> Data] /\ data[path] \in Contents
  BY <1>1, WholeIsData DEF Contents
<1>3. TypeOK
  BY <1>2, WholeIsData DEF TypeOK
<1>4. path # tmp
  OBVIOUS
<1>5. \A w \in Writers : WriterOK(w)
  BY DEF WriterOK
<1>6. \A r \in Readers : ReaderOK(r)
  BY DEF ReaderOK
<1> QED
  BY <1>2, <1>3, <1>4, <1>5, <1>6 DEF FileInv, PathWhole

\* A chunk written at the end of a prefix of v extends the prefix.
LEMMA ChunkType ==
    ASSUME NEW d \in Data, NEW x \in Values \cup {None}, NEW n
    PROVE  Patched(d, n, x) \in Data
BY DEF Data, Patched

LEMMA WriterType ==
    ASSUME TypeOK, \A w \in Writers : WriterOK(w),
           NEW w \in Writers, WriterStep(w)
    PROVE  TypeOK'
<1> USE FileAssumption DEF TypeOK, Threads
<1>1. CASE \E v \in Values : Call(w, v)
  BY <1>1 DEF Call, names
<1>2. CASE OpenTmp(w)
  BY <1>2, WholeIsData DEF OpenTmp
<1>3. CASE WriteChunk(w)
  <2>1. fd[w] \in Objects /\ val[w] \in Values
    BY <1>3 DEF WriteChunk, WriterOK
  <2>2. data' \in [Objects -> Data]
    BY <1>3, <2>1, ChunkType DEF WriteChunk
  <2>3. pos' \in [Threads -> 1..(NChunks + 1)]
    BY <1>3 DEF WriteChunk, Chunks
  <2> QED
    BY <1>3, <2>2, <2>3 DEF WriteChunk, names
<1>4. CASE Close(w)
  BY <1>4 DEF Close, names
<1>5. CASE Move(w)
  BY <1>5 DEF Move, EndWrite
<1>6. CASE MoveFails(w)
  BY <1>6 DEF MoveFails, EndWrite, names
<1>7. CASE WriteRaises(w)
  BY <1>7 DEF WriteRaises, EndWrite, names
<1> QED
  BY <1>1, <1>2, <1>3, <1>4, <1>5, <1>6, <1>7 DEF WriterStep

LEMMA ReaderType ==
    ASSUME TypeOK, \A r \in Readers : ReaderOK(r),
           NEW r \in Readers, ReaderStep(r)
    PROVE  TypeOK'
<1> USE FileAssumption DEF TypeOK, Threads
<1>1. CASE OpenRead(r)
  BY <1>1, WholeIsData DEF OpenRead, names
<1>2. CASE ReadChunk(r)
  <2>1. data[fd[r]] \in Data
    BY <1>2, WholeIsData DEF ReadChunk, ReaderOK
  <2>2. data[fd[r]][pos[r]] \in Values \cup {None}
    BY <1>2, <2>1 DEF ReadChunk, Data
  <2>3. buf' \in [Readers -> Data]
    BY <1>2, <2>2, ChunkType DEF ReadChunk
  <2>4. pos' \in [Threads -> 1..(NChunks + 1)]
    BY <1>2 DEF ReadChunk, Chunks
  <2> QED
    BY <1>2, <2>3, <2>4 DEF ReadChunk, names
<1>3. CASE EndRead(r)
  BY <1>3 DEF EndRead, names
<1> QED
  BY <1>1, <1>2, <1>3 DEF ReaderStep

\* The steps of the only writer keep what every handle relies on.
LEMMA WriterKeeps ==
    ASSUME SoleWriter, FileInv, NEW w \in Writers, WriterStep(w)
    PROVE  FileInv'
<1>0. TypeOK'
  BY WriterType DEF FileInv
<1> USE FileAssumption DEF FileInv, SoleWriter, PathWhole
<1>a. \A x \in Writers : x = w
  OBVIOUS
<1>b. \A r \in Readers : r # w
  OBVIOUS
<1>1. CASE \E v \in Values : Call(w, v)
  BY <1>0, <1>1, <1>a, <1>b DEF Call, names, TypeOK, Threads, WriterOK, ReaderOK
<1>2. CASE OpenTmp(w)
  <2>1. PICK o \in Objects :
          /\ IF tmp = None THEN Unused(o) ELSE o = tmp
          /\ tmp' = o
          /\ data' = [data EXCEPT ![o] = Blank]
          /\ fd' = [fd EXCEPT ![w] = o]
    BY <1>2 DEF OpenTmp
  <2>2. o # path /\ \A r \in Readers : fd[r] # o
    BY <2>1 DEF Unused, ReaderOK, Threads, TypeOK
  <2>3. path' # tmp' /\ PathWhole'
    BY <1>2, <2>1, <2>2 DEF OpenTmp, TypeOK
  <2>4. \A r \in Readers : ReaderOK(r)'
    BY <1>2, <1>b, <2>1, <2>2 DEF OpenTmp, TypeOK, Threads, ReaderOK
  <2>5. WriterOK(w)'
    BY <1>2, <2>1 DEF OpenTmp, TypeOK, Threads, WriterOK, Chunks
  <2> QED
    BY <1>0, <1>a, <2>3, <2>4, <2>5
<1>3. CASE WriteChunk(w)
  <2>1. /\ fd[w] = tmp /\ tmp \in Objects /\ tmp # path
        /\ data' = [data EXCEPT ![tmp] = Patched(@, pos[w], val[w])]
    BY <1>3 DEF WriteChunk, WriterOK, TypeOK
  <2>2. path' # tmp' /\ PathWhole'
    BY <1>3, <2>1 DEF WriteChunk, names, TypeOK
  <2>3. \A r \in Readers : ReaderOK(r)'
    BY <1>3, <1>b, <2>1 DEF WriteChunk, names, TypeOK, Threads, ReaderOK
  <2>4. /\ pos' = [pos EXCEPT ![w] = pos[w] + 1] /\ pos[w] \in Chunks
        /\ pc' = pc /\ fd' = fd /\ val' = val /\ tmp' = tmp /\ pc[w] = "stream"
    BY <1>3 DEF WriteChunk, names
  <2>5. pos'[w] = pos[w] + 1
    BY <2>4 DEF TypeOK, Threads
  <2>6. \A k \in Chunks : data'[tmp][k] = IF k = pos[w] THEN val[w] ELSE data[tmp][k]
    BY <2>1 DEF TypeOK, Patched
  <2>7. \A k \in Chunks : k < pos'[w] => data'[tmp][k] = val[w]
    BY <2>4, <2>5, <2>6 DEF Chunks, WriterOK
  <2>8. WriterOK(w)'
    BY <2>1, <2>4, <2>7 DEF WriterOK
  <2> QED
    BY <1>0, <1>a, <2>2, <2>3, <2>8
<1>4. CASE Close(w)
  <2>1. fd[w] = tmp /\ tmp \in Objects /\ val[w] \in Values
    BY <1>4 DEF Close, WriterOK, TypeOK
  <2>2. \A k \in Chunks : data[tmp][k] = val[w]
    BY <1>4 DEF Close, WriterOK, Chunks, TypeOK, Threads
  <2>3. data[tmp] = Whole(val[w])
    BY <2>1, <2>2 DEF Whole, TypeOK, Data
  <2>4. WriterOK(w)'
    BY <1>4, <2>1, <2>3 DEF Close, names, TypeOK, Threads, WriterOK, Whole
  <2>5. \A r \in Readers : ReaderOK(r)'
    BY <1>4, <1>b DEF Close, names, TypeOK, Threads, ReaderOK
  <2> QED
    BY <1>0, <1>4, <1>a, <2>4, <2>5 DEF Close, names
<1>5. CASE Move(w)
  <2>1. data[tmp] = Whole(val[w]) /\ val[w] \in Values /\ tmp # None
    BY <1>5 DEF Move, WriterOK
  <2>2. /\ path' = tmp /\ tmp' = None /\ data' = data /\ fd' = fd /\ pos' = pos
        /\ buf' = buf /\ pc' = [pc EXCEPT ![w] = "idle"] /\ val' = val
    BY <1>5 DEF Move, EndWrite
  <2>3. path' # tmp' /\ PathWhole'
    BY <2>1, <2>2 DEF Contents
  <2>4. WriterOK(w)'
    BY <1>5, <2>2 DEF Move, TypeOK, Threads, WriterOK
  <2>5. \A r \in Readers : ReaderOK(r)'
    BY <1>b, <2>2 DEF TypeOK, Threads, ReaderOK
  <2> QED
    BY <1>0, <1>a, <2>3, <2>4, <2>5
<1>6. CASE MoveFails(w)
  BY <1>0, <1>6, <1>a, <1>b
  DEF MoveFails, EndWrite, names, TypeOK, Threads, WriterOK, ReaderOK
<1>7. CASE WriteRaises(w)
  BY <1>0, <1>7, <1>a, <1>b
  DEF WriteRaises, EndWrite, names, TypeOK, Threads, WriterOK, ReaderOK
<1> QED
  BY <1>1, <1>2, <1>3, <1>4, <1>5, <1>6, <1>7 DEF WriterStep

LEMMA ReaderKeeps ==
    ASSUME FileInv, NEW r \in Readers, ReaderStep(r)
    PROVE  FileInv'
<1>0. TypeOK'
  BY ReaderType DEF FileInv
<1> USE FileAssumption DEF FileInv, PathWhole
<1>b. \A w \in Writers : w # r
  OBVIOUS
<1>1. CASE OpenRead(r)
  BY <1>0, <1>1, <1>b
  DEF OpenRead, names, TypeOK, Threads, WriterOK, ReaderOK, Chunks
<1>2. CASE ReadChunk(r)
  <2>1. /\ pos' = [pos EXCEPT ![r] = pos[r] + 1] /\ pos[r] \in Chunks
        /\ UNCHANGED <<pc, fd, data, path, tmp, val>> /\ pc[r] = "stream"
    BY <1>2 DEF ReadChunk, names
  <2>2. \A k \in Chunks :
          buf'[r][k] = IF k = pos[r] THEN data[fd[r]][k] ELSE buf[r][k]
    BY <1>2 DEF ReadChunk, TypeOK, Patched
  <2>3. pos'[r] = pos[r] + 1
    BY <2>1 DEF TypeOK, Threads
  <2>4. ReaderOK(r)'
    BY <2>1, <2>2, <2>3 DEF ReaderOK, Chunks
  <2>5. \A s \in Readers : s # r => ReaderOK(s)'
    BY <1>2, <2>1 DEF ReadChunk, TypeOK, Threads, ReaderOK
  <2>6. \A w \in Writers : WriterOK(w)'
    BY <1>b, <2>1 DEF TypeOK, Threads, WriterOK
  <2> QED
    BY <1>0, <2>1, <2>4, <2>5, <2>6
<1>3. CASE EndRead(r)
  BY <1>0, <1>3, <1>b
  DEF EndRead, names, TypeOK, Threads, WriterOK, ReaderOK
<1> QED
  BY <1>1, <1>2, <1>3 DEF ReaderStep

\* What every handle guarantees (FileInv), hence that the path always names a
\* whole content (_backend.py:58): for one writer, any readers and failures.
THEOREM Invariance == ASSUME SoleWriter PROVE Spec => []FileInv
<1>1. Init => FileInv
  BY InitInv
<1>2. FileInv /\ [Next]_vars => FileInv'
  <2> SUFFICES ASSUME FileInv, [Next]_vars PROVE FileInv'
    OBVIOUS
  <2>1. CASE Next
    BY <2>1, WriterKeeps, ReaderKeeps DEF Next
  <2>2. CASE UNCHANGED vars
    BY <2>2 DEF vars, FileInv, TypeOK, PathWhole, WriterOK, ReaderOK
  <2> QED
    BY <2>1, <2>2
<1> QED
  BY <1>1, <1>2, PTL DEF Spec

-----------------------------------------------------------------------------
(* The register *)

LEMMA InitMaps == Init => R!Init
<1> SUFFICES ASSUME Init PROVE R!Init
  OBVIOUS
<1> QED
  BY DEF Init, R!Init, Threads, Contents

LEMMA WriterMaps ==
    ASSUME SoleWriter, FileInv, NEW w \in Writers, WriterStep(w)
    PROVE  [R!Next]_(R!vars)
<1> USE DEF SoleWriter
<1> DEFINE P == [x \in Writers |-> IF pc[x] = "idle" THEN Blank ELSE Whole(val[x])]
           T == [r \in Readers |-> IF pc[r] = "stream" THEN data[fd[r]] ELSE Blank]
<1>a. \A r \in Readers : r # w /\ r \in Threads
  BY FileAssumption DEF Threads
<1>b. /\ pc \in [Threads -> {"idle", "open", "stream", "mv"}] /\ w \in Threads
      /\ tmp # path /\ data \in [Objects -> Data] /\ path \in Objects
      /\ val \in [Writers -> Values \cup {None}]
  BY DEF FileInv, TypeOK, Threads
<1>c. \A r \in Readers : pc[r] = "stream" => fd[r] # tmp /\ fd[r] \in Objects
  BY DEF FileInv, ReaderOK
<1>1. CASE \E v \in Values : Call(w, v)
  <2>1. PICK v \in Values : Call(w, v)
    BY <1>1
  <2>2. P' = [P EXCEPT ![w] = Whole(v)] /\ P[w] = Blank
    BY <2>1, <1>b DEF Call
  <2>3. T' = T
    BY <2>1, <1>a, <1>b DEF Call
  <2>4. R!Ask(w, Whole(v))
    BY <2>1, <2>2, <2>3 DEF Call, names, R!Ask
  <2> QED
    BY <2>4 DEF R!Next, Contents
<1>2. CASE OpenTmp(w)
  <2>1. PICK o \in Objects :
          /\ IF tmp = None THEN Unused(o) ELSE o = tmp
          /\ data' = [data EXCEPT ![o] = Blank]
          /\ fd' = [fd EXCEPT ![w] = o]
    BY <1>2 DEF OpenTmp
  <2>2. o # path /\ \A r \in Readers : pc[r] = "stream" => fd[r] # o
    BY <2>1, <1>a, <1>b, <1>c DEF Unused
  <2>3. data'[path'] = data[path] /\ P' = P /\ T' = T /\ reply' = reply
    BY <1>2, <1>a, <1>b, <1>c, <2>1, <2>2 DEF OpenTmp, FileInv, TypeOK
  <2> QED
    BY <2>3 DEF R!vars
<1>3. CASE WriteChunk(w)
  <2>1. fd[w] = tmp
    BY <1>3 DEF WriteChunk, FileInv, WriterOK
  <2>2. data'[path'] = data[path] /\ P' = P /\ T' = T /\ reply' = reply
    BY <1>3, <1>a, <1>b, <1>c, <2>1 DEF WriteChunk, names
  <2> QED
    BY <2>2 DEF R!vars
<1>4. CASE Close(w)
  <2>1. data'[path'] = data[path] /\ P' = P /\ T' = T /\ reply' = reply
    BY <1>4, <1>a, <1>b, <1>c DEF Close, names, FileInv, TypeOK
  <2> QED
    BY <2>1 DEF R!vars
<1>5. CASE Move(w)
  <2>1. P' = [P EXCEPT ![w] = Blank] /\ P[w] = Whole(val[w])
    BY <1>5, <1>b DEF Move, EndWrite
  <2>2. T' = T
    BY <1>5, <1>a, <1>b DEF Move, EndWrite
  <2>3. data'[path'] = Whole(val[w]) /\ val[w] \in Values
    BY <1>5 DEF Move, EndWrite, FileInv, WriterOK
  <2>4. P[w] # Blank
    BY <2>1, <2>3, BlankIsNoContent DEF Contents
  <2>5. R!Publish(w)
    BY <1>5, <2>1, <2>2, <2>3, <2>4 DEF Move, EndWrite, R!Publish
  <2> QED
    BY <2>5 DEF R!Next
<1>6. CASE MoveFails(w) \/ WriteRaises(w)
  <2>1. P' = [P EXCEPT ![w] = Blank]
    BY <1>6, <1>b DEF MoveFails, WriteRaises, EndWrite
  <2>2. T' = T
    BY <1>6, <1>a, <1>b DEF MoveFails, WriteRaises, EndWrite, FileInv, TypeOK
  <2>3. R!Drop(w)
    BY <1>6, <2>1, <2>2 DEF MoveFails, WriteRaises, EndWrite, names, R!Drop
  <2> QED
    BY <2>3 DEF R!Next
<1> QED
  BY <1>1, <1>2, <1>3, <1>4, <1>5, <1>6 DEF WriterStep

LEMMA ReaderMaps ==
    ASSUME FileInv, NEW r \in Readers, ReaderStep(r)
    PROVE  [R!Next]_(R!vars)
<1> DEFINE P == [x \in Writers |-> IF pc[x] = "idle" THEN Blank ELSE Whole(val[x])]
           T == [q \in Readers |-> IF pc[q] = "stream" THEN data[fd[q]] ELSE Blank]
<1>a. \A w \in Writers : w # r /\ w \in Threads
  BY FileAssumption DEF Threads
<1>b. /\ pc \in [Threads -> {"idle", "open", "stream", "mv"}] /\ r \in Threads
      /\ fd \in [Threads -> Objects \cup {None}] /\ Readers \subseteq Threads
  BY DEF FileInv, TypeOK, Threads
<1>1. CASE OpenRead(r)
  <2>1. P' = P
    BY <1>1, <1>a, <1>b DEF OpenRead
  <2>2. T' = [T EXCEPT ![r] = data[path]] /\ T[r] = Blank
    BY <1>1, <1>b DEF OpenRead
  <2>3. R!Take(r)
    BY <1>1, <2>1, <2>2 DEF OpenRead, names, R!Take
  <2> QED
    BY <2>3 DEF R!Next
<1>2. CASE ReadChunk(r)
  <2>1. data'[path'] = data[path] /\ P' = P /\ T' = T /\ reply' = reply
    BY <1>2 DEF ReadChunk, names
  <2> QED
    BY <2>1 DEF R!vars
<1>3. CASE EndRead(r)
  <2>1. P' = P /\ data'[path'] = data[path]
    BY <1>3, <1>a, <1>b DEF EndRead, names
  <2>2. T' = [T EXCEPT ![r] = Blank] /\ T[r] = data[fd[r]] /\ T[r] # Blank
    BY <1>3, <1>b, BlankIsNoContent DEF EndRead, FileInv, ReaderOK
  <2>3. CASE reply' = reply
    <3>1. R!Forget(r)
      BY <2>1, <2>2, <2>3 DEF R!Forget
    <3> QED
      BY <3>1 DEF R!Next
  <2>4. CASE pos[r] > NChunks /\ reply' = [reply EXCEPT ![r] = buf[r]]
    <3>1. /\ buf[r] \in Data /\ data[fd[r]] \in Data
          /\ \A k \in Chunks : buf[r][k] = data[fd[r]][k]
      BY <1>3, <2>4, WholeIsData, FileAssumption
      DEF EndRead, FileInv, ReaderOK, TypeOK, Chunks, Threads
    <3>2. buf[r] = data[fd[r]]
      BY <3>1 DEF Data
    <3>3. R!Answer(r)
      BY <2>1, <2>2, <2>4, <3>2 DEF R!Answer
    <3> QED
      BY <3>3 DEF R!Next
  <2> QED
    BY <1>3, <2>3, <2>4 DEF EndRead
<1> QED
  BY <1>1, <1>2, <1>3 DEF ReaderStep

\* With one writer the two calls implement the register that SshBackend promises
\* (_backend.py:53-59): a write takes effect at its move or never, and a read
\* returns the content of the instant at which it opened the file.
THEOREM Refinement == ASSUME SoleWriter PROVE Spec => IsRegister
<1>1. Init => R!Init
  BY InitMaps
<1>2. FileInv /\ [Next]_vars => [R!Next]_(R!vars)
  <2> SUFFICES ASSUME FileInv, [Next]_vars PROVE [R!Next]_(R!vars)
    OBVIOUS
  <2>1. CASE Next
    BY <2>1, WriterMaps, ReaderMaps DEF Next
  <2>2. CASE UNCHANGED vars
    BY <2>2 DEF vars, R!vars
  <2> QED
    BY <2>1, <2>2
<1>3. Spec => []FileInv
  BY Invariance
<1> QED
  BY <1>1, <1>2, <1>3, PTL DEF Spec, IsRegister, R!Spec
=============================================================================
