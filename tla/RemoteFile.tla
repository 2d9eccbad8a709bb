------------------------------- MODULE RemoteFile -------------------------------
(***************************************************************************)
(* ParamikoSshBackend.write_file and read_file (_backend.py): a write goes   *)
(* to a temporary file with a fixed name and is moved over the file; a read *)
(* streams the file.  The server keeps names apart from file objects, so    *)
(* a handle still reads or writes its object after a move.  Any SSH call    *)
(* may raise and leave things as they are, which is also what is left when  *)
(* the client process dies.                                                 *)
(***************************************************************************)
EXTENDS Naturals

CONSTANTS
    Writers, Readers,  \* threads that call write_file and read_file
    Values,            \* the strings that are written
    NChunks,           \* bound: SFTP requests needed for one content
    Objects,           \* bound: file objects of the server
    None,              \* no value, no object
    Faults             \* which kinds of failure happen in this instance

Threads == Writers \cup Readers
Chunks == 1..NChunks
FaultKinds == {"raise",  \* a call raises
               "mv",     \* mv fails; the exit code is not looked at
               "lost"}   \* the connection is lost after mv, and run raises

\* The content of a file object: its chunks, None where nothing was written.
Blank == [k \in Chunks |-> None]
Whole(v) == [k \in Chunks |-> v]
Data == [Chunks -> Values \cup {None}]
Contents == {Whole(v) : v \in Values}
Patched(d, n, x) == [k \in Chunks |-> IF k = n THEN x ELSE d[k]]

ASSUME FileAssumption ==
    /\ Writers \cap Readers = {}
    /\ NChunks \in Nat \ {0}
    /\ None \notin Values \cup Objects
    /\ Faults \subseteq FaultKinds

VARIABLES
    path, tmp,  \* the objects the two names stand for; tmp may be None
    data,       \* data[o]: what object o contains
    pc,         \* pc[t]: the call thread t makes next
    val,        \* val[w]: the content given to the last write_file
    fd, pos,    \* the object thread t has open, and the next chunk of it
    buf,        \* buf[r]: what read_file has received so far
    reply,      \* reply[r]: what the last read_file returned
    outcome     \* outcome[w]: how the last write_file ended

names == <<path, tmp>>
vars == <<path, tmp, data, pc, val, fd, pos, buf, reply, outcome>>

TypeOK ==
    /\ path \in Objects /\ tmp \in Objects \cup {None}
    /\ data \in [Objects -> Data]
    /\ pc \in [Threads -> {"idle", "open", "stream", "mv"}]
    /\ val \in [Writers -> Values \cup {None}]
    /\ fd \in [Threads -> Objects \cup {None}]
    /\ pos \in [Threads -> 1..(NChunks + 1)]
    /\ buf \in [Readers -> Data]
    /\ reply \in [Readers -> Data]
    /\ outcome \in [Writers -> {"none", "returned", "raised"}]

Init ==
    /\ path \in Objects /\ tmp = None
    /\ \E v \in Values : data = [o \in Objects |-> Whole(v)]
    /\ pc = [t \in Threads |-> "idle"]
    /\ val = [w \in Writers |-> None]
    /\ fd = [t \in Threads |-> None]
    /\ pos = [t \in Threads |-> 1]
    /\ buf = [r \in Readers |-> Blank]
    /\ reply = [r \in Readers |-> Blank]
    /\ outcome = [w \in Writers |-> "none"]

-----------------------------------------------------------------------------
(* write_file *)

Call(w, v) ==
    /\ pc[w] = "idle"
    /\ pc' = [pc EXCEPT ![w] = "open"]
    /\ val' = [val EXCEPT ![w] = v]
    /\ outcome' = [outcome EXCEPT ![w] = "none"]
    /\ UNCHANGED <<names, data, fd, pos, buf, reply>>

\* A file object that neither name stands for and nobody has open.
Unused(o) == o \notin {path, tmp} /\ \A t \in Threads : fd[t] # o

\* Mutant of OpenTmp: the file itself is opened for writing
OpenInPlace(w) ==
    /\ pc[w] = "open"
    /\ data' = [data EXCEPT ![path] = Blank]
    /\ fd' = [fd EXCEPT ![w] = path]
    /\ pos' = [pos EXCEPT ![w] = 1]
    /\ pc' = [pc EXCEPT ![w] = "stream"]
    /\ UNCHANGED <<names, val, buf, reply, outcome>>

\* Opening with "w" empties the temporary file, or creates it.
OpenTmp(w) ==
    /\ pc[w] = "open"
    /\ \E o \in Objects :
          /\ IF tmp = None THEN Unused(o) ELSE o = tmp
          /\ tmp' = o
          /\ data' = [data EXCEPT ![o] = Blank]
          /\ fd' = [fd EXCEPT ![w] = o]
    /\ pos' = [pos EXCEPT ![w] = 1]
    /\ pc' = [pc EXCEPT ![w] = "stream"]
    /\ UNCHANGED <<path, val, buf, reply, outcome>>

WriteChunk(w) ==
    /\ pc[w] = "stream" /\ pos[w] \in Chunks
    /\ data' = [data EXCEPT ![fd[w]] = Patched(@, pos[w], val[w])]
    /\ pos' = [pos EXCEPT ![w] = @ + 1]
    /\ UNCHANGED <<names, pc, val, fd, buf, reply, outcome>>

\* Mutant of Close: the file is moved before the last chunk is written
CloseEarly(w) ==
    /\ pc[w] = "stream" /\ pos[w] >= NChunks
    /\ pc' = [pc EXCEPT ![w] = "mv"]
    /\ fd' = [fd EXCEPT ![w] = None]
    /\ UNCHANGED <<names, data, val, pos, buf, reply, outcome>>

Close(w) ==
    /\ pc[w] = "stream" /\ pos[w] > NChunks
    /\ pc' = [pc EXCEPT ![w] = "mv"]
    /\ fd' = [fd EXCEPT ![w] = None]
    /\ UNCHANGED <<names, data, val, pos, buf, reply, outcome>>

EndWrite(w, how) ==
    /\ pc' = [pc EXCEPT ![w] = "idle"]
    /\ outcome' = [outcome EXCEPT ![w] = how]
    /\ UNCHANGED <<data, val, pos, buf, reply>>

Move(w) ==
    /\ pc[w] = "mv" /\ tmp # None
    /\ path' = tmp /\ tmp' = None
    /\ \/ EndWrite(w, "returned")
       \/ "lost" \in Faults /\ EndWrite(w, "raised")
    /\ UNCHANGED fd

\* mv exits with an error: there is no temporary file any more, or mv itself
\* cannot do it.  write_file returns all the same.
MoveFails(w) ==
    /\ pc[w] = "mv"
    /\ tmp = None \/ "mv" \in Faults
    /\ EndWrite(w, "returned")
    /\ UNCHANGED <<names, fd>>

WriteRaises(w) ==
    /\ "raise" \in Faults /\ pc[w] # "idle"
    /\ fd' = [fd EXCEPT ![w] = None]
    /\ EndWrite(w, "raised")
    /\ UNCHANGED names

-----------------------------------------------------------------------------
(* read_file *)

OpenRead(r) ==
    /\ pc[r] = "idle"
    /\ pc' = [pc EXCEPT ![r] = "stream"]
    /\ fd' = [fd EXCEPT ![r] = path]
    /\ pos' = [pos EXCEPT ![r] = 1]
    /\ buf' = [buf EXCEPT ![r] = Blank]
    /\ UNCHANGED <<names, data, val, reply, outcome>>

ReadChunk(r) ==
    /\ pc[r] = "stream" /\ pos[r] \in Chunks
    /\ buf' = [buf EXCEPT ![r] = Patched(@, pos[r], data[fd[r]][pos[r]])]
    /\ pos' = [pos EXCEPT ![r] = @ + 1]
    /\ UNCHANGED <<names, data, pc, val, fd, reply, outcome>>

EndRead(r) ==
    /\ pc[r] = "stream"
    /\ \/ pos[r] > NChunks /\ reply' = [reply EXCEPT ![r] = buf[r]]
       \/ "raise" \in Faults /\ UNCHANGED reply
    /\ pc' = [pc EXCEPT ![r] = "idle"]
    /\ fd' = [fd EXCEPT ![r] = None]
    /\ UNCHANGED <<names, data, val, pos, buf, outcome>>

WriterStep(w) ==
    \/ \E v \in Values : Call(w, v)
    \/ OpenTmp(w) \/ WriteChunk(w) \/ Close(w)
    \/ Move(w) \/ MoveFails(w) \/ WriteRaises(w)
ReaderStep(r) == OpenRead(r) \/ ReadChunk(r) \/ EndRead(r)

Next == (\E w \in Writers : WriterStep(w)) \/ (\E r \in Readers : ReaderStep(r))
Spec == Init /\ [][Next]_vars

-----------------------------------------------------------------------------
(* One writer: the file is a register *)

SoleWriter == \A w, x \in Writers : w = x

\* What a handle of a thread guarantees while there is one writer.
WriterOK(w) ==
    /\ pc[w] # "idle" => val[w] \in Values
    /\ pc[w] = "stream" =>
          /\ fd[w] = tmp /\ tmp # None
          /\ \A k \in Chunks : k < pos[w] => data[tmp][k] = val[w]
    /\ pc[w] # "stream" => fd[w] = None
    /\ pc[w] = "mv" => tmp # None /\ data[tmp] = Whole(val[w])
ReaderOK(r) ==
    /\ pc[r] \in {"idle", "stream"}
    /\ pc[r] = "idle" => fd[r] = None
    /\ pc[r] = "stream" =>
          /\ fd[r] \in Objects \ {tmp} /\ data[fd[r]] \in Contents
          /\ \A k \in Chunks : k < pos[r] => buf[r][k] = data[fd[r]][k]

\* At every instant the path names a whole content that somebody wrote, so a
\* client that dies between any two calls leaves a readable file behind
\* (_backend.py:58, 197).
PathWhole == data[path] \in Contents

\* The inductive invariant: handles, names and the chunks behind them.
FileInv ==
    /\ TypeOK
    /\ path # tmp
    /\ PathWhole
    /\ \A w \in Writers : WriterOK(w)
    /\ \A r \in Readers : ReaderOK(r)

\* With one writer the calls implement a register, whichever of them fail and
\* however reads overlap the write: Routing takes each call as one step on the
\* strength of this.
R == INSTANCE Register WITH
        Contents <- Contents, NoContent <- Blank,
        value <- data[path],
        pending <- [w \in Writers |->
                      IF pc[w] = "idle" THEN Blank ELSE Whole(val[w])],
        taken <- [r \in Readers |->
                      IF pc[r] = "stream" THEN data[fd[r]] ELSE Blank]
IsRegister == R!Spec
=============================================================================
