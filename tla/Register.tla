-------------------------------- MODULE Register --------------------------------
(***************************************************************************)
(* What SshBackend promises its callers about one remote file: a register.  *)
(* A write takes effect at one instant or not at all, and a read returns    *)
(* the whole content the file had at one instant of the read.               *)
(***************************************************************************)
CONSTANTS
    Writers,   \* threads that call write_file
    Readers,   \* threads that call read_file
    Contents,  \* what the file may contain
    NoContent  \* no content: nothing pending, taken or answered

VARIABLES
    value,    \* the content of the file
    pending,  \* pending[w]: what writer w has asked for and has not settled
    taken,    \* taken[r]: the content reader r will return
    reply     \* reply[r]: what its last read returned

vars == <<value, pending, taken, reply>>

Init ==
    /\ value \in Contents
    /\ pending = [w \in Writers |-> NoContent]
    /\ taken = [r \in Readers |-> NoContent]
    /\ reply = [r \in Readers |-> NoContent]

Ask(w, c) ==
    /\ pending[w] = NoContent
    /\ pending' = [pending EXCEPT ![w] = c]
    /\ UNCHANGED <<value, taken, reply>>

Publish(w) ==
    /\ pending[w] # NoContent
    /\ value' = pending[w]
    /\ pending' = [pending EXCEPT ![w] = NoContent]
    /\ UNCHANGED <<taken, reply>>

Drop(w) ==
    /\ pending' = [pending EXCEPT ![w] = NoContent]
    /\ UNCHANGED <<value, taken, reply>>

Take(r) ==
    /\ taken[r] = NoContent
    /\ taken' = [taken EXCEPT ![r] = value]
    /\ UNCHANGED <<value, pending, reply>>

Answer(r) ==
    /\ taken[r] # NoContent
    /\ reply' = [reply EXCEPT ![r] = taken[r]]
    /\ taken' = [taken EXCEPT ![r] = NoContent]
    /\ UNCHANGED <<value, pending>>

Forget(r) ==
    /\ taken' = [taken EXCEPT ![r] = NoContent]
    /\ UNCHANGED <<value, pending, reply>>

Next ==
    \/ \E w \in Writers : (\E c \in Contents : Ask(w, c)) \/ Publish(w) \/ Drop(w)
    \/ \E r \in Readers : Take(r) \/ Answer(r) \/ Forget(r)

Spec == Init /\ [][Next]_vars
=============================================================================
