---------------------------- MODULE MCEnsureRunning ----------------------------
(* Model values for the runs of EnsureRunning. *)
EXTENDS EnsureRunning

\* Both clients call ensure_running, the first one purges too.
MCOps == [c \in Clients |-> IF c = 1 THEN {"ensure", "purge"} ELSE {"ensure"}]
MCEnsure == [c \in Clients |-> {"ensure"}]
\* The second client was made with a node, that where both clone to.
MCPin == [c \in Clients |-> IF c = 1 THEN NoNode ELSE "n1"]
MCTarget == [c \in Clients |-> "n1"]
\* The first client calls twice, the other once.
MCCalls == [c \in Clients |-> IF c = 1 THEN 2 ELSE 1]
MCOneCall == [c \in Clients |-> 1]
=============================================================================
