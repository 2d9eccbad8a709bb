----------------------------- MODULE MCFakeBackend -----------------------------
(* Model values for the runs of FakeBackend. *)
EXTENDS FakeBackend

\* The first thread makes VMs and snapshots, and deletes them; the other takes
\* snapshots too, restores them, and deletes VMs.
MCStore == [c \in Clients |->
              IF c = 1 THEN {"launch", "clone_to", "delete", "snapshot", "forget"}
              ELSE {"delete", "snapshot", "restore"}]
=============================================================================
