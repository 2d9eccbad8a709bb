-------------------------- MODULE EnsureRunning_proofs --------------------------
(***************************************************************************)
(* Theorems about ensure_running and purge for any number of clients, calls *)
(* and VM ids, and any faults.  All follow from the invariant EnsureInv.    *)
(***************************************************************************)
EXTENDS EnsureRunning, TLAPS

USE EnsureAssumption

Waiting == {"wait_clone", "wait_start", "wait_launch", "wait_delete"}

\* What EnsureInv says of one client, and of the tasks.
ClientInv(c) ==
    /\ ClientOK(c)
    /\ result[c] = "running" /\ ~lost[c]
         => vms[handle[c]].named /\ vms[handle[c]].status = "running"
    /\ pc[c] \in Launching => present[c] = {}
    /\ result[c] = "purged" => present[c] = {}
TypeVars ==
    /\ vms \in [VmIds -> VmRecord]
    /\ outcome \in [Clients -> {"none", "ok", "failed"}]
    /\ pc \in [Clients -> {"idle"} \cup Looking \cup Launching \cup Purging]
    /\ handle \in [Clients -> VmIds \cup {NoId}]
    /\ listed \in [Clients -> SUBSET VmIds]
    /\ known \in [Clients -> [VmIds -> Nodes \cup {NoNode}]]
    /\ present \in [Clients -> SUBSET VmIds]
    /\ lost \in [Clients -> BOOLEAN]
    /\ result \in [Clients -> {"none", "running", "purged", "raised"}]
    /\ calls \in [Clients -> Nat]
JobsInv == jobs \subseteq Job /\ (\A j \in jobs : JobOK(j)) /\ OneClone

\* A step that keeps the names, states and nodes of the VMs that exist.
VmsKept == \A id \in Existing :
    /\ vms'[id].status = vms[id].status /\ vms'[id].named = vms[id].named
    /\ vms'[id].node = vms[id].node

\* A step in which client c alone acts.
Aside(c) == \A d \in Clients \ {c} :
    /\ pc'[d] = pc[d] /\ handle'[d] = handle[d] /\ outcome'[d] = outcome[d]
    /\ listed'[d] = listed[d] /\ present'[d] = present[d] /\ lost'[d] = lost[d]
    /\ result'[d] = result[d]

LEMMA Parts ==
    EnsureInv <=> /\ TypeOK /\ JobsInv /\ SettingsAccounted
                  /\ \A c \in Clients : ClientInv(c)
BY DEF EnsureInv, JobsInv, ClientInv, TypeOK, ReturnedRunning, ClonesOnlyWhenMissing,
       PurgedAll

LEMMA InitInv == Init => EnsureInv
<1> SUFFICES ASSUME Init PROVE EnsureInv
  OBVIOUS
<1>1. TypeOK
  <2>1. Absent \in VmRecord
    BY DEF Absent, VmRecord
  <2>2. \A s \in {"stopped", "running"}, n \in Nodes :
           /\ [Absent EXCEPT !.status = "stopped", !.node = n] \in VmRecord
           /\ [Absent EXCEPT !.named = TRUE, !.status = s, !.configured = TRUE, !.node = n]
                 \in VmRecord
    BY DEF Absent, VmRecord
  <2>3. vms \in [VmIds -> VmRecord]
    <3>1. PICK s \in {"absent", "stopped", "running"}, m \in Nodes, n \in Nodes :
             vms = [id \in VmIds |->
                      IF id = Template
                      THEN [Absent EXCEPT !.status = "stopped", !.node = m]
                      ELSE IF id = LastId /\ s # "absent"
                      THEN [Absent EXCEPT !.named = TRUE, !.status = s,
                                          !.configured = TRUE, !.node = n]
                      ELSE Absent]
      BY DEF Init
    <3> QED BY <2>1, <2>2, <3>1
  <2>4. known \in [Clients -> [VmIds -> Nodes \cup {NoNode}]]
    BY DEF Init, NoneKnown
  <2> QED BY <2>3, <2>4 DEF Init, TypeOK
<1>2. JobsInv
  BY DEF Init, JobsInv, OneClone
<1>3. SettingsAccounted
  BY DEF Init, SettingsAccounted, Absent
<1>4. \A c \in Clients : ClientInv(c)
  BY DEF Init, ClientInv, ClientOK, Holding, Launching
<1> QED BY <1>1, <1>2, <1>3, <1>4, Parts

-----------------------------------------------------------------------------
(* The tasks *)

\* A task of a client that is not waiting does not exist.
LEMMA NoTask ==
    ASSUME JobsInv, NEW c \in Clients, pc[c] \notin Waiting
    PROVE  \A j \in jobs : j.for # c
BY DEF JobsInv, JobOK, Job, Waits, Waiting

LEMMA SubmitKeeps ==
    ASSUME TypeOK, JobsInv, NEW c \in Clients, pc[c] \notin Waiting,
           NEW kind \in {"clone", "start", "delete"}, NEW id \in VmIds,
           Submit(c, kind, id), VmsKept,
           \A d \in Clients \ {c} : pc'[d] = pc[d] /\ handle'[d] = handle[d],
           pc'[c] \in Waits(kind), handle'[c] = id,
           kind = "clone" => id \notin Existing /\ vms'[id].status = "cloning"
    PROVE  JobsInv' /\ outcome' = [outcome EXCEPT ![c] = "none"]
<1> DEFINE new == [kind |-> kind, id |-> id, for |-> c]
<1>1. jobs' = jobs \cup {new} /\ outcome' = [outcome EXCEPT ![c] = "none"]
  BY DEF Submit
<1>2. new \in Job
  BY DEF Job
<1>3. ASSUME NEW j \in jobs PROVE JobOK(j)'
  <2>1. JobOK(j) /\ j \in Job /\ j.for # c
    BY NoTask DEF JobsInv
  <2>2. j.kind = "clone" => vms'[j.id].status = "cloning"
    BY <2>1 DEF JobOK, VmsKept, Existing, Job
  <2>3. j.for # Nobody => pc'[j.for] = pc[j.for] /\ handle'[j.for] = handle[j.for]
                          /\ outcome'[j.for] = outcome[j.for]
    BY <1>1, <2>1 DEF Job, TypeOK
  <2> QED BY <2>1, <2>2, <2>3 DEF JobOK
<1>4. JobOK(new)'
  BY <1>1 DEF JobOK, TypeOK
<1>5. \A j \in jobs : j.kind = "clone" => j.id # id \/ kind # "clone"
  BY DEF JobsInv, JobOK, Existing
<1>6. OneClone'
  BY <1>1, <1>5 DEF JobsInv, OneClone
<1> QED BY <1>1, <1>2, <1>3, <1>4, <1>6 DEF JobsInv

LEMMA LeaveKeeps ==
    ASSUME TypeOK, JobsInv, NEW c \in Clients, Leave(c), VmsKept,
           \A d \in Clients \ {c} : pc'[d] = pc[d] /\ handle'[d] = handle[d]
    PROVE  JobsInv' /\ outcome' = [outcome EXCEPT ![c] = "none"]
<1> DEFINE After(j) == IF j.for = c THEN [j EXCEPT !.for = Nobody] ELSE j
<1>1. jobs' = {After(j) : j \in jobs} /\ outcome' = [outcome EXCEPT ![c] = "none"]
  BY DEF Leave
<1>2. ASSUME NEW j \in jobs
      PROVE  /\ After(j) \in Job /\ After(j).kind = j.kind /\ After(j).id = j.id
             /\ JobOK(After(j))'
  <2>1. j \in Job /\ JobOK(j)
    BY DEF JobsInv
  <2>2. j.kind = "clone" => vms'[j.id].status = "cloning"
    BY <2>1 DEF JobOK, VmsKept, Existing, Job
  <2>3. CASE j.for = c
    <3>1. After(j) = [kind |-> j.kind, id |-> j.id, for |-> Nobody]
      BY <2>1, <2>3 DEF Job
    <3> HIDE DEF After
    <3> QED BY <2>1, <2>2, <3>1 DEF Job, JobOK
  <2>4. CASE j.for # c
    <3>1. After(j) = j
      BY <2>4
    <3>2. j.for # Nobody => /\ pc'[j.for] = pc[j.for] /\ handle'[j.for] = handle[j.for]
                            /\ outcome'[j.for] = outcome[j.for]
      BY <1>1, <2>1, <2>4 DEF Job, TypeOK
    <3> HIDE DEF After
    <3> QED BY <2>1, <2>2, <3>1, <3>2 DEF JobOK
  <2> QED BY <2>3, <2>4
<1> HIDE DEF After
<1>3. OneClone'
  <2> SUFFICES ASSUME NEW j \in jobs, NEW k \in jobs, After(j).kind = "clone",
                      After(k).kind = "clone", After(j).id = After(k).id
               PROVE  After(j) = After(k)
    BY <1>1 DEF OneClone
  <2>1. j = k
    BY <1>2 DEF JobsInv, OneClone
  <2> QED BY <2>1
<1> QED BY <1>1, <1>2, <1>3 DEF JobsInv

LEMMA IdleKeeps ==
    ASSUME TypeOK, JobsInv, NEW c \in Clients, pc[c] \notin Waiting,
           UNCHANGED <<jobs, outcome>>, VmsKept,
           \A d \in Clients \ {c} : pc'[d] = pc[d] /\ handle'[d] = handle[d]
    PROVE  JobsInv'
<1>1. ASSUME NEW j \in jobs PROVE JobOK(j)'
  <2>1. JobOK(j) /\ j \in Job /\ j.for # c
    BY NoTask DEF JobsInv
  <2>2. j.kind = "clone" => vms'[j.id].status = "cloning"
    BY <2>1 DEF JobOK, VmsKept, Existing, Job
  <2>3. j.for # Nobody => pc'[j.for] = pc[j.for] /\ handle'[j.for] = handle[j.for]
    BY <2>1 DEF Job
  <2> QED BY <2>1, <2>2, <2>3 DEF JobOK
<1> QED BY <1>1 DEF JobsInv, OneClone

-----------------------------------------------------------------------------
(* The clients *)

\* The others keep what they rely on when client c alone acts and only creates or
\* configures VMs.
LEMMA OthersKeep ==
    ASSUME TypeOK, NEW c \in Clients, Aside(c), VmsKept,
           NEW d \in Clients \ {c}, ClientInv(d)
    PROVE  ClientInv(d)'
<1>1. Existing \subseteq Existing' /\ Named \subseteq Named' /\ Visible(d) \subseteq Visible(d)'
  BY DEF VmsKept, Existing, Named, Visible, Sees
<1>2. /\ pc'[d] = pc[d] /\ handle'[d] = handle[d] /\ outcome'[d] = outcome[d]
      /\ listed'[d] = listed[d] /\ present'[d] = present[d] /\ lost'[d] = lost[d]
      /\ result'[d] = result[d]
  BY DEF Aside
<1>3. \A id \in VmIds : vms[id].status = "running" =>
          vms'[id].status = "running" /\ vms'[id].named = vms[id].named
  BY DEF VmsKept, Existing
<1>4. ClientOK(d)'
  <2>1. pc[d] \in {"wait_start", "wait_launch"} /\ ~lost[d] => handle[d] \in VmIds
    BY DEF ClientInv, ClientOK, Holding, Named, Existing
  <2> QED BY <1>1, <1>2, <1>3, <2>1 DEF ClientInv, ClientOK
<1>5. result[d] = "running" => handle[d] \in VmIds
  BY DEF ClientInv, ClientOK
<1> QED BY <1>2, <1>3, <1>4, <1>5 DEF ClientInv

\* What a client step has to show.
LEMMA ClientStepKeeps ==
    ASSUME EnsureInv, NEW c \in Clients, TypeVars', JobsInv', SettingsAccounted',
           Aside(c), VmsKept, ClientInv(c)'
    PROVE  EnsureInv'
<1>1. \A d \in Clients \ {c} : ClientInv(d)'
  BY OthersKeep, Parts
<1>2. \A d \in Clients : ClientInv(d)'
  BY <1>1
<1> QED BY <1>2 DEF EnsureInv, JobsInv, ClientInv, TypeOK, TypeVars, ReturnedRunning,
       ClonesOnlyWhenMissing, PurgedAll

\* A step that touches no VM and moves no client out of a launch.
LEMMA SettingsKept ==
    ASSUME TypeOK, SettingsAccounted, NEW c \in Clients, Aside(c), UNCHANGED vms,
           pc[c] \notin {"wait_clone", "config"}
    PROVE  SettingsAccounted'
<1> SUFFICES ASSUME NEW id \in VmIds, vms[id].by # Nobody
             PROVE  pc'[vms[id].by] \in {"wait_clone", "config"}
                    /\ handle'[vms[id].by] = id
  BY DEF SettingsAccounted
<1> QED BY DEF SettingsAccounted, Aside, TypeOK, VmRecord

\* Client c alone acts, and touches no VM.
LEMMA QuietStep ==
    ASSUME EnsureInv, NEW c \in Clients, TypeVars', JobsInv', Aside(c), UNCHANGED vms,
           pc[c] \notin {"wait_clone", "config"}, ClientInv(c)'
    PROVE  EnsureInv'
<1>1. TypeOK /\ SettingsAccounted
  BY DEF EnsureInv
<1>2. SettingsAccounted'
  BY <1>1, SettingsKept
<1>3. VmsKept
  BY DEF VmsKept
<1> QED BY <1>2, <1>3, ClientStepKeeps

-----------------------------------------------------------------------------
(* The steps of a client *)

LEMMA LookingStep ==
    ASSUME EnsureInv, NEW c \in Clients,
           \/ Ensure(c) \/ Lookup(c) \/ Info(c) \/ Gone(c) \/ NextId(c)
           \/ Purge(c) \/ List(c) \/ Purged(c)
    PROVE  EnsureInv'
<1> USE DEF Looking, Launching, Purging, Holding, Waiting
<1>a. /\ TypeOK /\ JobsInv /\ ClientInv(c)
      /\ pc[c] \in {"idle", "lookup", "info", "start", "nextid", "list", "delete"}
      /\ UNCHANGED <<vms, jobs, outcome>>
  BY Parts DEF Ensure, Lookup, Info, Gone, NextId, Purge, List, Purged, Begin, tasks
<1>b. VmsKept
  BY <1>a DEF VmsKept
<1>c. /\ Existing' = Existing /\ Named' = Named /\ Named \subseteq Existing
      /\ Existing \subseteq VmIds /\ Visible(c)' = Visible(c) /\ Visible(c) \subseteq Named
  BY <1>a DEF Existing, Named, Visible, Sees
<1>d. /\ NoneKnown \in [VmIds -> Nodes \cup {NoNode}]
      /\ \A id \in Existing : [NoneKnown EXCEPT ![id] = vms[id].node]
                                 \in [VmIds -> Nodes \cup {NoNode}]
      /\ \A S \in SUBSET VmIds : [id \in VmIds |-> IF id \in S THEN vms[id].node ELSE NoNode]
                                 \in [VmIds -> Nodes \cup {NoNode}]
  BY <1>a DEF NoneKnown, Existing, TypeOK, VmRecord
<1>1. TypeVars' /\ Aside(c)
  <2> USE <1>a DEF TypeOK, TypeVars, Aside
  <2>1. CASE Ensure(c)
    BY <1>c, <1>d, <2>1 DEF Ensure, Begin
  <2>2. CASE Purge(c)
    BY <1>d, <2>2 DEF Purge, Begin
  <2>3. CASE Lookup(c)
    <3>1. CASE UNCHANGED <<handle, known, present>>
      BY <2>3, <3>1 DEF Lookup, Found, Goto
    <3>2. ASSUME NEW id \in Visible(c), Found(c, id) PROVE TypeVars' /\ Aside(c)
      <4>1. known' \in [Clients -> [VmIds -> Nodes \cup {NoNode}]]
        BY <1>c, <1>d, <3>2 DEF Found
      <4> QED BY <1>c, <2>3, <3>2, <4>1 DEF Lookup, Found, Goto
    <3> QED BY <2>3, <3>1, <3>2 DEF Lookup
  <2>4. CASE Info(c) \/ Gone(c)
    BY <2>4 DEF Info, Gone, Goto, End, memory
  <2>5. CASE NextId(c)
    BY <2>5 DEF NextId, Goto
  <2>6. CASE List(c)
    <3>1. {id \in Existing : Sees(c, id)} \subseteq VmIds
      BY <1>c
    <3>2. known' \in [Clients -> [VmIds -> Nodes \cup {NoNode}]]
      BY <1>d, <2>6, <3>1 DEF List
    <3> QED BY <2>6, <3>1, <3>2 DEF List, Goto
  <2>7. CASE Purged(c)
    BY <2>7 DEF Purged, End, memory
  <2> QED BY <2>1, <2>2, <2>3, <2>4, <2>5, <2>6, <2>7
<1>2. JobsInv'
  BY <1>a, <1>b, <1>1, IdleKeeps DEF Aside
<1>3. ClientInv(c)'
  <2>1. CASE Ensure(c) \/ Purge(c)
    BY <1>a, <1>c, <2>1 DEF Ensure, Purge, Begin, ClientInv, ClientOK, TypeOK
  <2>2. CASE Lookup(c)
    BY <1>a, <1>c, <2>2 DEF Lookup, Found, Goto, ClientInv, ClientOK, TypeOK
  <2>3. CASE Info(c)
    BY <1>a, <1>c, <2>3 DEF Info, Goto, End, memory, Reaches, ClientInv, ClientOK,
       TypeOK, Named
  <2>4. CASE Gone(c) \/ NextId(c)
    BY <1>a, <1>c, <2>4 DEF Gone, NextId, Goto, memory, ClientInv, ClientOK, TypeOK
  <2>5. CASE List(c) \/ Purged(c)
    BY <1>a, <1>c, <2>5 DEF List, Purged, Goto, End, memory, ClientInv, ClientOK,
       TypeOK
  <2> QED BY <2>1, <2>2, <2>3, <2>4, <2>5
<1> QED BY <1>a, <1>1, <1>2, <1>3, QuietStep

LEMMA SubmittingStep ==
    ASSUME EnsureInv, NEW c \in Clients, Start(c) \/ DeleteNext(c)
    PROVE  EnsureInv'
<1> USE DEF Looking, Launching, Purging, Holding, Waiting
<1>a. TypeOK /\ JobsInv /\ ClientInv(c)
  BY Parts
<1>b. PICK kind \in {"start", "delete"}, id \in Existing :
          /\ Submit(c, kind, id) /\ UNCHANGED <<vms, known, present, lost, result, calls>>
          /\ handle' = [handle EXCEPT ![c] = id]
          /\ \/ /\ kind = "start" /\ id = handle[c]
                /\ listed' = listed
                /\ \/ pc[c] = "start" /\ pc' = [pc EXCEPT ![c] = "wait_start"]
                   \/ pc[c] = "launch_start" /\ pc' = [pc EXCEPT ![c] = "wait_launch"]
             \/ /\ kind = "delete" /\ pc[c] = "delete"
                /\ listed' = [listed EXCEPT ![c] = @ \ {id}]
                /\ pc' = [pc EXCEPT ![c] = "wait_delete"]
  <2>1. CASE Start(c)
    <3>1. handle[c] \in Existing /\ handle' = [handle EXCEPT ![c] = handle[c]]
      BY <1>a, <2>1 DEF Start, Reaches, memory, TypeOK
    <3> QED BY <2>1, <3>1 DEF Start, Goto, memory
  <2>2. CASE DeleteNext(c)
    BY <2>2 DEF DeleteNext, Reaches, Goto
  <2> QED BY <2>1, <2>2
<1>c. VmsKept /\ id \in VmIds /\ pc[c] \notin Waiting /\ pc'[c] \in Waits(kind)
      /\ handle'[c] = id
      /\ \A d \in Clients \ {c} : pc'[d] = pc[d] /\ handle'[d] = handle[d]
  BY <1>a, <1>b DEF VmsKept, Existing, Waits, TypeOK
<1>1. JobsInv' /\ outcome' = [outcome EXCEPT ![c] = "none"]
  BY <1>a, <1>b, <1>c, SubmitKeeps
<1>2. TypeVars' /\ Aside(c)
  <2>1. Aside(c)
    BY <1>a, <1>b, <1>c, <1>1 DEF TypeOK, Aside
  <2>2. known' \in [Clients -> [VmIds -> Nodes \cup {NoNode}]]
    <3>1. known' = known
      BY <1>b
    <3> QED BY <1>a, <3>1 DEF TypeOK
  <2>3. listed' \in [Clients -> SUBSET VmIds]
    <3>1. listed \in [Clients -> SUBSET VmIds]
      BY <1>a DEF TypeOK
    <3> QED BY <1>b, <3>1
  <2> QED BY <1>a, <1>b, <1>c, <1>1, <2>1, <2>2, <2>3 DEF TypeOK, TypeVars
<1>3. ClientInv(c)'
  BY <1>a, <1>b, <1>c, <1>1 DEF ClientInv, ClientOK, TypeOK, Named, Existing
<1> QED BY <1>b, <1>1, <1>2, <1>3, QuietStep

LEMMA LeavingStep ==
    ASSUME EnsureInv, NEW c \in Clients,
           \/ Started(c) \/ TakenForGone(c) \/ Deleted(c)
    PROVE  EnsureInv'
<1> USE DEF Looking, Launching, Purging, Holding
<1>a. /\ TypeOK /\ JobsInv /\ ClientInv(c)
      /\ Leave(c) /\ UNCHANGED <<vms, handle, listed, known, lost, calls>>
      /\ pc[c] \notin {"wait_clone", "config"}
  BY Parts DEF Started, TakenForGone, Deleted, memory, End, Goto
<1>b. VmsKept /\ \A d \in Clients \ {c} : pc'[d] = pc[d] /\ handle'[d] = handle[d]
  BY <1>a DEF VmsKept, Started, TakenForGone, Deleted, End, Goto, TypeOK
<1>1. JobsInv' /\ outcome' = [outcome EXCEPT ![c] = "none"]
  BY <1>a, <1>b, LeaveKeeps
<1>2. TypeVars' /\ Aside(c)
  BY <1>a, <1>1 DEF TypeOK, TypeVars, Aside, Started, TakenForGone, Deleted, memory,
     End, Goto
<1>3. ClientInv(c)'
  <2>1. CASE Started(c)
    BY <1>a, <2>1 DEF Started, memory, End, ClientInv, ClientOK, TypeOK, Named,
       Existing
  <2>2. CASE TakenForGone(c)
    BY <1>a, <2>2 DEF TakenForGone, Goto, ClientInv, ClientOK, TypeOK
  <2>3. CASE Deleted(c)
    BY <1>a, <1>1, <2>3 DEF Deleted, memory, Goto, ClientInv, ClientOK, TypeOK
  <2> QED BY <2>1, <2>2, <2>3
<1> QED BY <1>a, <1>1, <1>2, <1>3, QuietStep

LEMMA LaunchingStep ==
    ASSUME EnsureInv, NEW c \in Clients, Clone(c) \/ Cloned(c) \/ Configure(c)
    PROVE  EnsureInv'
<1> USE DEF Looking, Launching, Purging, Holding, Waiting
<1>a. TypeOK /\ JobsInv /\ ClientInv(c) /\ SettingsAccounted
  BY Parts
<1>1. CASE Clone(c)
  <2>1. /\ pc[c] = "clone" /\ handle[c] \in VmIds /\ handle[c] \notin Existing
        /\ pc' = [pc EXCEPT ![c] = "wait_clone"]
        /\ lost' = [lost EXCEPT ![c] = FALSE]
        /\ UNCHANGED <<handle, listed, present, result, calls>>
        /\ known' \in [Clients -> [VmIds -> Nodes \cup {NoNode}]]
    BY <1>1, <1>a DEF Clone, Goto, ClientInv, ClientOK, NoneKnown, TypeOK
  <2>2. /\ \A id \in VmIds \ {handle[c]} : vms'[id] = vms[id]
        /\ vms'[handle[c]] = [named |-> TRUE, status |-> "cloning",
                              configured |-> FALSE, by |-> c, node |-> Target[c]]
        /\ vms' \in [VmIds -> VmRecord]
    BY <1>1, <1>a, <2>1 DEF Clone, TypeOK, VmRecord
  <2>3. VmsKept
    BY <2>1, <2>2 DEF VmsKept, Existing
  <2>4. JobsInv' /\ outcome' = [outcome EXCEPT ![c] = "none"]
    <3>1. Submit(c, "clone", handle[c]) /\ pc'[c] \in Waits("clone")
          /\ \A d \in Clients \ {c} : pc'[d] = pc[d]
      BY <1>1, <1>a, <2>1 DEF Clone, Waits, TypeOK
    <3> QED BY <1>a, <2>1, <2>2, <2>3, <3>1, SubmitKeeps
  <2>5. TypeVars' /\ Aside(c)
    BY <1>a, <2>1, <2>2, <2>4 DEF TypeOK, TypeVars, Aside
  <2>6. ClientInv(c)'
    BY <1>a, <2>1, <2>2, <2>4 DEF ClientInv, ClientOK, TypeOK, Named, Existing
  <2>7. SettingsAccounted'
    <3> SUFFICES ASSUME NEW id \in VmIds, vms'[id].by # Nobody
                 PROVE  /\ pc'[vms'[id].by] \in {"wait_clone", "config"}
                        /\ handle'[vms'[id].by] = id
      BY DEF SettingsAccounted
    <3>1. CASE id = handle[c]
      BY <1>a, <2>1, <2>2, <3>1 DEF TypeOK
    <3>2. CASE id # handle[c]
      <4>1. pc[vms[id].by] \in {"wait_clone", "config"} /\ handle[vms[id].by] = id
        BY <1>a, <2>2, <3>2 DEF SettingsAccounted
      <4>2. vms[id].by \in Clients \ {c}
        BY <1>a, <2>1, <2>2, <3>2, <4>1 DEF TypeOK, VmRecord
      <4> QED BY <1>a, <2>1, <2>2, <3>2, <4>1, <4>2 DEF TypeOK
    <3> QED BY <3>1, <3>2
  <2> QED BY <2>3, <2>4, <2>5, <2>6, <2>7, ClientStepKeeps
<1>2. CASE Cloned(c)
  <2>1. /\ pc[c] = "wait_clone" /\ pc' = [pc EXCEPT ![c] = "config"]
        /\ Leave(c)
        /\ UNCHANGED <<vms, handle, listed, known, present, lost, result, calls>>
    BY <1>2 DEF Cloned, Goto, memory
  <2>2. VmsKept
    BY <2>1 DEF VmsKept
  <2>3. JobsInv' /\ outcome' = [outcome EXCEPT ![c] = "none"]
    <3>1. \A d \in Clients \ {c} : pc'[d] = pc[d] /\ handle'[d] = handle[d]
      BY <2>1
    <3> QED BY <1>a, <2>1, <2>2, <3>1, LeaveKeeps
  <2>4. TypeVars' /\ Aside(c)
    BY <1>a, <2>1, <2>3 DEF TypeOK, TypeVars, Aside
  <2>5. ClientInv(c)'
    BY <1>a, <2>1 DEF ClientInv, ClientOK, TypeOK, Named, Existing
  <2>6. SettingsAccounted'
    BY <1>a, <2>1 DEF SettingsAccounted, TypeOK, VmRecord
  <2> QED BY <2>2, <2>3, <2>4, <2>5, <2>6, ClientStepKeeps
<1>3. CASE Configure(c)
  <2>1. /\ pc[c] = "config" /\ pc' = [pc EXCEPT ![c] = "launch_start"]
        /\ handle[c] \in VmIds
        /\ UNCHANGED <<jobs, outcome, handle, listed, known, present, lost, result,
                       calls>>
    BY <1>3 DEF Configure, Goto, memory, tasks, Reaches, Existing
  <2>2. /\ \A id \in VmIds \ {handle[c]} : vms'[id] = vms[id]
        /\ vms'[handle[c]] = [vms[handle[c]] EXCEPT !.configured = TRUE, !.by = Nobody]
    BY <1>3, <1>a, <2>1 DEF Configure, TypeOK
  <2>3. /\ vms'[handle[c]].named = vms[handle[c]].named
        /\ vms'[handle[c]].status = vms[handle[c]].status
        /\ vms'[handle[c]].by = Nobody
        /\ vms'[handle[c]].node = vms[handle[c]].node
        /\ vms'[handle[c]] \in VmRecord
    <3> DEFINE old == vms[handle[c]]
    <3>1. old \in VmRecord
      BY <1>a, <2>1 DEF TypeOK
    <3>2. vms'[handle[c]] = [named |-> old.named, status |-> old.status,
                             configured |-> TRUE, by |-> Nobody, node |-> old.node]
      BY <2>2, <3>1 DEF VmRecord
    <3> HIDE DEF old
    <3>3. vms'[handle[c]] \in VmRecord
      BY <3>1, <3>2 DEF VmRecord
    <3> QED BY <3>2, <3>3 DEF old
  <2>4. VmsKept
    BY <2>2, <2>3 DEF VmsKept, Existing
  <2>5. JobsInv'
    <3>1. \A d \in Clients \ {c} : pc'[d] = pc[d] /\ handle'[d] = handle[d]
      BY <2>1
    <3> QED BY <1>a, <2>1, <2>4, <3>1, IdleKeeps
  <2>6. TypeVars' /\ Aside(c)
    <3>1. vms' \in [VmIds -> VmRecord]
      BY <1>3, <1>a, <2>2, <2>3 DEF Configure, TypeOK
    <3> QED BY <1>a, <2>1, <3>1 DEF TypeOK, TypeVars, Aside
  <2>7. ClientInv(c)'
    BY <1>a, <2>1, <2>3 DEF ClientInv, ClientOK, TypeOK, Named, Existing
  <2>8. SettingsAccounted'
    <3> SUFFICES ASSUME NEW id \in VmIds, vms'[id].by # Nobody
                 PROVE  /\ pc'[vms'[id].by] \in {"wait_clone", "config"}
                        /\ handle'[vms'[id].by] = id
      BY DEF SettingsAccounted
    <3>1. id # handle[c] /\ vms'[id] = vms[id]
      BY <2>2, <2>3
    <3>2. pc[vms[id].by] \in {"wait_clone", "config"} /\ handle[vms[id].by] = id
      BY <1>a, <3>1 DEF SettingsAccounted
    <3>3. vms[id].by \in Clients \ {c}
      BY <1>a, <3>1, <3>2 DEF TypeOK, VmRecord
    <3> QED BY <1>a, <2>1, <3>1, <3>2, <3>3 DEF TypeOK
  <2> QED BY <2>4, <2>5, <2>6, <2>7, <2>8, ClientStepKeeps
<1> QED BY <1>1, <1>2, <1>3

LEMMA RaisingStep ==
    ASSUME EnsureInv, NEW c \in Clients, Raises(c)
    PROVE  EnsureInv'
<1> USE DEF Looking, Launching, Purging, Holding
<1>a. TypeOK /\ JobsInv /\ ClientInv(c) /\ SettingsAccounted
  BY Parts
<1>1. /\ pc' = [pc EXCEPT ![c] = "idle"] /\ result' = [result EXCEPT ![c] = "raised"]
      /\ Leave(c) /\ UNCHANGED calls
      /\ handle' = [handle EXCEPT ![c] = NoId]
      /\ listed' = [listed EXCEPT ![c] = {}]
      /\ known' = [known EXCEPT ![c] = NoneKnown]
      /\ NoneKnown \in [VmIds -> Nodes \cup {NoNode}]
      /\ present' = [present EXCEPT ![c] = {}]
      /\ lost' = [lost EXCEPT ![c] = FALSE]
  BY DEF Raises, End, NoneKnown
<1>2. /\ vms' \in [VmIds -> VmRecord]
      /\ \A id \in VmIds : /\ vms'[id].named = vms[id].named
                            /\ vms'[id].status = vms[id].status
                            /\ vms'[id].node = vms[id].node
                            /\ vms'[id].by = IF vms[id].by = c THEN Nobody
                                                              ELSE vms[id].by
  <2>1. vms' = [id \in VmIds |-> IF vms[id].by = c THEN [vms[id] EXCEPT !.by = Nobody]
                                                  ELSE vms[id]]
    BY DEF Raises
  <2>2. ASSUME NEW id \in VmIds
        PROVE  /\ vms'[id] \in VmRecord
               /\ vms'[id].named = vms[id].named /\ vms'[id].status = vms[id].status
               /\ vms'[id].node = vms[id].node
               /\ vms'[id].by = IF vms[id].by = c THEN Nobody ELSE vms[id].by
    <3> DEFINE old == vms[id]
    <3>1. old \in VmRecord
      BY <1>a DEF TypeOK
    <3>2. [old EXCEPT !.by = Nobody] =
            [named |-> old.named, status |-> old.status, configured |-> old.configured,
             by |-> Nobody, node |-> old.node]
      BY <3>1 DEF VmRecord
    <3>3. [old EXCEPT !.by = Nobody] \in VmRecord
      BY <3>1, <3>2 DEF VmRecord
    <3>4. vms'[id] = IF old.by = c THEN [old EXCEPT !.by = Nobody] ELSE old
      BY <2>1
    <3> QED BY <3>1, <3>2, <3>3, <3>4
  <2> QED BY <2>1, <2>2
<1>3. VmsKept
  BY <1>2 DEF VmsKept, Existing
<1>4. JobsInv' /\ outcome' = [outcome EXCEPT ![c] = "none"]
  <2>1. \A d \in Clients \ {c} : pc'[d] = pc[d] /\ handle'[d] = handle[d]
    BY <1>1
  <2> QED BY <1>a, <1>1, <1>3, <2>1, LeaveKeeps
<1>5. TypeVars' /\ Aside(c)
  BY <1>a, <1>1, <1>2, <1>4 DEF TypeOK, TypeVars, Aside
<1>6. ClientInv(c)'
  BY <1>a, <1>1 DEF ClientInv, ClientOK, TypeOK
<1>7. SettingsAccounted'
  BY <1>a, <1>1, <1>2 DEF SettingsAccounted, TypeOK, VmRecord
<1> QED BY <1>3, <1>4, <1>5, <1>6, <1>7, ClientStepKeeps
LEMMA ClientInvStep ==
    ASSUME EnsureInv, NEW c \in Clients, ClientStep(c)
    PROVE  EnsureInv'
BY LookingStep, SubmittingStep, LeavingStep, LaunchingStep, RaisingStep DEF ClientStep

-----------------------------------------------------------------------------
(* The steps of the cluster *)

\* No two tasks are of the same client.
LEMMA OneTaskEach ==
    ASSUME TypeOK, JobsInv, NEW j \in jobs, NEW k \in jobs, j.for = k.for,
           j.for # Nobody
    PROVE  j = k
<1>1. j \in Job /\ k \in Job /\ JobOK(j) /\ JobOK(k)
  BY DEF JobsInv
<1>2. j.kind = k.kind
  BY <1>1 DEF JobOK, Waits, Job
<1>3. j.id = k.id
  BY <1>1 DEF JobOK
<1> QED BY <1>1, <1>2, <1>3 DEF Job

\* The tasks that remain are what they were.
LEMMA JobsRemain ==
    ASSUME JobsInv, jobs' \subseteq jobs, UNCHANGED <<pc, handle>>,
           \A k \in jobs' :
              /\ k.kind = "clone" => vms'[k.id].status = "cloning"
              /\ k.for # Nobody => outcome'[k.for] = outcome[k.for]
    PROVE  JobsInv'
BY DEF JobsInv, JobOK, OneClone, Job

\* What a client counts on in the cluster, of a step of the cluster.
Counts(d) ==
    /\ pc'[d] = pc[d] /\ handle'[d] = handle[d] /\ listed'[d] = listed[d]
    /\ result'[d] = result[d]
    /\ present'[d] \subseteq present[d] /\ (lost[d] => lost'[d])
    /\ pc[d] = "lookup" => present'[d] \cap Visible(d) \subseteq Visible(d)'
    /\ present'[d] \cap Existing \subseteq Existing'
    /\ ~lost'[d] /\ handle[d] \in Named => handle[d] \in Named'
    /\ ~lost'[d] /\ handle[d] \in VmIds /\ vms[handle[d]].status = "running"
         => /\ vms'[handle[d]].status = "running"
            /\ vms'[handle[d]].named = vms[handle[d]].named
    /\ outcome'[d] # outcome[d]
         => /\ outcome[d] = "none"
            /\ outcome'[d] = "ok" /\ pc[d] \in {"wait_start", "wait_launch"}
                 => vms'[handle[d]].status = "running"
            /\ outcome'[d] = "ok" /\ pc[d] = "wait_delete" => handle[d] \notin present'[d]

LEMMA CountsKeep ==
    ASSUME TypeOK, NEW d \in Clients, ClientInv(d), Counts(d), lost'[d] \in BOOLEAN
    PROVE  ClientInv(d)'
<1> USE DEF Counts
<1>1. pc[d] \in {"wait_start", "wait_launch"} /\ outcome'[d] = "ok" /\ ~lost'[d]
        => vms'[handle[d]].status = "running"
  BY DEF ClientInv, ClientOK, Holding
<1>2. pc[d] = "wait_delete"
        => present'[d] \subseteq listed[d] \cup
              (IF outcome'[d] = "ok" THEN {} ELSE {handle[d]})
  BY DEF ClientInv, ClientOK
<1>3. ClientOK(d)'
  BY <1>1, <1>2 DEF ClientInv, ClientOK
<1>4. result[d] = "running" /\ ~lost'[d]
        => vms'[handle[d]].named /\ vms'[handle[d]].status = "running"
  BY DEF ClientInv, ClientOK
<1> QED BY <1>3, <1>4 DEF ClientInv, Launching

\* What a step of the cluster has to show.
LEMMA ClusterStepKeeps ==
    ASSUME EnsureInv, TypeVars', JobsInv', SettingsAccounted',
           \A d \in Clients : Counts(d)
    PROVE  EnsureInv'
<1>1. \A d \in Clients : ClientInv(d)'
  BY Parts, CountsKeep DEF TypeVars
<1> QED BY <1>1 DEF EnsureInv, JobsInv, ClientInv, TypeOK, TypeVars, ReturnedRunning,
       ClonesOnlyWhenMissing, PurgedAll

\* A VM that is gone: whoever holds it has lost it.
LEMMA RemoveKeeps ==
    ASSUME TypeOK, SettingsAccounted, NEW id \in VmIds, Remove(id),
           UNCHANGED <<pc, handle, listed, result>>
    PROVE  /\ vms' \in [VmIds -> VmRecord] /\ present' \in [Clients -> SUBSET VmIds]
           /\ lost' \in [Clients -> BOOLEAN]
           /\ vms'[id] = Absent /\ \A other \in VmIds \ {id} : vms'[other] = vms[other]
           /\ SettingsAccounted'
           /\ \A d \in Clients :
                 /\ present'[d] = present[d] \ {id}
                 /\ lost'[d] = (lost[d] \/ handle[d] = id)
                 /\ present'[d] \cap Visible(d) \subseteq Visible(d)'
                 /\ present'[d] \cap Existing \subseteq Existing'
<1>1. /\ vms' \in [VmIds -> VmRecord]
      /\ vms'[id] = Absent /\ \A other \in VmIds \ {id} : vms'[other] = vms[other]
  BY DEF Remove, TypeOK, Absent, VmRecord
<1>2. SettingsAccounted'
  BY <1>1 DEF SettingsAccounted, Absent
<1>3. \A d \in Clients : /\ present'[d] = present[d] \ {id}
                          /\ lost'[d] = (lost[d] \/ handle[d] = id)
  BY DEF Remove, Lose
<1>4. present' \in [Clients -> SUBSET VmIds] /\ lost' \in [Clients -> BOOLEAN]
  BY DEF Remove, Lose, TypeOK
<1> QED BY <1>1, <1>2, <1>3, <1>4 DEF Named, Existing, Visible, Sees

\* A VM whose state alone changes.
LEMMA StatusKeeps ==
    ASSUME TypeOK, SettingsAccounted, NEW id \in VmIds, id \in Existing,
           NEW s \in {"stopped", "running"}, vms' = [vms EXCEPT ![id].status = s],
           UNCHANGED <<pc, handle>>
    PROVE  /\ vms' \in [VmIds -> VmRecord] /\ SettingsAccounted'
           /\ vms'[id].status = s /\ vms'[id].named = vms[id].named
           /\ \A other \in VmIds \ {id} : vms'[other] = vms[other]
           /\ Existing' = Existing /\ Named' = Named
           /\ \A d \in Clients : Visible(d)' = Visible(d)
<1> DEFINE old == vms[id]
<1>1. old \in VmRecord
  BY DEF TypeOK
<1>2. vms'[id] = [named |-> old.named, status |-> s, configured |-> old.configured,
                  by |-> old.by, node |-> old.node]
  BY <1>1 DEF TypeOK, VmRecord
<1>3. \A other \in VmIds \ {id} : vms'[other] = vms[other]
  BY DEF TypeOK
<1>4. vms' \in [VmIds -> VmRecord]
  <2>1. vms'[id] \in VmRecord
    BY <1>1, <1>2 DEF VmRecord
  <2> QED BY <1>3, <2>1 DEF TypeOK
<1>5. /\ Existing' = Existing /\ Named' = Named
      /\ \A d \in Clients : Visible(d)' = Visible(d)
  BY <1>2, <1>3 DEF Existing, Named, Visible, Sees
<1>6. SettingsAccounted'
  BY <1>2, <1>3 DEF SettingsAccounted
<1> QED BY <1>2, <1>3, <1>4, <1>5, <1>6

\* The client of a task that ends learns how, and no other task is its own.
LEMMA JobEndsKeeps ==
    ASSUME TypeOK, JobsInv, NEW j \in jobs, NEW how \in {"ok", "failed"}, JobEnds(j, how)
    PROVE  /\ jobs' = jobs \ {j} /\ outcome' \in [Clients -> {"none", "ok", "failed"}]
           /\ \A k \in jobs' : k.for # Nobody => outcome'[k.for] = outcome[k.for]
           /\ \A d \in Clients : outcome'[d] # outcome[d]
                 => /\ d = j.for /\ outcome[d] = "none" /\ outcome'[d] = how
                    /\ pc[d] \in Waits(j.kind) /\ handle[d] = j.id
           /\ UNCHANGED <<pc, handle, listed, known, result, calls>>
<1>1. j \in Job /\ JobOK(j)
  BY DEF JobsInv
<1>2. \A k \in jobs : k # j /\ k.for # Nobody => k.for # j.for
  BY OneTaskEach
<1>3. \A d \in Clients : outcome'[d] = IF d = j.for THEN how ELSE outcome[d]
  BY <1>1 DEF JobEnds, TypeOK, Job
<1>4. outcome' \in [Clients -> {"none", "ok", "failed"}]
  BY <1>1 DEF JobEnds, TypeOK, Job
<1>5. \A k \in jobs' : k.for # Nobody => outcome'[k.for] = outcome[k.for]
  BY <1>2, <1>3 DEF JobEnds, JobsInv, Job
<1> QED BY <1>1, <1>3, <1>4, <1>5 DEF JobEnds, JobOK

LEMMA JobStep ==
    ASSUME EnsureInv, NEW j \in jobs, JobDone(j) \/ JobFails(j)
    PROVE  EnsureInv'
<1>a. TypeOK /\ JobsInv /\ SettingsAccounted /\ j \in Job /\ JobOK(j) /\ j.id \in VmIds
  BY Parts DEF JobsInv, Job
<1>b. PICK how \in {"ok", "failed"} :
         /\ JobEnds(j, how)
         /\ how = "ok" => JobDone(j)
         /\ how = "failed" => JobFails(j)
  BY DEF JobDone, JobFails
<1>c. /\ jobs' = jobs \ {j} /\ outcome' \in [Clients -> {"none", "ok", "failed"}]
      /\ \A k \in jobs' : k.for # Nobody => outcome'[k.for] = outcome[k.for]
      /\ \A d \in Clients : outcome'[d] # outcome[d]
            => /\ d = j.for /\ outcome[d] = "none" /\ outcome'[d] = how
               /\ pc[d] \in Waits(j.kind) /\ handle[d] = j.id
      /\ UNCHANGED <<pc, handle, listed, known, result, calls>>
  BY <1>a, <1>b, JobEndsKeeps
<1>d. \A k \in jobs' : k.kind = "clone" => /\ vms[k.id].status = "cloning"
                                           /\ j.kind = "clone" => k.id # j.id
  BY <1>a, <1>c DEF JobsInv, JobOK, OneClone
<1>1. CASE how = "ok" /\ j.kind = "clone"
  <2>1. /\ vms' = [vms EXCEPT ![j.id].status = "stopped"] /\ UNCHANGED <<present, lost>>
        /\ vms[j.id].status = "cloning" /\ j.id \in Existing
    BY <1>1, <1>a, <1>b DEF JobDone, JobOK, Existing
  <2>2. /\ vms' \in [VmIds -> VmRecord] /\ SettingsAccounted'
        /\ \A other \in VmIds \ {j.id} : vms'[other] = vms[other]
        /\ Existing' = Existing /\ Named' = Named
        /\ \A d \in Clients : Visible(d)' = Visible(d)
    BY <1>a, <1>c, <2>1, StatusKeeps
  <2>3. \A d \in Clients : Counts(d)
    BY <1>1, <1>c, <2>1, <2>2 DEF Counts, Waits
  <2>4. JobsInv'
    <3>1. \A k \in jobs' : k.kind = "clone" => vms'[k.id].status = "cloning"
      BY <1>1, <1>a, <1>c, <1>d, <2>2 DEF JobsInv, Job
    <3> QED BY <1>a, <1>c, <3>1, JobsRemain
  <2>5. TypeVars'
    BY <1>a, <1>c, <2>1, <2>2 DEF TypeOK, TypeVars
  <2> QED BY <2>2, <2>3, <2>4, <2>5, ClusterStepKeeps
<1>2. CASE how = "ok" /\ j.kind = "start"
  <2>1. /\ vms' = [vms EXCEPT ![j.id].status = "running"] /\ UNCHANGED <<present, lost>>
        /\ vms[j.id].status \in {"stopped", "running"} /\ j.id \in Existing
    BY <1>2, <1>a, <1>b DEF JobDone, Existing
  <2>2. /\ vms' \in [VmIds -> VmRecord] /\ SettingsAccounted'
        /\ vms'[j.id].status = "running" /\ vms'[j.id].named = vms[j.id].named
        /\ \A other \in VmIds \ {j.id} : vms'[other] = vms[other]
        /\ Existing' = Existing /\ Named' = Named
        /\ \A d \in Clients : Visible(d)' = Visible(d)
    BY <1>a, <1>c, <2>1, StatusKeeps
  <2>3. \A d \in Clients : Counts(d)
    BY <1>2, <1>c, <2>1, <2>2 DEF Counts, Waits
  <2>4. JobsInv'
    <3>1. \A k \in jobs' : k.kind = "clone" => vms'[k.id].status = "cloning"
      BY <1>a, <1>c, <1>d, <2>1, <2>2 DEF JobsInv, Job
    <3> QED BY <1>a, <1>c, <3>1, JobsRemain
  <2>5. TypeVars'
    BY <1>a, <1>c, <2>1, <2>2 DEF TypeOK, TypeVars
  <2> QED BY <2>2, <2>3, <2>4, <2>5, ClusterStepKeeps
<1>3. CASE (how = "ok" /\ j.kind = "delete") \/ (how = "failed" /\ j.kind = "clone")
  <2>1. /\ Remove(j.id)
        /\ j.kind = "delete" => vms[j.id].status \in {"stopped", "running"}
    BY <1>3, <1>a, <1>b DEF JobDone, JobFails
  <2>2. /\ vms' \in [VmIds -> VmRecord] /\ present' \in [Clients -> SUBSET VmIds]
        /\ lost' \in [Clients -> BOOLEAN] /\ SettingsAccounted'
        /\ \A other \in VmIds \ {j.id} : vms'[other] = vms[other]
        /\ \A d \in Clients :
              /\ present'[d] = present[d] \ {j.id}
              /\ lost'[d] = (lost[d] \/ handle[d] = j.id)
              /\ present'[d] \cap Visible(d) \subseteq Visible(d)'
              /\ present'[d] \cap Existing \subseteq Existing'
    BY <1>a, <1>c, <2>1, RemoveKeeps
  <2>3. \A d \in Clients : Counts(d)
    BY <1>3, <1>c, <2>2 DEF Counts, Waits, Named, Existing
  <2>4. JobsInv'
    <3>1. \A k \in jobs' : k.kind = "clone" => vms'[k.id].status = "cloning"
      BY <1>3, <1>a, <1>c, <1>d, <2>1, <2>2 DEF JobsInv, Job
    <3> QED BY <1>a, <1>c, <3>1, JobsRemain
  <2>5. TypeVars'
    BY <1>a, <1>c, <2>2 DEF TypeOK, TypeVars
  <2> QED BY <2>2, <2>3, <2>4, <2>5, ClusterStepKeeps
<1>4. CASE how = "failed" /\ j.kind # "clone"
  <2>1. UNCHANGED <<vms, present, lost>>
    BY <1>4, <1>b DEF JobFails
  <2>2. /\ SettingsAccounted' /\ Existing' = Existing /\ Named' = Named
        /\ \A d \in Clients : Visible(d)' = Visible(d)
    BY <1>a, <1>c, <2>1 DEF SettingsAccounted, Existing, Named, Visible, Sees
  <2>3. \A d \in Clients : Counts(d)
    BY <1>4, <1>c, <2>1, <2>2 DEF Counts
  <2>4. JobsInv'
    BY <1>a, <1>c, <1>d, <2>1, JobsRemain
  <2>5. TypeVars'
    BY <1>a, <1>c, <2>1 DEF TypeOK, TypeVars
  <2> QED BY <2>2, <2>3, <2>4, <2>5, ClusterStepKeeps
<1> QED BY <1>a, <1>1, <1>2, <1>3, <1>4 DEF Job

LEMMA OutsiderStep ==
    ASSUME EnsureInv, Outsider
    PROVE  EnsureInv'
<1>a. TypeOK /\ JobsInv /\ SettingsAccounted
  BY Parts
<1>b. UNCHANGED <<jobs, outcome, pc, handle, listed, known, result, calls>>
  BY DEF Outsider, tasks
<1>c. PICK id \in Existing :
        /\ vms[id].status # "cloning"
        /\ \/ Remove(id)
           \/ /\ vms' = [vms EXCEPT ![id].status = "stopped"]
              /\ Lose(id) /\ UNCHANGED present
           \/ \E n \in Nodes : Migrate(id, n)
  BY DEF Outsider
<1>d. id \in VmIds /\ \A k \in jobs : k.kind = "clone" =>
          k.id # id /\ vms[k.id].status = "cloning" /\ k.id \in VmIds
  BY <1>a, <1>c DEF JobsInv, JobOK, Existing, Job
<1>1. CASE Remove(id)
  <2>1. /\ vms' \in [VmIds -> VmRecord] /\ present' \in [Clients -> SUBSET VmIds]
        /\ lost' \in [Clients -> BOOLEAN] /\ SettingsAccounted'
        /\ \A other \in VmIds \ {id} : vms'[other] = vms[other]
        /\ \A d \in Clients :
              /\ present'[d] = present[d] \ {id}
              /\ lost'[d] = (lost[d] \/ handle[d] = id)
              /\ present'[d] \cap Visible(d) \subseteq Visible(d)'
              /\ present'[d] \cap Existing \subseteq Existing'
    BY <1>1, <1>a, <1>b, <1>d, RemoveKeeps
  <2>2. \A d \in Clients : Counts(d)
    BY <1>b, <2>1 DEF Counts, Named, Existing
  <2>3. JobsInv'
    BY <1>a, <1>b, <1>d, <2>1, JobsRemain
  <2>4. TypeVars'
    BY <1>1, <1>a, <1>b, <2>1 DEF TypeOK, TypeVars
  <2> QED BY <2>1, <2>2, <2>3, <2>4, ClusterStepKeeps
<1>2. CASE /\ vms' = [vms EXCEPT ![id].status = "stopped"]
           /\ Lose(id) /\ UNCHANGED present
  <2>1. /\ vms' \in [VmIds -> VmRecord] /\ SettingsAccounted'
        /\ \A other \in VmIds \ {id} : vms'[other] = vms[other]
        /\ Existing' = Existing /\ Named' = Named
        /\ \A d \in Clients : Visible(d)' = Visible(d)
    BY <1>2, <1>a, <1>b, <1>d, StatusKeeps
  <2>2. lost' \in [Clients -> BOOLEAN]
        /\ \A d \in Clients : lost'[d] = (lost[d] \/ handle[d] = id)
    BY <1>2, <1>a DEF Lose, TypeOK
  <2>3. \A d \in Clients : Counts(d)
    BY <1>2, <1>b, <2>1, <2>2 DEF Counts
  <2>4. JobsInv'
    BY <1>a, <1>b, <1>d, <2>1, JobsRemain
  <2>5. TypeVars'
    BY <1>2, <1>a, <1>b, <2>1, <2>2 DEF TypeOK, TypeVars
  <2> QED BY <2>1, <2>3, <2>4, <2>5, ClusterStepKeeps
<1>3. ASSUME NEW n \in Nodes, Migrate(id, n) PROVE EnsureInv'
  <2>a. /\ vms' \in [VmIds -> VmRecord]
        /\ \A other \in VmIds \ {id} : vms'[other] = vms[other]
        /\ \A other \in VmIds : /\ vms'[other].status = vms[other].status
                                /\ vms'[other].named = vms[other].named
                                /\ vms'[other].by = vms[other].by
    <3> DEFINE old == vms[id]
    <3>1. old \in VmRecord
      BY <1>a, <1>d DEF TypeOK
    <3>2. vms'[id] = [named |-> old.named, status |-> old.status,
                      configured |-> old.configured, by |-> old.by, node |-> n]
      BY <1>3, <1>a, <1>d, <3>1 DEF Migrate, TypeOK, VmRecord
    <3>3. \A other \in VmIds \ {id} : vms'[other] = vms[other]
      BY <1>3, <1>a DEF Migrate, TypeOK
    <3>4. vms'[id] \in VmRecord
      BY <3>1, <3>2 DEF VmRecord
    <3>5. vms' \in [VmIds -> VmRecord]
      BY <1>3, <1>a, <3>3, <3>4 DEF Migrate, TypeOK
    <3> QED BY <3>2, <3>3, <3>5
  <2>b. /\ lost' = lost /\ present' \in [Clients -> SUBSET VmIds]
        /\ \A d \in Clients :
              /\ present'[d] \subseteq present[d]
              /\ pc[d] = "lookup" /\ Pin[d] = vms[id].node => id \notin present'[d]
    BY <1>3, <1>a DEF Migrate, TypeOK
  <2>1. SettingsAccounted' /\ Existing' = Existing /\ Named' = Named
    BY <1>a, <1>b, <2>a DEF SettingsAccounted, Existing, Named
  <2>2. ASSUME NEW d \in Clients, pc[d] = "lookup"
        PROVE  present'[d] \cap Visible(d) \subseteq Visible(d)'
    BY <2>2, <2>1, <2>a, <2>b DEF Visible, Sees, Existing
  <2>3. \A d \in Clients : Counts(d)
    BY <1>b, <2>1, <2>2, <2>a, <2>b DEF Counts
  <2>4. JobsInv'
    BY <1>a, <1>b, <1>d, <2>a, JobsRemain
  <2>5. TypeVars'
    BY <1>a, <1>b, <2>a, <2>b DEF TypeOK, TypeVars
  <2> QED BY <2>1, <2>3, <2>4, <2>5, ClusterStepKeeps
<1> QED BY <1>c, <1>1, <1>2, <1>3

-----------------------------------------------------------------------------
(* The theorems *)

\* EnsureInv holds for any number of clients, calls and VM ids and any faults: every
\* client waits where it has submitted its task, and holds what it has found.
THEOREM Invariance == Spec => []EnsureInv
<1>1. ASSUME EnsureInv, [Next]_vars PROVE EnsureInv'
  <2>1. CASE Next
    BY <1>1, <2>1, ClientInvStep, JobStep, OutsiderStep DEF Next
  <2>2. CASE UNCHANGED vars
    BY <1>1, <2>2 DEF vars, tasks, memory, EnsureInv, TypeOK, JobOK, OneClone, ClientOK,
       ReturnedRunning, ClonesOnlyWhenMissing, SettingsAccounted, PurgedAll, Existing,
       Named, Visible, Sees
  <2> QED BY <1>1, <2>1, <2>2
<1> QED BY InitInv, <1>1, PTL DEF Spec

\* The VM that ensure_running or its launch returns is the one of that name, and runs.
THEOREM RunningOnReturn == Spec => []ReturnedRunning
<1>1. EnsureInv => ReturnedRunning
  BY DEF EnsureInv
<1> QED BY Invariance, <1>1, PTL

\* No call clones a second VM of the name as long as the first can be seen.
THEOREM CloneOnlyIfMissing == Spec => []ClonesOnlyWhenMissing
<1>1. EnsureInv => ClonesOnlyWhenMissing
  BY DEF EnsureInv
<1> QED BY Invariance, <1>1, PTL

\* Settings that are missing are those of a launch that goes on or has raised.
THEOREM SettingsAreAccounted == Spec => []SettingsAccounted
<1>1. EnsureInv => SettingsAccounted
  BY DEF EnsureInv
<1> QED BY Invariance, <1>1, PTL

\* A purge that returns leaves none of the VMs it has listed.
THEOREM PurgeIsComplete == Spec => []PurgedAll
<1>1. EnsureInv => PurgedAll
  BY DEF EnsureInv
<1> QED BY Invariance, <1>1, PTL

-----------------------------------------------------------------------------
(* One client whose calls are answered: the launch configures before it starts *)

\* Every task is waited for, and nothing starts the VM until it is configured.
SoleInv(c) ==
    /\ \A j \in jobs : j.for = c
    /\ pc[c] = "config" \/ (pc[c] = "wait_clone" /\ outcome[c] = "ok")
         => vms[handle[c]].status \in {"absent", "stopped"}

\* While the client does not wait, or when it has its answer, no task runs.
LEMMA NoTaskLeft ==
    ASSUME EnsureInv, NEW c \in Clients, SoleInv(c), pc[c] \notin Waiting \/ outcome[c] # "none"
    PROVE  jobs = {}
<1> SUFFICES ASSUME NEW j \in jobs PROVE FALSE
  OBVIOUS
<1>1. JobOK(j) /\ j.for = c /\ c # Nobody /\ j \in Job
  BY DEF EnsureInv, SoleInv, TypeOK
<1>2. j.kind \in {"clone", "start", "delete"}
  BY <1>1 DEF Job
<1> QED BY <1>1, <1>2 DEF JobOK, Waits, Waiting

LEMMA SoleClientStep ==
    ASSUME EnsureInv, NEW c \in Clients, Clients = {c}, SoleInv(c),
           Faults \cap {"call", "missing", "wait"} = {}, ClientStep(c)
    PROVE  SoleInv(c)'
<1> USE DEF SoleInv, Waiting, Goto, End, tasks, memory
<1>a. TypeOK
  BY DEF EnsureInv
<1>1. CASE Ensure(c) \/ Purge(c)
  BY <1>a, <1>1 DEF Ensure, Purge, Begin, TypeOK
<1>2. CASE Lookup(c) \/ Info(c) \/ Gone(c) \/ NextId(c) \/ List(c) \/ Purged(c)
  BY <1>a, <1>2 DEF Lookup, Found, Info, Gone, NextId, List, Purged, TypeOK
<1>3. CASE Start(c) \/ DeleteNext(c)
  <2>1. /\ pc'[c] \notin {"config", "wait_clone"} /\ pc[c] \notin Waiting
        /\ \E k, id : jobs' = jobs \cup {[kind |-> k, id |-> id, for |-> c]}
    BY <1>a, <1>3 DEF Start, DeleteNext, Submit, TypeOK
  <2> QED BY <2>1
<1>4. CASE Clone(c)
  <2>1. pc'[c] = "wait_clone" /\ outcome'[c] = "none"
    BY <1>a, <1>4 DEF Clone, Submit, TypeOK
  <2>2. \E k, id : jobs' = jobs \cup {[kind |-> k, id |-> id, for |-> c]}
    BY <1>4 DEF Clone, Submit
  <2> QED BY <2>1, <2>2
<1>5. ASSUME pc[c] \notin Waiting \/ outcome[c] # "none", Leave(c), pc'[c] # "wait_clone",
             pc'[c] = "config" => vms'[handle'[c]].status \in {"absent", "stopped"}
      PROVE  SoleInv(c)'
  <2>1. jobs = {}
    BY <1>5, NoTaskLeft
  <2>2. jobs' = {}
    BY <1>5, <2>1 DEF Leave
  <2> QED BY <1>5, <2>2
<1>6. CASE Started(c) \/ Deleted(c) \/ TakenForGone(c) \/ Raises(c)
  <2>1. /\ pc[c] \notin Waiting \/ outcome[c] # "none"
        /\ Leave(c) /\ pc'[c] \notin {"wait_clone", "config"}
    BY <1>a, <1>6 DEF Started, Deleted, TakenForGone, Raises, Refused, TypeOK
  <2> QED BY <1>5, <2>1
<1>7. CASE Cloned(c)
  <2>1. /\ outcome[c] = "ok" /\ Leave(c) /\ pc'[c] = "config"
        /\ vms' = vms /\ handle' = handle /\ pc[c] = "wait_clone"
    BY <1>a, <1>7 DEF Cloned, TypeOK
  <2> QED BY <1>5, <2>1
<1>8. CASE Configure(c)
  BY <1>a, <1>8 DEF Configure, TypeOK
<1> QED BY <1>1, <1>2, <1>3, <1>4, <1>6, <1>7, <1>8 DEF ClientStep

LEMMA SoleJobStep ==
    ASSUME EnsureInv, NEW c \in Clients, SoleInv(c), NEW j \in jobs, JobDone(j) \/ JobFails(j)
    PROVE  SoleInv(c)'
<1>a. TypeOK /\ JobOK(j) /\ j \in Job /\ j.for = c /\ c # Nobody
  BY DEF EnsureInv, SoleInv, TypeOK
<1>b. /\ jobs' = jobs \ {j} /\ pc' = pc /\ handle' = handle
      /\ j.id = handle[c] /\ pc[c] \in Waits(j.kind) /\ outcome[c] = "none"
      /\ j.id \in VmIds
  BY <1>a DEF JobDone, JobFails, JobEnds, JobOK, Job
<1>c. j.kind \in {"clone", "start", "delete"}
  BY <1>a DEF Job
<1>1. CASE pc[c] \notin {"config", "wait_clone"}
  BY <1>1, <1>b DEF SoleInv
<1>2. CASE pc[c] = "wait_clone"
  <2>1. j.kind = "clone"
    BY <1>2, <1>b, <1>c DEF Waits
  <2>2. CASE JobDone(j)
    <3>1. vms'[handle[c]].status = "stopped"
      BY <1>a, <1>b, <2>1, <2>2 DEF JobDone, TypeOK, VmRecord
    <3> QED BY <1>b, <3>1 DEF SoleInv
  <2>3. CASE JobFails(j)
    <3>1. outcome'[c] = "failed"
      BY <1>a, <2>3 DEF JobFails, JobEnds, TypeOK
    <3> QED BY <1>b, <1>2, <3>1 DEF SoleInv
  <2> QED BY <2>2, <2>3
<1>3. CASE pc[c] = "config"
  BY <1>3, <1>b, <1>c DEF Waits
<1> QED BY <1>1, <1>2, <1>3

LEMMA SoleOutsiderStep ==
    ASSUME EnsureInv, NEW c \in Clients, SoleInv(c), Outsider
    PROVE  SoleInv(c)'
<1>a. TypeOK /\ ClientOK(c)
  BY DEF EnsureInv
<1>b. UNCHANGED <<jobs, outcome, pc, handle>>
  BY DEF Outsider, tasks
<1>c. PICK id \in VmIds : \/ vms' = [vms EXCEPT ![id] = Absent]
                          \/ vms' = [vms EXCEPT ![id].status = "stopped"]
                          \/ \E n \in Nodes : vms' = [vms EXCEPT ![id].node = n]
  BY DEF Outsider, Remove, Migrate, Existing
<1>1. ASSUME handle[c] \in VmIds, vms[handle[c]].status \in {"absent", "stopped"}
      PROVE  vms'[handle[c]].status \in {"absent", "stopped"}
  <2>1. Absent.status = "absent" /\ vms \in [VmIds -> VmRecord]
    BY <1>a DEF TypeOK, Absent
  <2>2. CASE vms' = [vms EXCEPT ![id] = Absent]
    BY <1>1, <2>1, <2>2
  <2>3. CASE vms' = [vms EXCEPT ![id].status = "stopped"]
    BY <1>1, <2>1, <2>3 DEF VmRecord
  <2>4. ASSUME NEW n \in Nodes, vms' = [vms EXCEPT ![id].node = n]
        PROVE  vms'[handle[c]].status \in {"absent", "stopped"}
    BY <1>1, <2>1, <2>4 DEF VmRecord
  <2> QED BY <1>c, <2>2, <2>3, <2>4
<1>2. pc[c] \in {"config", "wait_clone"} => handle[c] \in VmIds
  BY <1>a DEF ClientOK, Holding
<1> QED BY <1>b, <1>1, <1>2 DEF SoleInv

\* Only Configure applies settings.
LEMMA OnlyConfigure ==
    ASSUME TypeOK, [Next]_vars, NEW id \in VmIds, vms'[id].configured, ~vms[id].configured
    PROVE  \E c \in Clients : Configure(c) /\ handle[c] = id
<1> USE DEF TypeOK
<1>0. ~Absent.configured
  BY DEF Absent
<1>1. ASSUME NEW c \in Clients, ClientStep(c), ~Configure(c)
      PROVE  vms'[id].configured = vms[id].configured
  <2>1. CASE Clone(c)
    BY <2>1, <1>0 DEF Clone
  <2>2. CASE Raises(c)
    BY <2>2 DEF Raises, VmRecord
  <2>3. CASE ~Clone(c) /\ ~Raises(c)
    <3>1. vms' = vms
      BY <1>1, <2>3 DEF ClientStep, Ensure, Purge, Begin, Lookup, Found, Info, Start, Started, Gone,
         TakenForGone, NextId, Cloned, List, DeleteNext, Deleted, Purged
    <3> QED BY <3>1
  <2> QED BY <2>1, <2>2, <2>3
<1>2. ASSUME NEW j \in jobs, JobDone(j) \/ JobFails(j) PROVE vms'[id].configured = vms[id].configured
  <2>1. j.id \in VmIds
    BY DEF Job
  <2>2. \/ vms' = vms \/ vms' = [vms EXCEPT ![j.id] = Absent]
        \/ vms' = [vms EXCEPT ![j.id].status = "stopped"]
        \/ vms' = [vms EXCEPT ![j.id].status = "running"]
    BY <1>2 DEF JobDone, JobFails, Remove
  <2>3. ASSUME NEW s \in {"stopped", "running"}, vms' = [vms EXCEPT ![j.id].status = s]
        PROVE  vms'[id].configured = vms[id].configured
    BY <2>1, <2>3 DEF VmRecord
  <2> QED BY <1>0, <2>1, <2>2, <2>3
<1>3. CASE Outsider
  <2>1. PICK i \in VmIds : \/ vms' = [vms EXCEPT ![i] = Absent]
                           \/ vms' = [vms EXCEPT ![i].status = "stopped"]
                           \/ \E n \in Nodes : vms' = [vms EXCEPT ![i].node = n]
    BY <1>3 DEF Outsider, Remove, Migrate, Existing
  <2>2. CASE vms' = [vms EXCEPT ![i] = Absent]
    BY <1>0, <2>2
  <2>3. CASE vms' = [vms EXCEPT ![i].status = "stopped"]
    BY <2>3 DEF VmRecord
  <2>4. ASSUME NEW n \in Nodes, vms' = [vms EXCEPT ![i].node = n]
        PROVE  vms'[id].configured = vms[id].configured
    BY <2>4 DEF VmRecord
  <2> QED BY <2>1, <2>2, <2>3, <2>4
<1>4. CASE UNCHANGED vars
  BY <1>4 DEF vars
<1>5. ASSUME NEW c \in Clients, Configure(c) PROVE handle[c] = id
  BY <1>5 DEF Configure, Reaches, Existing, VmRecord
<1> QED BY <1>1, <1>2, <1>3, <1>4, <1>5 DEF Next

\* A single client whose calls are answered applies the settings of a launch while
\* the VM is stopped (vm.py:323), whatever its tasks come to and whatever others do
\* to the VMs.  With a second client, or a start task that a call has given up
\* waiting for, this does not hold.
THEOREM SoleClientConfigures ==
    ASSUME NEW c \in Clients, Clients = {c}, Faults \cap {"call", "missing", "wait"} = {}
    PROVE  Spec => ConfiguredWhileStopped
<1>1. Init => SoleInv(c)
  BY DEF Init, SoleInv
<1>2. EnsureInv /\ SoleInv(c) /\ [Next]_vars => SoleInv(c)'
  <2> SUFFICES ASSUME EnsureInv, SoleInv(c), [Next]_vars PROVE SoleInv(c)'
    OBVIOUS
  <2>1. CASE UNCHANGED vars
    BY <2>1 DEF vars, tasks, memory, SoleInv
  <2> QED BY <2>1, SoleClientStep, SoleJobStep, SoleOutsiderStep DEF Next
<1>3. EnsureInv /\ SoleInv(c) /\ [Next]_vars =>
        \A id \in VmIds : vms'[id].configured /\ ~vms[id].configured
                            => vms[id].status = "stopped"
  <2> SUFFICES ASSUME EnsureInv, SoleInv(c), [Next]_vars, NEW id \in VmIds,
                      vms'[id].configured, ~vms[id].configured
               PROVE  vms[id].status = "stopped"
    OBVIOUS
  <2>1. TypeOK
    BY DEF EnsureInv
  <2>2. Configure(c) /\ handle[c] = id
    BY <2>1, OnlyConfigure
  <2> QED BY <2>2 DEF Configure, Reaches, Existing, SoleInv
<1> QED BY <1>1, <1>2, <1>3, Invariance, PTL DEF Spec, ConfiguredWhileStopped
=============================================================================
