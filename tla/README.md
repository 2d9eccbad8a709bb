# proxmox-vm-sdk in TLA+

TLA+ models of the Python SDK `proxmox_vm_sdk`, model-checked with TLC and, for the parts where
several threads, clients or processes meet, proved with TLAPS. Paths in this file and in the
modules are short for files of `src/src/proxmox_vm_sdk/`; `client.py:247` is a line of one.

Contents: [the system](#the-system), [modules and code](#modules-and-code),
[runs](#runs), [fairness](#fairness), [theorems](#theorems),
[findings](#findings), [what else the models show](#what-else-the-models-show),
[only model-checked](#only-model-checked), [not modelled](#not-modelled), [plan](#plan).

## The system

The SDK drives a Proxmox VE cluster over its HTTP API and the nodes' shell over SSH. It has no
server and no storage of its own: all state that outlives a call is in the cluster, in the guest, or
in a file of a node, and any number of clients work on it without a lock. That is what makes it
hard. A method is a *sequence* of remote calls; each may raise, may time out while its task goes on
in the cluster, and may be followed by calls of others.

| Component | State it keeps | Operations | Talks to | What makes it correct |
|---|---|---|---|---|
| launching (`client.py`) | the futures, `created`, `first_error` of one `launch_many` | `launch`, `launch_many` | cluster, by HTTP; a thread pool | each launch touches only its own VM; a returned list is complete; the rollback runs alone and is waited for; the call ends |
| lookup and ensuring (`client.py`) | none | `get_vm`, `ensure_running`, `list`, `purge`, reads | cluster | what is returned has the name and runs; a VM is cloned only when none can be seen; what purge listed is gone |
| VM handle (`vm.py`) | node and id | `start`, `stop`, `reboot`, `delete`, `clone`, `snapshot`, `restore`, `resize_disk`, `configure_cloud_init` | cluster | a handle acts on the VM that has the id now; a restored snapshot exists |
| VM waits (`vm.py`) | deadline, interval | `exec`, `exec_structured`, `wait_for_agent`, `wait_for_ip`, `wait_ready` | guest agent, through the cluster | the verdict is true; the call ends, not much after the deadline; a timeout does not miss an answer |
| task waiting, error translation (`_backend.py`) | deadline | `wait_for_task`, `_translate_exception` | cluster | as above; a missing VM is told from other errors |
| SSH backend (`_backend.py`) | connection | `run`, `read_file`, `write_file` | a node, by SSH and SFTP | a write is all or nothing, also for a reader and after a crash |
| NAT routing (`routing.py`) | the rules in `/etc/network/interfaces` and in the PREROUTING chain of a node | `add_rules`, `remove_rules`, `flush_rules`, `list_rules` | SSH backend | no port has two rules; what a call does not name stays; the live rules follow the file |
| interfaces file editing (`routing.py`) | the lines of the file | where a rule is inserted, which lines are removed | NAT routing | other lines stay, rules are where the stanza is looked for and in pairs |
| end-to-end runner (`e2e.py`) | exit status, kept mappings | `main` | all of the above | "SUCCESS" is true, as far as the program can know; failures do not keep the cleanup from running |
| test doubles (`testing.py`) | `_vms`, `_snapshots`, task counter | the routes of `FakeBackend` | the SDK under test | it behaves as a store of VMs, so tests against it mean something |
| models, exceptions, URL parsing, devtools | none | data classes, scripts | | not modelled, see below |

Interactions. `launch_many` calls `launch` in up to `max_workers` threads, which call the cluster;
the calling thread collects and cancels futures and calls `ProxmoxVM.delete` in a second pool. Every
asynchronous API call is followed by `wait_for_task`, which polls. `ensure_running` is `get_vm`, an
info call, then `start` or `launch`. The routing manager reads and writes one file through the SSH
backend and then makes it live by two commands. `main` of `e2e.py` is a client of everything.

Hard behaviours, and where they are modelled: two launches that get one free id, futures that settle while others are
cancelled, tasks that outlive the wait for them, rollback that fails in part, interrupts in every loop and join
(`LaunchMany`); clients that look a VM up and act on what they saw while it changes (`EnsureRunning`); a polling loop
that sleeps across its deadline, nested in another one (`Waits`); read, change and write back without a lock, ports
chosen from an old read, a connection lost between any two calls, commands that fail without anybody looking
(`Routing`); readers, crashes and lost replies during a replacement of a file (`RemoteFile`); a cleanup of which any
step may fail, an interrupt at any point (`E2E`); ids used again after a deletion, a snapshot listed after others have
come (`FakeBackend`).

## Modules and code

A step of a model is one remote call with all that the code does before the next one. This is the
grain at which other actors can come in between. Data is abstracted to what the properties tell
apart. `PROJECT.json` names the lines of each definition.

### LaunchMany: `launch` and `launch_many`

| Model | Code |
|---|---|
| `vms`, `task` | the cluster: VMs by id with `owner` (a ghost: which job cloned it) and `has` (the settings applied); the last task each job submitted |
| `pc[j]`, `vmid[j]`, `todo[j]` | the thread that runs `launch` for config j: its next call, `new_vmid`, the optional parts left |
| `main`, `seen`, `created`, `firstError`, `cursor` | the calling thread: the loop over `as_completed`, `created`, `first_error`, the cancelling loop |
| `ticket[j]` | the order in which `as_completed` yields: first what had settled when it was called, in no order, then the rest as they settle |
| `Pick`, `SkipCancelled`, `Settle` | `ThreadPoolExecutor`: work items in submission order, cancelled ones notified when a worker reaches them |
| `NextId`, `CheckDrive`, `CloneAccepted`/`Refused`, `WaitOk`/`WaitFails`, `Apply`, `Start`, `Return`, `CallFails` | the calls of `launch` in order; `Rank` is the order of its optional parts |
| `Enter`, `Collect`, `Cancel`, `LeavePool`, `RollbackEnd`, `AbortEnd` | the calling thread, statement by statement |
| `InterruptSubmit`, `InterruptCollect`, `InterruptRollback`, `InterruptJoin` | a KeyboardInterrupt while it submits configs, collects or cancels, rolls back, or waits at the end of a `with` block. The first three wait for the threads (`interrupted`, then `aborted`); the last one, a second interrupt, leaves them at work (`abandoned`) |
| `DeleteAccepted`/`Refused`/`Returns` | `ProxmoxVM.delete` in the rollback pool |
| `TaskStep`, `ForeignStep` | the cluster's tasks; another client that creates and removes VMs (external) |

`Faults` names which calls may fail in an instance, so that a run can isolate one cause.
`DeleteRunning` says whether the cluster accepts DELETE of a running VM, which the SDK leaves to it.

`Batch` is what a caller of `launch_many` can count on: every config is cloned at most once and never after the call
has ended (unless it was abandoned), a VM that is gone does not come back, and a call that *returns* has finished all
of them and leaves them alone. `LaunchMany` implements it (`IsBatch`; `VmOf` and `Outcome` are the refinement
mapping), and `E2E` runs it.

### EnsureRunning: `get_vm`, `ensure_running`, `list`, `purge`

One `pc[c]` per client, one action per HTTP call; launch is in its order of calls without the parts
`LaunchMany` has in full. `jobs` are the cluster's tasks, `outcome[c]` is how the one that client c waits for
has ended; a client that gives up (`Leave`) leaves its task running. VMs are on nodes. A client made with a node
(`Pin[c]`) sees the VMs of that node alone, in `get_vm` of a name as in `list` (`Sees`, `client.py:354`), and clones to
`Target[c]`. `Outsider` deletes, stops and migrates VMs; `known[c]` is the node on which c saw a VM, and the cluster
answers calls about it through that node only (`Reaches`). `TakenForGone` is `_translate_exception`: every error
whose text says "does not exist" becomes a `VmNotFoundError`. `NextId` is the lowest free id or, when `cluster/nextid`
raises, one more than the highest (`client.py:377`). Three ghosts carry the properties: `present[c]`, what a
call can count on (the VMs of that name that c could see when it began, then the one it found, or the VMs purge has
listed, less those that are gone or have left the node that c is about to look at); `lost[c]`, which says that the VM was
stopped or deleted under the call; and `by` of a VM, the client whose launch has still to apply its settings.

### Waits: the five polling loops

One call of one loop (`op`), with `now`, `deadline` and, in `wait_ready`, the deadline of the
nested `wait_for_agent`. Time is counted in sixteenths of a second, so that every interval of
`exec` (0.5 s, times 1.5, at most 2 s, here rounded down: 8, 12, 18, 27, 32) is whole. `Poll` takes one
of `Latencies`, `Sleep` takes `pause`; `World` changes the task, the command and the guest at any
moment. The ghosts are `polled`, when the last poll was made, and `since`, when the awaited thing
became true, moved on by a poll that failed. A task's status may be garbled, after which `wait_for_task` polls
again, or say that the task has stopped without an `exitstatus` (`noexit`), which raises `TaskFailedError`
whatever became of the task (`_backend.py:95`).

### Routing, InterfacesFile and RuleTable: `routing.py`

`Routing` has the file and the PREROUTING chain as sets of rules (tag and port; the target of a rule
plays no role in any decision of the code) and, per manager, the next SSH call and the local
variables: `reserved` (what `ss -tln` said), `assigned` (the chosen ports), `copy` (what was
read). A call takes a list of mappings, in which a tag may occur more than once (`nth`). `add_rules` is `RunSs`,
`ReadClaimed` or `Exhausted`, `Read`, `Upload`, `Move`, `Read`, `Upload`, `Move`, `Flush`, `Reload`;
`remove_rules` and `flush_rules` are parts of that. `SshRaises` ends a call between any two. Nobody looks at
the exit codes of `ss`, `mv`, `iptables` and `ifreload` (`routing.py:250`, `304`, `305`, `_backend.py:203`): each
may fail and the call goes on (`Unnoticed`), with some of the ports, the old file, the old chain, or some of the
rules loaded. The ghost `failed[m]` remembers that, until a call of the same manager has returned without a failure.

A write is two steps, `Upload` and `Move`. Managers share one temporary file, so two uploads that run at once are
mixed: what is then moved may hold any of the rules that the file or one of the copies held (`Mixtures`), and the slower
upload goes on writing into the file that was moved already (`WriteOn`). `overlapped` remembers that this has
happened. A read is one step: a reader of `RemoteFile` gets one whole content when there is one writer, and with
overlapping uploads what it gets is among the `Mixtures`.

`InterfacesFile` takes the other cut: one step per method, but on lines. A line is what it begins with
(iface, auto, option, blank, rule) and the rule it ends with; `InsertPoint` is
`_find_iface_insert_point`, with its comparison of prefixes and its blindness for `auto` lines; `Without` is
`_remove_from_file`, `Joined` is what happens when text is inserted after a line without a newline. The loops over
lines and mappings are recursive functions.

`RuleTable` is what a caller of the manager may rely on: a table in which no two rules share a port, and calls that
remove the rules of the tags they name or give each of these tags new ones. It does not promise that the old rules of
a tag are gone when it gets a new one. Both implement it (`IsRuleTable`):
`InterfacesFile` with the rules that the lines spell out, `Routing`, for one manager, with what it writes.

### RemoteFile and Register: `ParamikoSshBackend`

`write_file` opens `path + ".tmp"`, streams chunks and runs `mv`; `read_file` opens and streams.
Names (`path`, `tmp`) are kept apart from file objects (`data`), as on the server: a reader that
opened the old object keeps reading it. Any call may raise; `mv` may fail unnoticed (the exit code is
ignored, `_backend.py:203`) or succeed with the reply lost. `Register` is what callers may rely on.

### E2E: `main` of `e2e.py`

`Setup` is everything before the launch: the arguments, the environment, the reading of the configurations and
`--list-templates` (`Arguments`, `Usable`, `Quit`). Then come the three stages: launch, verify, clean up. The launch
is an instance of `Batch`: its VMs come and go while `main` waits, and go on doing so after it has raised or was
interrupted. Every later step is one call of the SDK, and ends in one of the ways that main or the properties can tell
apart: it succeeds, its check fails or times out, it raises one of the exceptions named below, or, for `add_rules` and
`remove_rules`, it returns although the `mv` of its write has failed (`"silent"`). The ghost `unheard` holds the kept
mappings whose removal has failed like that; a failed reload leaves the file as it should be, and the chain is not
modelled here. Exit codes and the distinction between `ProxmoxError` (caught, 2 or 3), other exceptions (a traceback)
and interrupts (130 from the `except` clause while launching and verifying, from Python itself before and during the
cleanup, `UncaughtInterrupt`) are the code's. A call that raises in the cleanup may have had its effect.

### FakeBackend and VmStore: `testing.py` and the methods of `vm.py`

A route of the fake is one step (its handlers have no point where they wait); a method of `ProxmoxVM`
or `launch` is the sequence of routes it requests, `at[c]` is the next, and launch goes on with any of the
`Parts` its configuration may ask for (`GoOn`). A VM has a status and the settings that PUT config has
stored (`hardware`, `cloud_init`). `VmStore` is the abstract store: a VM comes into being at a free id
without snapshots and settings, keeps its identity and both, and goes with all of it. `born` and `upid` are the
task numbers of the fake, used to tell two VMs of one id, and two snapshots of one name, apart. The ghost `sure[c]`
says that the call took the only snapshot of its name, or has seen one, and nobody has deleted it or the VM since. The
name `Current` stands for "current", which listings leave out (`vm.py:177`): a snapshot of that name can be taken but
never be found.

`MC*.tla` only define values for constants. `*_proofs.tla` hold theorems. An operator whose comment
begins "Mutant of X" is a plausible bug in X: put in X's place, it must break a property of a run.
No specification uses one.

## Runs

All passing runs are exhaustive within their bounds. Numbers are distinct states.

| Run | Instance | States | Checks and shows |
|---|---|---|---|
| `launch_many` | 3 configs (one with cloud-init and start, two bare), 2 workers, ids 100..103, all faults, interrupts anywhere, another client on id 103, no DELETE of running VMs | 924 k | `OwnsItsVm`, `ReturnedComplete`, `RollbackRunsAlone`, `ForeignUntouched`, `ConfiguredWhileStopped`, `NoStragglers`, `Termination`, the refinement `IsBatch`, and `LaunchInv`, the inductive invariant with the types: no launch, task or rollback touches a VM it did not clone, even when two get one id; collecting, cancelling and rolling back keep their order, interrupted or not; the call ends |
| `launch_rollback` | 2 configs, no faults | | *violation* of `RollsBackAll`, see findings |
| `ensure_running` | 2 clients on one name, the first makes two calls (ensuring or purging) and sees all nodes, the second makes one and is made with a node; 2 nodes, ids 100..102; all faults, others that stop, delete and migrate VMs | 4.7 M | `ReturnedRunning`, `ClonesOnlyWhenMissing`, `SettingsAccounted`, `PurgedAll`, and `EnsureInv`, the inductive invariant with the types |
| `ensure_half_configured` | 2 clients, one call each, no faults | | *violation* of `ConfiguredWhileStopped`, see findings |
| `waits` | timeout 8 s, interval 2 s, calls of 0, 3/16 or 20/16 s, failing calls, garbled answers, statuses without `exitstatus`, reboots; all five loops | 270 k | `Truthful`, `Punctual`, `NotMissed`, `Termination`, and `WaitInv`, the inductive invariant with the types |
| `routing_one` | 1 manager, 3 tags (2 it may name, one of them twice in a list, 1 with a rule of nobody), 4 ports of which the node listens on one, calls that raise anywhere, commands that fail unnoticed | 1.2 M | `OthersUndisturbed`, `ReturnedDone`, `ExhaustionHarmless`, and the refinement `IsRuleTable` (no two rules get one port) |
| `routing_two` | 2 managers on their own tags, one tag unparsable, 3 ports, calls that raise and commands that fail unnoticed | 2.1 M | `UnmanagedKept`, `ReloadedWhenIdle`: what survives although managers overwrite each other |
| `interfaces` | 92 files (a stanza that a blank line, an iface line or the end of the file ends, or that an auto line follows at once; a stanza of `vmbr10` before it; none at all, as in `tests/unit/test_routing.py:512`; with rules, also two of one tag; an open last line), any sequence of calls with up to 3 mappings on 2 tags | 24.5 k | `OthersKept`, `Placed`, `Paired`, and the refinement `IsRuleTable`; that all the files are well formed (`EveryFileWellFormed`) is an ASSUME of its module |
| `remote_file` | 1 writer, 1 reader, 2 contents of 2 chunks, 3 file objects, all faults | 29 k | `FileInv` (with the types), `IsRegister` |
| `remote_file_two` | 2 writers, no faults | | *violation* of `PathWhole`, see findings |
| `e2e` | every kind of arguments, 3 VMs, with and without SSH, all faults, rule calls without effect included | 154 k | `SuccessMeansClean`, `LeftOnlyIfReported`, `RulesGoFirst`, and `E2EInv`, the inductive invariant with the types |
| `fake_store` | 2 threads (one launches, clones, snapshots, deletes and forgets; the other snapshots, restores and deletes), ids 100, 9000 and 9001, 4 tasks, 2 snapshot names, one of them "current" | 1.7 M | `SnapshotsAreOwn`, `SnapshotIsOwn`, `IsVmStore`, `RestoredIsListed`, and `FakeInv`, the inductive invariant with the types |

Why the bounds are enough. *Launching*: conflicts are between two jobs, and cancellation needs a third behind two
workers; four ids hold the template, the foreign VM and two launches, and make the third fail for want of an id or
meet one freed by a failed clone (`LaunchInv` is proved for all sizes). *Ensuring*: every conflict is between a call
and one other actor, and a repeated call after a failed one needs two; three ids hold the template, the VM and a
second clone; on two nodes a VM is where a pinned client looks or is not. *Waits*: the timeout is long enough that
`exec` reaches its greatest interval and `wait_ready` nests more than once; latencies are shorter than, and longer
than, a second, which is the least nested wait; `Horizon` is assumed to exceed the sum of all delays
(`WaitAssumption`) and is never reached (`TypeOK`). *Routing*: of the three ports of
`routing_one` that are not listened on the rule of nobody always keeps one, so a call of three mappings is exhausted
unless `ss` failed, and smaller ones are or are not, depending on the calls before; two managers show every overlap of
one read-modify-write with another, and an upload of both at once. After that the file may be anything, and in
`routing_two` no new call begins (`GoOn = FALSE`; the theorems have no such bound).
*Interfaces*: three mappings (`MaxMappings`) on five ports (`MaxPort`) make lists with a tag twice, and calls beside
the rule of nobody that find ports or do not. *RemoteFile*: two chunks make a mix of contents visible; of three
objects one is the path, one the temporary file, one still open in the reader. *E2E*: first, middle and last VM.
*FakeBackend*: delete, launch to the same id, snapshot and restore take four tasks; beside the template there is one
id, which every launch uses again, and 100 is what `launch` picks when the fake is empty.

`CHECK_DEADLOCK FALSE` is set for `ensure_running`, `ensure_half_configured`, `fake_store` and `routing_two` only. There
calls and tasks are bounded (`MaxCalls`, `MaxTasks`, `LastId`, `GoOn`), and a behaviour really ends when the bound is
used up. Everywhere else a stop that is not marked as an end is reported.

## Fairness

`LaunchMany` (`FairSpec`): weak fairness of each job's steps and of the calling thread. These are threads of one
Python process that no lock holds back, and each of their steps is a call that answers or raises, or a wait with a
deadline (by default 300 s for a clone, 60 s for a start or a delete), which may give up at any time (`"wait" \in
Faults`). Nothing is assumed of the cluster: its tasks may hang for ever. `Waits` (`Spec`): weak fairness of the
caller only; the task, the command and the guest need never change. The other modules state safety only.

## Theorems

Checked for every value of the constants, under the ASSUMEs of the modules (which the runs evaluate)
and the assumptions named here.

| Theorem | Says |
|---|---|
| `LaunchMany_proofs!Invariance` | `Spec => []LaunchInv` |
| `Ownership`, `CompleteOnReturn`, `NeverRaisesCancellation`, `RollbackIsolation` | the invariants `OwnsItsVm`, `ReturnedComplete`, `RaisesALaunchError`, `RollbackRunsAlone` |
| `ForeignSafety`, `StoppedWhileConfigured`, `Quiescence` | the action properties `ForeignUntouched`, `ConfiguredWhileStopped`, `NoStragglers` |
| `LaunchMany_proofs!Refinement` | `Spec => IsBatch`: `launch_many` implements `Batch` |
| `NoMutualWait` | until the call is over, some thread of it has something to do (`NeverAllWaiting`): workers, `as_completed` and the two joins never all wait |
| `BoundedJobs`, `BoundedCaller` | a config has at most 17 steps to take (`JobRank`), the calling thread at most `2 * NJobs + 5`, interrupts included (`MainRank`); each of their steps lowers its rank, and no step of anyone raises one |
| `WhatIsLeft` | when the call raises, the VMs left are of three kinds of launches and no others (`LeftAccounted`) |
| `Routing_proofs!UnmanagedSafety` | rules that no call names survive any number of managers and failures, until two managers upload at once (`overlapped`) |
| `ReloadConvergence` | when no call runs, and each manager that had a failure, noticed or not, has made a call without one since, live rules equal the file; for any number of managers, faults and uploads at once |
| `SoleManagerPorts` | no port has two rules (`PortsUnique`), for one manager that can parse what it writes (`Managers = {self}`, `Unreadable = {}`) and a file that starts so; any lists, calls that raise and commands that fail unnoticed |
| `SoleManagerTable` | `IsRuleTable`, under the same hypotheses: whatever fails, still a table without conflicts |
| `SoleManagerCare`, `SoleManagerDone`, `SoleManagerExhaustion` | `OthersUndisturbed`, `ReturnedDone`, `ExhaustionHarmless`, for one manager, any failures; the second speaks of calls of which no command has failed, noticed or not |
| `InterfacesFile_proofs!StaysWellFormed` | a well-formed file stays well formed, for any files, tags, ports and calls (`EveryFileWellFormed`) |
| `OthersAlwaysKept`, `AlwaysPaired`, `AlwaysPlaced` | `OthersKept`, `Paired`, `Placed`, for the same files |
| `EditsRuleTable` | `IsRuleTable`: edits of such a file, line by line, implement `RuleTable` |
| `RemoteFile_proofs!Invariance`, `Refinement` | `FileInv`, and `Spec => R!Spec`: one writer (`SoleWriter`), any readers, chunks, objects and failures implement `Register` |
| `Waits_proofs!Invariance` | `WaitInv`, for every timeout, interval and latency |
| `Truthfulness`, `Punctuality`, `NothingMissed` | `Truthful`, `Punctual`, `NotMissed`; "failed" is true of a task unless its status came without an `exitstatus` |
| `EveryAnswerHandled` | whatever a poll answers, its loop has a branch to take (`Handled`) |
| `EndIsNearer` | every step of the caller lowers `Variant`, a natural number, and the task, command or guest never raise it (`Descends`) |
| `E2E_proofs!Invariance`, `SuccessIsClean`, `LeftoversAreReported`, `RulesBeforeVms` | `E2EInv`, `SuccessMeansClean`, `LeftOnlyIfReported`, `RulesGoFirst`, for any number of VMs; of a rule they say so up to removals that failed without a word (`unheard`) |
| `EnsureRunning_proofs!Invariance` | `EnsureInv`, for any clients, calls, ids and faults |
| `RunningOnReturn`, `CloneOnlyIfMissing`, `SettingsAreAccounted`, `PurgeIsComplete` | `ReturnedRunning`, `ClonesOnlyWhenMissing`, `SettingsAccounted`, `PurgedAll` |
| `SoleClientConfigures` | `ConfiguredWhileStopped`, for one client of which no call raises or is told wrongly of a missing VM and which gives up no wait (`Clients = {c}`, `Faults` without `"call"`, `"missing"`, `"wait"`); tasks may fail, others may stop, delete and migrate VMs |
| `FakeBackend_proofs!Invariance`, `OwnSnapshots`, `OwnSnapshotReturned`, `Refinement` | `FakeInv`, `SnapshotsAreOwn`, `SnapshotIsOwn`, and `Spec => VS!Spec`: one thread that launches and clones (`OneLauncher`), any others, implement `VmStore` |
| `RestoreIsSound` | `RestoredIsListed`, also for one launching thread and any others, which may delete and forget at any time |

*Launching.* Ownership is not inductive. That job j owns the VM at `vmid[j]` follows from its stage only if a stage
pins down its task: a job that was refused the clone has the same `vmid` as the winner and must never be seen to hold
it. `LaunchInv` therefore says, for each job, which tasks a stage allows (`JobOK`), that the VM belongs to it whenever
the stage or the task relies on it (`Owns`, `Holds`), and which parts the VM has by then (`VmOK`), and, for the
calling thread, that what it has collected is settled, what it deletes was done, and what it waits for when
interrupted has been submitted (`CallerOK`). The main lemma is a frame argument: a step of one job changes only ids
that are free or its own, so it cannot disturb another's conjuncts (`Frame`, `OthersKeep`). Then one case per action.
It needs no bound on ids, jobs or workers.

For `Batch`, a VM's `has` and status at a stage (`VmOK`) say when it is made and when it is ready; what is left
to show is that after a return no task is left that could take a VM away, which `CallerOK` and `JobOK` give.

That the call ends has two halves besides fairness, and both are proved. It is never stuck: of the jobs
still queued the first is at the head of the queue, a rollback waits for deletes only (`RollingBack`), and
of what is not collected some future comes first. And it cannot go on for ever: a stage tells how many
steps a job has left (`JobRank`), what is not yet collected and not yet cancelled tells it of the calling
thread (`MainRank`). For what a failed call leaves (`LeftAccounted`), `CloneOK` relates every VM to the
stage and the task of the job that cloned it. It is the exact extent of finding 1: the skipped futures,
launches that failed after their clone, and deletes that did not succeed.

*Routing.* For the unmanaged rules, everything a manager may still write back must hold them, and no two may be
about to move (`CopiesComplete`). For the reload: while file and live rules differ, somebody has still to reload or has
failed to, and while live rules are obsolete, somebody has still to flush or has failed to (`ReloadPending`,
`OwesFlush`, `OwesReload`). For the ports: the choice stays disjoint from the file until it is written, because the copy
is the file (`ChoiceFits`), which is exactly what a second manager breaks; it does not need the removal to have
worked. The other three follow from how far a call is with the file (`CallProgress`): up to the first write it is the
one the call found, and unless a command has failed it has no rule of the mappings after the removal and exactly
`assigned` after the insertion.

*InterfacesFile.* `WellFormed` is the invariant: the lines spell rules in pairs, no two of one port; all rules of
calls are behind the first iface line that begins like that of `internal_iface` and before the blank or iface line
after it, or at the end of a file that has no such line; and nothing will be inserted at an open last line
(`Separated`, `StanzaAt`). If that line was the stanza of `internal_iface` itself, and only options and rules followed
it, they still do (`proper`, `Apart`), so the rules are in that stanza. The functions over lines recurse on the
sequence, so each fact about one (what a removal leaves, where the insert point is, which rules the lines spell) is
proved by induction on its length. Induction is used in set form: the lengths, or the sequences, of which the fact
holds are a set that has zero and, with each member, the next one (`SetInduction`, `SeqInduction`, from the
well-founded order of the naturals). One call then is a removal followed by insertions at that point, and both keep
the invariant.

*RemoteFile.* `FileInv` says that the path's object holds a whole content, that the writer's object is the
temporary one, written up to `pos`, and that a reader's object is not the temporary one, so nothing writes
to it any more. The refinement maps `value` to the content of the path, a write's effect to the move,
and a read's instant to its opening.

*EnsureRunning.* That the VM found or cloned is there and has the name is not inductive, for the tasks of this and of
earlier calls go on: `JobOK` says that a task somebody waits for is about that client's VM and has no outcome yet,
`OneClone` that no two clones run on one id, so that a clone that fails removes what it made itself. `ClientOK` then
gives, for each stage, what the call may still count on: `present` shrinks from the VMs of that name that the client
can see (`Visible`) to the one found, and to nothing before the call clones.

For one client (`SoleInv`) the only tasks are those it waits for, so while it configures nobody starts
the VM. TLC shows that no hypothesis can be dropped: a wait that ends by its timeout, by a call that
raises or by an error taken for a missing VM leaves its start task running; when the VM is then deleted and its
id cloned to again, that task can start the new VM between its clone and its configuration.

*Waits.* `Clock` bounds how late each stage of a round can be: a poll starts before the limit in force, so an answer
comes less than `Slowest` after it, and the next round less than a pause after that. The nested limit lies between
the deadline and `Slowest + Second` past it, because it is set when an answer has come. `Sight` relates the clock to the
last poll (`PolledWithin`): a loop that gives up has polled within one round, or in the last round before the
deadline, and an answer that was there before that poll would have been taken. The end of the latest round
(`Latest`) is also what the call runs towards: `Variant` is the time left until then and the steps left in the round;
it falls because a round that comes back to its beginning has slept.

*E2E.* While VMs are verified with status 0, those before the cursor have passed everything and the one at the
cursor has passed what comes before the call (`PassedBefore`), and only its rule may be missing from `nat_mappings`
(`VerifyOK`); in the cleanup kept rules go first, or have failed to without a word (`unheard`), then VMs in
order (`CleanOK`). That a returned batch stays ready is a property of `Batch`.

*FakeBackend.* Snapshots are younger than the VM that has the id (`born < upid`), an id that `launch` has picked is
still free when it is cloned to (`CallOK`, which needs one launching thread), and no VM is younger than the task
counter (`BornBefore`). A snapshot taken while its name was not in use is the first of that name until it is deleted,
and what a restore has seen is listed until somebody deletes it (`SureOK`). Each route then is a step of `VmStore` or
a stutter.

## Findings

1. **`launch_many` does not roll back all** (`launch_rollback`, `RollsBackAll`). The docstring
   at `client.py:233` says "Launch multiple VMs in parallel. Rolls back all on any failure." Two launches read
   the same free id (`client.py:373` only reads it), one clone is refused, its future is yielded
   first, and from then on the loop skips every future (`client.py:247`), so the VM of the launch that
   succeeds later is neither returned nor deleted. No call failed for an outside reason.
2. **`ensure_running` starts a VM that another client is still configuring**
   (`ensure_half_configured`, `ConfiguredWhileStopped`). The docstring at `vm.py:323` says "Must be called while
   the VM is stopped (cloud-init is applied at next boot)." The second client finds the VM by its name between clone
   and configuration, and starts it (`client.py:295`); the launch of the first then configures a running VM.
3. **Two writers of one file publish an incomplete one** (`remote_file_two`, `PathWhole`). The docstring at
   `_backend.py:58` says "Write content to a remote file (atomic via tmp file)." The temporary name depends on the path
   only (`_backend.py:198`): a second writer truncates the file that the first is about to move, and `mv`
   publishes it empty or mixed. No call fails.

## What else the models show

Behaviour of the code that a user may not expect. The properties above are stated so as to hold
next to it; the instance that shows each is given where there is one.

*Launching.* A launch that fails after its clone leaves its VM behind, also a single `launch`
(`client.py:201-217`; `RollsBackAll` with `NJobs = 1`, `Faults = {"build"}`). The rollback's DELETE of a
running VM is refused by a cluster that wants it stopped (`client.py:259`; `DeleteRunning = FALSE`), while
`e2e.py:391` stops VMs first. On KeyboardInterrupt in the submitting or collecting loop the launches that are submitted,
queued ones included, still run and nothing is rolled back (`InterruptSubmit`, `InterruptCollect`); in the rollback the
deletes not submitted yet are never made (`InterruptRollback`). A second interrupt, while the first waits for the
threads, makes `launch_many` raise and leave them at work (`InterruptJoin`), so that VMs are cloned after its
end: `NoStragglers` and `Batch` except this case.

*Ensuring.* An unrelated API error with the words "does not exist" is taken for a missing VM and answered by a second
clone (`_backend.py:135`; action `TakenForGone`); the call cannot tell it from a missing VM, so
`ClonesOnlyWhenMissing` cannot exclude it. A client that was made with a node sees the VMs of that node only
(`client.py:354`): if the VM of that name is on another node, or has migrated there, `ensure_running` clones a second
one of the name (`Sees`; the property speaks of the VMs that the client can see). Two clients that ensure one missing
name both clone. A single client can configure a running VM too, when the start task of a wait it gave up hits the VM
that got the id next (`ConfiguredWhileStopped` with one client and `Faults = {"wait", "delete"}`). `get_vm` takes a
name of digits for an id (`client.py:121`), so `ensure_running` of such a name never finds what it launched; the model
excludes such names. `get_vm` of an id ignores the node the client is pinned to, which `get_vm` of a name respects
(`client.py:358`). A VM that migrates between the look-up and the next call is taken for missing as well, and cloned a
second time (`TakenForGone`). When a launch failed after its clone, a repeated `ensure_running` starts and returns the
VM without its settings (`SettingsAccounted` allows exactly this case). `purge` lists templates too and deletes them,
and running VMs (`client.py:342`). The test of it says in a comment "VM 101 (running) should remain"
(`tests/unit/test_client.py:150`), which the code contradicts; its assertion is about the VMs that are left, of which
there are none, so it holds of nothing. `PurgedAll` states what the code and the docstring ("Delete all VMs",
`client.py:341`) say. When `cluster/nextid` raises for any reason, `_next_vmid` takes one more than the highest id
(`client.py:377`).

*Waits.* A task whose status is "stopped" without an `exitstatus` raises `TaskFailedError` although it may have ended
well (`_backend.py:94`; reply `noexit`), while a status that cannot be read at all is polled again
(`_backend.py:99`). `Truthful` excepts the former.

*Routing.* The exit codes of `ss`, `mv`, `iptables` and `ifreload` are dropped (`routing.py:250`, `304`, `305`,
`_backend.py:203`), so a call that returns need not have done anything: it may have left the old file, or removed the
rules and not added the new ones, or added new rules beside the old ones of the same tags (`"mv"` in `Faults`; a tag
then has two rules), or left the chain empty. `ReturnedDone` and `ReloadedWhenIdle` speak of calls none of whose
commands failed. Two mappings with one tag in a list get two rules as well. When `ss` fails, ports that the node
listens on are given away. The docstring of `add_rules` removes the old rules before it assigns ports
(`routing.py:165-166`); the code counts the ports first (`routing.py:179-183`), so the ports of the rules that a call
replaces are not free to it, and a full range changes nothing (`ExhaustionHarmless`).

Two managers give one port to two rules (`PortsUnique` with `Managers = {1, 2}`, `Faults = {}`; `routing.py:180`), a
call that returned may have lost its rules to another's write (`ReturnedDone`, same instance; `routing.py:212`), and
uploads at once may publish any mixture, rules of nobody lost or not (`UnmanagedKept` excepts them by `overlapped`;
finding 3). A rule with an empty VM name does not match `_RULE_RE` (`routing.py:49`), so its port is given away again
(`PortsUnique` in `routing_one` with `Unreadable = {1}`). The flush empties the whole chain, rules of other programs
too (`Outsider`, `routing.py:304`). `list_rules` keeps one rule per name (`routing.py:342`).

*The interfaces file.* Rules are not always in the stanza of `internal_iface`, whatever the docstring of
`_find_iface_insert_point` says ("just before the end of the given iface stanza", "Looks for `iface <name>`",
`routing.py:309`, `311`). The stanza is found by prefix, so `vmbr10` before `vmbr1` receives the rules
(`routing.py:318`). An `auto` line does not end a stanza (`routing.py:321`), so rules land after it when no
blank line separates them, and the reload binds them to the interface after it; a test asserts that
(`tests/unit/test_routing.py:534-563`, rules behind `auto vmbr2`). Without the stanza rules are appended to the file, to
whatever stanza is the last; a test asserts that too (`tests/unit/test_routing.py:512-531`). All these files are in the
run, and `Placed` states where rules go in each; that they are in the right stanza holds of files in which it comes first
of its prefix and a blank or iface line follows it (`Apart`). One case is left out of the files, by `WellFormed`: a rule
inserted at the end of a file without a final newline is glued to its last line, and removed with it
(`routing.py:213`, action `Write`, operator `Joined`); `OthersKept` fails on such files.

*SSH backend.* A failed `mv` is not reported (`_backend.py:203`): `write_file` returns and the file is the old one
(`MoveFails` with outcome "returned"). `run` waits for the exit status before it reads the output
(`_backend.py:182`), so a command that fills the channel's window would wait for a reader that waits for it; the
model's commands are short.

*End-to-end runner.* Status 0 and "SUCCESS" are possible with a forwarding rule left, which then points to no VM or to
the next one that gets the address: `remove_rules` returns when the `mv` of its write has failed (`_backend.py:203`,
`e2e.py:389`; `RemoveRules` with `"silent"`). The properties except exactly the rules of `unheard`. The cleanup ends
at its first error (`e2e.py:394`), and an exception that is no `ProxmoxError` skips it altogether (`e2e.py:371`);
`LeftOnlyIfReported` excludes exactly these two. A rule stays if `add_rules` raises after it has written
(`e2e.py:158`), or an interrupt comes before its mapping is kept (`e2e.py:366`), which is why that property speaks of
kept mappings; the status is then not 0. If the user interrupts `launch_many` twice, its threads go on cloning after
`main` has ended (`Batch!Abandon`). VMs given by `--configs` get no SSH key, but are verified by SSH (`e2e.py:274`);
items of that JSON that do not fit end in a traceback (`misfit` in `Setup`).

*VM handle and fake.* `snapshot` returns the first snapshot of that name, which may be an older one, or makes one up
(`vm.py:148`; results `other_snapshot`, `stand_in`; `SnapshotIsOwn` says when not). A snapshot named "current" is left
out of listings (`vm.py:177`): `snapshot("current")` describes one it makes up, and `restore("current")` raises
`SnapshotNotFoundError`. A restore does not notice that its snapshot is gone by the time it asks for the rollback; the
fake's rollback then returns all the same (`testing.py:322`), a cluster would refuse it (`RestoredIsListed` says when
it does not matter). `has_cloud_init_drive` takes any field that contains "cloudinit" for a drive, the name too
(`vm.py:313`). Two threads that launch get one id in the fake, and the second clone replaces the first VM and takes
over its snapshots (`IsVmStore` with both threads in `{"launch"}`; `testing.py:82`); a real cluster refuses it. POST
without an id adds a VM at 9000 plus their number, which may be taken (`testing.py:240`). The fake has no agent and
exec routes (`testing.py:334`), so tests cannot run the waits against it.

## Only model-checked

Liveness: `Termination` of `LaunchMany` and of `Waits` is out of the prover's reach, and so is ENABLED. What it
rests on is proved for all sizes, that the threads are never all waiting and that each has a bounded number of steps left
(`NoMutualWait`, `BoundedJobs`, `BoundedCaller`; `EveryAnswerHandled`, `EndIsNearer`); that with
weak fairness this gives an end is what TLC checks on the instances. Every other property of a passing run is
also proved. `ConfiguredWhileStopped` of `EnsureRunning`, which a run refutes, is proved for the one client of
`SoleClientConfigures`.

## Not modelled

- `models.py`, `exceptions.py`, `_utils.py`, `__init__.py`: data classes, exception classes, one `urlparse`,
  exports. Which exception is raised is part of the callers' models.
- `devtools/`: scripts for developers, without state of the system.
- Building the proxmoxer backend, logins, SSH connecting, `__repr__`, reads that only map an answer (`list_nodes`,
  `list_templates`, `find_template`, `metrics`, `list_rules` beyond its parsing).
- The values of settings: that hardware and cloud-init settings are stored is modelled, which keys are sent is
  not. `transfer` and its quoting.
- In `testing.py`: POST without a clone, which no method of the SDK requests, the nodes, the recorded calls, the
  dictionary of `FakeSshBackend`, and threads inside one handler.
- In `e2e.py`: argparse's own syntax errors, key files beyond "found or not", printing.
- Memory reordering and the GIL: a step touches shared Python state only through futures, which lock.

## Plan

Modules were written in this order, the most concurrent parts first: `LaunchMany`, `Routing`,
`RemoteFile`/`Register`, `Waits`, `E2E`, `EnsureRunning`, `FakeBackend`/`VmStore`, `InterfacesFile`, then `Batch` between
`LaunchMany` and `E2E`; proofs follow the modules. What is left is small:

1. `E2E` runs `Batch` for the launch, but has its own outcomes of `add_rules`, `remove_rules` and of the waits, and no
   chain of live rules; an abstract manager that may return without effect could take the place of the former.
2. `Routing` takes a read of the file as one step and the mixtures of overlapping uploads as arbitrary; a composition with
   `RemoteFile` in place of `file` would restrict them to what the chunks can make.
3. The POST of `FakeBackend` without a clone, if a method of the SDK comes to request it.
