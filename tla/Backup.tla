------------------------------- MODULE Backup -------------------------------
(***************************************************************************)
(* Copying models to a share and back (nexusdash/modules/llama.py): the    *)
(* requests that start, cancel and delete, the job file, and the detached  *)
(* workers, each with an rsync below it. rsync runs with --partial, so a   *)
(* copy that is stopped leaves a short file under its final name. Nothing  *)
(* keeps a backup and a download (ModelJob) out of each other's way: the   *)
(* download's files come into the directory the backup reads.              *)
(***************************************************************************)
EXTENDS Naturals

CONSTANTS
    Groups,       \* model groups
    Requests,     \* request threads
    Nil,
    MaxWorkers,   \* bound: workers spawned
    MaxFaults     \* bound: restarts of the service, workers killed from outside

VARIABLES
    job,       \* the job file
    lock,      \* who holds _backup_lock
    req,       \* the request of each thread
    worker,    \* the workers, numbered by pid, each with its rsync
    models,    \* models[g]: on the node
    copies,    \* copies[g]: on the share
    manifest,  \* groups with a manifest on the share
    up,        \* is the service up
    count,     \* workers spawned, faults
    spoiled    \* history: groups excused from ManifestHonest

vars == <<job, lock, req, worker, models, copies, manifest, up, count, spoiled>>

Worker == 1..MaxWorkers
Idle == [pc |-> "idle"]
Gone == [pc |-> "gone", rsync |-> "none", stop |-> FALSE]
NoJob == [state |-> "idle", op |-> Nil, group |-> Nil, pid |-> 0, cancel |-> FALSE]

Init ==
    /\ job = NoJob /\ lock = Nil
    /\ req = [r \in Requests |-> Idle]
    /\ worker = [w \in Worker |-> Gone]
    /\ models \in [Groups -> {"none", "whole"}]
    /\ copies = [g \in Groups |-> "none"]
    /\ manifest = {} /\ up = TRUE /\ spoiled = {}
    /\ count = [spawned |-> 0, faults |-> 0]

Alive(w) == worker[w].pc # "gone"

\* _pid_alive: pid 0 is the caller's own process group.
PidAlive(p) == p = 0 \/ Alive(p)

\* _backup_job_view
View == IF job.state = "running" /\ ~PidAlive(job.pid) THEN "interrupted" ELSE job.state

Source(op) == IF op = "backup" THEN models ELSE copies
Dest(op) == IF op = "backup" THEN copies ELSE models

\* The whole control group of the service ends, workers and copies too.
ServiceStops ==
    /\ up' = FALSE /\ lock' = Nil
    /\ req' = [r \in Requests |-> Idle]
    /\ worker' = [w \in Worker |-> Gone]

----------------------------------------------------------------------------
(* llama_backup_create, llama_backup_restore, _start_backup_job *)

Check(r, op, g) ==
    /\ up /\ req[r].pc = "idle"
    /\ Source(op)[g] # "none"
    /\ req' = [req EXCEPT ![r] = [pc |-> "checked", op |-> op, group |-> g]]
    /\ UNCHANGED <<job, lock, worker, models, copies, manifest, up, count, spoiled>>

NewJob(op, g) == [state |-> "running", op |-> op, group |-> g, pid |-> 0, cancel |-> FALSE]

\* Mutant of Start: looks before it takes the lock, as a pull of a model does.
StartUnchecked(r) ==
    /\ req[r].pc = "checked" /\ lock = Nil
    /\ count.spawned < MaxWorkers
    /\ job' = NewJob(req[r].op, req[r].group)
    /\ lock' = r
    /\ req' = [req EXCEPT ![r] = [pc |-> "spawn", copy |-> job']]
    /\ UNCHANGED <<worker, models, copies, manifest, up, count, spoiled>>

\* The running job is looked for, and the new one saved, under the lock.
Start(r) ==
    /\ req[r].pc = "checked" /\ lock = Nil
    /\ IF View = "running"
       THEN req' = [req EXCEPT ![r] = Idle] /\ UNCHANGED <<job, lock>>
       ELSE /\ count.spawned < MaxWorkers
            /\ job' = NewJob(req[r].op, req[r].group)
            /\ lock' = r
            /\ req' = [req EXCEPT ![r] = [pc |-> "spawn", copy |-> job']]
    /\ UNCHANGED <<worker, models, copies, manifest, up, count, spoiled>>

Spawn(r) ==
    /\ req[r].pc = "spawn"
    /\ LET w == count.spawned + 1
       IN  /\ count' = [count EXCEPT !.spawned = w]
           /\ worker' = [worker EXCEPT ![w].pc = "start"]
           /\ req' = [req EXCEPT ![r] = [pc |-> "save", copy |-> [req[r].copy EXCEPT !.pid = w]]]
    /\ UNCHANGED <<job, lock, models, copies, manifest, up, spoiled>>

\* The request saves its own job once more, over what the worker saved meanwhile.
SaveAndLeave(r) ==
    /\ req[r].pc = "save"
    /\ job' = req[r].copy
    /\ lock' = Nil
    /\ req' = [req EXCEPT ![r] = Idle]
    /\ UNCHANGED <<worker, models, copies, manifest, up, count, spoiled>>

----------------------------------------------------------------------------
(* llama_backup_job_cancel, llama_backup_delete *)

Cancel(r) ==
    /\ up /\ req[r].pc = "idle" /\ lock = Nil
    /\ View = "running"
    /\ lock' = r
    /\ req' = [req EXCEPT ![r] = [pc |-> "cancel", copy |-> [job EXCEPT !.cancel = TRUE]]]
    /\ UNCHANGED <<job, worker, models, copies, manifest, up, count, spoiled>>

CancelSave(r) ==
    /\ req[r].pc = "cancel"
    /\ job' = req[r].copy
    /\ lock' = Nil
    /\ req' = [req EXCEPT ![r] = [pc |-> "signal", pid |-> req[r].copy.pid]]
    /\ UNCHANGED <<worker, models, copies, manifest, up, count, spoiled>>

\* What is left of a worker that ends: its rsync, if it still runs.
Exited(w) == IF w.rsync = "running" THEN [w EXCEPT !.pc = "gone", !.copy = Nil] ELSE Gone

\* SIGTERM ends a worker that has no handler yet, and leaves its rsync running.
Signalled(w) ==
    CASE w.pc \in {"copying", "ending"} -> [w EXCEPT !.stop = TRUE]
      [] OTHER -> Exited(w)

Signal(r) ==
    /\ req[r].pc = "signal"
    /\ IF req[r].pid = 0
       THEN ServiceStops
       ELSE /\ worker' = [worker EXCEPT ![req[r].pid] = IF Alive(req[r].pid) THEN Signalled(@) ELSE @]
            /\ req' = [req EXCEPT ![r] = Idle]
            /\ UNCHANGED <<lock, up>>
    /\ UNCHANGED <<job, models, copies, manifest, count, spoiled>>

\* The delete looks for a running job without the lock.
DeleteCheck(r, g) ==
    /\ up /\ req[r].pc = "idle"
    /\ copies[g] # "none" /\ View # "running"
    /\ req' = [req EXCEPT ![r] = [pc |-> "delete", group |-> g]]
    /\ UNCHANGED <<job, lock, worker, models, copies, manifest, up, count, spoiled>>

\* An rsync writes there, or a worker is about to write the manifest.
Writing(g) == \E w \in Worker : /\ worker[w].rsync = "running" \/ worker[w].pc = "end"
                                /\ worker[w].group = g

\* rmtree of a directory somebody writes into fails, with part of it removed.
DeleteTree(r) ==
    /\ req[r].pc = "delete"
    /\ LET g == req[r].group
       IN  IF Writing(g)
           THEN /\ copies' = [copies EXCEPT ![g] = "part"]
                /\ spoiled' = spoiled \cup {g}
                /\ UNCHANGED manifest
           ELSE /\ copies' = [copies EXCEPT ![g] = "none"]
                /\ manifest' = manifest \ {g}
                /\ spoiled' = spoiled \ {g}
    /\ req' = [req EXCEPT ![r] = Idle]
    /\ UNCHANGED <<job, lock, worker, models, up, count>>

----------------------------------------------------------------------------
(* cli_llama_backup *)

WLoad(w) ==
    /\ worker[w].pc = "start"
    /\ worker' = [worker EXCEPT ![w] =
                    IF job.state = "running"
                    THEN [pc |-> "claim", rsync |-> "none", stop |-> FALSE,
                          op |-> job.op, group |-> job.group, copy |-> job]
                    ELSE Gone]
    /\ UNCHANGED <<job, lock, req, models, copies, manifest, up, count, spoiled>>

WClaim(w) ==
    /\ worker[w].pc = "claim"
    /\ job' = [worker[w].copy EXCEPT !.pid = w]
    /\ worker' = [worker EXCEPT ![w].pc = "popen"]
    /\ UNCHANGED <<lock, req, models, copies, manifest, up, count, spoiled>>

WPopen(w) ==
    /\ worker[w].pc = "popen"
    /\ worker' = [worker EXCEPT ![w].pc = "handler", ![w].rsync = "running", ![w].copy = Nil]
    /\ UNCHANGED <<job, lock, req, models, copies, manifest, up, count, spoiled>>

\* No rsync on this node: the error goes into the job as it was first loaded.
WNoRsync(w) ==
    /\ worker[w].pc = "popen"
    /\ job' = [worker[w].copy EXCEPT !.state = "error", !.pid = w]
    /\ worker' = [worker EXCEPT ![w] = Gone]
    /\ UNCHANGED <<lock, req, models, copies, manifest, up, count, spoiled>>

WHandler(w) ==
    /\ worker[w].pc = "handler"
    /\ worker' = [worker EXCEPT ![w].pc = "copying"]
    /\ UNCHANGED <<job, lock, req, models, copies, manifest, up, count, spoiled>>

\* A pass of the loop: another group or the flag stops it, else progress is saved
\* into the job as it was loaded.
WPoll(w) ==
    /\ worker[w].pc = "copying" /\ worker[w].rsync = "running"
    /\ worker' = [worker EXCEPT ![w] =
                    IF job.group # @.group \/ job.cancel
                    THEN [@ EXCEPT !.stop = TRUE, !.pc = "ending"]
                    ELSE [@ EXCEPT !.copy = [job EXCEPT !.pid = w]]]
    /\ UNCHANGED <<job, lock, req, models, copies, manifest, up, count, spoiled>>

WProgress(w) ==
    /\ worker[w].pc = "copying" /\ worker[w].copy # Nil
    /\ job' = worker[w].copy
    /\ worker' = [worker EXCEPT ![w].copy = Nil]
    /\ UNCHANGED <<lock, req, models, copies, manifest, up, count, spoiled>>

WPollsOut(w) ==
    /\ worker[w].pc = "copying" /\ worker[w].copy = Nil
    /\ worker[w].rsync \in {"ok", "failed"}
    /\ worker' = [worker EXCEPT ![w].pc = "ending"]
    /\ UNCHANGED <<job, lock, req, models, copies, manifest, up, count, spoiled>>

\* After communicate() the job is loaded again. An rsync that was told to end gets
\* half a minute to do so.
WEndLoad(w) ==
    /\ worker[w].pc = "ending" /\ (worker[w].stop \/ worker[w].rsync # "running")
    /\ worker' = [worker EXCEPT ![w] =
                    IF job.group = @.group THEN [@ EXCEPT !.pc = "end", !.copy = job] ELSE Exited(@)]
    /\ UNCHANGED <<job, lock, req, models, copies, manifest, up, count, spoiled>>

Outcome(w) ==
    CASE worker[w].stop -> "cancelled"
      [] ~worker[w].stop /\ worker[w].rsync = "failed" -> "error"
      [] OTHER -> "done"

\* Mutant of WManifest: written for whatever has been copied.
WManifestAnyway(w) ==
    /\ worker[w].pc = "end"
    /\ IF worker[w].op = "backup"
       THEN manifest' = manifest \cup {worker[w].group} ELSE UNCHANGED manifest
    /\ worker' = [worker EXCEPT ![w].pc = "save"]
    /\ UNCHANGED <<job, lock, req, models, copies, up, count, spoiled>>

\* Only a backup that is done gets its manifest, if its directory is still there.
WManifest(w) ==
    /\ worker[w].pc = "end"
    /\ IF worker[w].op = "backup" /\ Outcome(w) = "done" /\ copies[worker[w].group] # "none"
       THEN manifest' = manifest \cup {worker[w].group} ELSE UNCHANGED manifest
    /\ worker' = [worker EXCEPT ![w].pc = "save"]
    /\ UNCHANGED <<job, lock, req, models, copies, up, count, spoiled>>

WEndSave(w) ==
    /\ worker[w].pc = "save"
    /\ job' = [worker[w].copy EXCEPT !.state = Outcome(w), !.cancel = @ /\ ~worker[w].stop]
    /\ worker' = [worker EXCEPT ![w] = Exited(@)]
    /\ UNCHANGED <<lock, req, models, copies, manifest, up, count, spoiled>>

----------------------------------------------------------------------------
(* rsync, and what happens to the processes *)

Put(op, g, amount) ==
    IF op = "backup"
    THEN copies' = [copies EXCEPT ![g] = amount] /\ UNCHANGED models
    ELSE models' = [models EXCEPT ![g] = amount] /\ UNCHANGED copies

\* The download worker: the group is on the list with the first of its files, and
\* whole with the last.
Download(g) ==
    /\ \/ models[g] = "none" /\ models' = [models EXCEPT ![g] = "part"]
       \/ models[g] = "part" /\ models' = [models EXCEPT ![g] = "whole"]
    /\ spoiled' = IF \E w \in Worker : /\ worker[w].rsync = "running"
                                      /\ worker[w].op = "backup" /\ worker[w].group = g
                  THEN spoiled \cup {g} ELSE spoiled
    /\ UNCHANGED <<job, lock, req, worker, copies, manifest, up, count>>

\* Files that are equal are left alone; one that differs is being replaced. What came
\* after the list of files was made is not copied.
Rsync(w) ==
    LET op == worker[w].op
        g == worker[w].group
        from == Source(op)[g]
        copied == {from} \cup (IF g \in spoiled THEN {"part"} ELSE {})
        ends(how) == worker' = [worker EXCEPT ![w] =
                                  IF @.pc = "gone" THEN Gone ELSE [@ EXCEPT !.rsync = how]]
    IN  /\ worker[w].rsync = "running"
        /\ \/ Dest(op)[g] # from /\ Put(op, g, "part") /\ UNCHANGED worker
           \/ /\ from # "none" /\ ~worker[w].stop /\ ends("ok")
              /\ \E amount \in copied : Put(op, g, amount)
           \/ UNCHANGED <<models, copies>> /\ ends("failed")
        /\ spoiled' = IF op = "backup" /\ from # "whole" THEN spoiled \cup {g} ELSE spoiled
        /\ UNCHANGED <<job, lock, req, manifest, up, count>>

Killed(w) ==
    /\ Alive(w)
    /\ count.faults < MaxFaults /\ count' = [count EXCEPT !.faults = @ + 1]
    /\ worker' = [worker EXCEPT ![w] = Exited(@)]
    /\ UNCHANGED <<job, lock, req, models, copies, manifest, up, spoiled>>

Stop ==
    /\ up
    /\ count.faults < MaxFaults /\ count' = [count EXCEPT !.faults = @ + 1]
    /\ ServiceStops
    /\ UNCHANGED <<job, models, copies, manifest, spoiled>>

Boot ==
    /\ ~up /\ up' = TRUE
    /\ UNCHANGED <<job, lock, req, worker, models, copies, manifest, count, spoiled>>

----------------------------------------------------------------------------
Next ==
    \/ \E r \in Requests :
         \/ \E g \in Groups : DeleteCheck(r, g) \/ \E op \in {"backup", "restore"} : Check(r, op, g)
         \/ Start(r) \/ Spawn(r) \/ SaveAndLeave(r)
         \/ Cancel(r) \/ CancelSave(r) \/ Signal(r) \/ DeleteTree(r)
    \/ \E w \in Worker :
         \/ WLoad(w) \/ WClaim(w) \/ WPopen(w) \/ WNoRsync(w) \/ WHandler(w) \/ WPoll(w) \/ WProgress(w)
         \/ WPollsOut(w) \/ WEndLoad(w) \/ WManifest(w) \/ WEndSave(w)
         \/ Rsync(w) \/ Killed(w)
    \/ \E g \in Groups : Download(g)
    \/ Stop \/ Boot

Spec == Init /\ [][Next]_vars

----------------------------------------------------------------------------
(* Properties *)

\* One worker at a time, whatever starts, cancels and deaths overlap: the check and
\* the save of _start_backup_job are under one lock, and the progress a worker saves
\* never takes a live job for dead. (The rsync of a worker that died may outlive it.)
OneCopier == \A v, w \in Worker : Alive(v) /\ Alive(w) => v = w

\* "The manifest makes a backup self-describing": a backup with a manifest has the
\* whole model, after any cancel, failure, kill or restart. Three ways the code does
\* not keep this are excused: a model that is not whole, as an unfinished restore or
\* download leaves it, is backed up, over a good copy too; a download adds to a model
\* while it is copied; a delete overlaps a copy into the same directory.
ManifestHonest == \A g \in manifest \ spoiled : copies[g] = "whole"

----------------------------------------------------------------------------
(* What makes OneCopier and ManifestHonest inductive *)

Jobs == [state : {"running", "done", "error", "cancelled"}, op : {"backup", "restore"},
         group : Groups, pid : 0..MaxWorkers, cancel : BOOLEAN]

Locked == {"spawn", "save", "cancel"}
ReqType ==
    [pc : {"idle"}]
    \cup [pc : {"checked"}, op : {"backup", "restore"}, group : Groups]
    \cup [pc : Locked, copy : Jobs]
    \cup [pc : {"signal"}, pid : 0..MaxWorkers]
    \cup [pc : {"delete"}, group : Groups]

\* A worker has a job once it has loaded one; only then can it leave an rsync.
WorkerType ==
    [pc : {"gone", "start"}, rsync : {"none"}, stop : {FALSE}]
    \cup [pc : {"claim", "popen"}, rsync : {"none"}, stop : {FALSE},
          op : {"backup", "restore"}, group : Groups, copy : Jobs]
    \cup [pc : {"handler", "copying", "ending", "end", "save"},
          rsync : {"running", "ok", "failed"}, stop : BOOLEAN,
          op : {"backup", "restore"}, group : Groups, copy : Jobs \cup {Nil}]
    \cup [pc : {"gone"}, rsync : {"running"}, stop : BOOLEAN,
          op : {"backup", "restore"}, group : Groups, copy : {Nil}]

\* Type invariant of every variable.
TypeOK ==
    /\ job \in Jobs \cup {NoJob}
    /\ lock \in Requests \cup {Nil}
    /\ req \in [Requests -> ReqType]
    /\ worker \in [Worker -> WorkerType]
    /\ models \in [Groups -> {"whole", "part", "none"}]
    /\ copies \in [Groups -> {"whole", "part", "none"}]
    /\ manifest \subseteq Groups /\ spoiled \subseteq Groups
    /\ up \in BOOLEAN
    /\ count \in [spawned : 0..MaxWorkers, faults : 0..MaxFaults]

\* Nobody but the request that is between its load and its save holds the lock, and
\* what a request or worker saves in the end is a job.
LockInv ==
    /\ \A r \in Requests : req[r].pc \in Locked <=> lock = r
    /\ \A r \in Requests : req[r].pc = "spawn" => count.spawned < MaxWorkers
    /\ \A w \in Worker : worker[w].pc \in {"end", "save"} => worker[w].copy \in Jobs

\* While a worker lives it is the last one spawned and the job says that it runs, as
\* do the copies that will be saved over the job.
SoleCopier ==
    /\ \A w \in Worker : Alive(w) =>
         /\ w = count.spawned
         /\ job.state = "running" /\ job.pid \in {0, w}
         /\ worker[w].pc \in {"claim", "popen"} => worker[w].copy.state = "running"
         /\ worker[w].pc \in {"handler", "copying"} /\ worker[w].copy # Nil =>
              worker[w].copy.state = "running" /\ worker[w].copy.pid = w
         /\ \A r \in Requests :
              req[r].pc = "cancel" => req[r].copy.state = "running" /\ req[r].copy.pid \in {0, w}
    /\ \A r \in Requests :
         /\ req[r].pc = "spawn" => /\ \A w \in Worker : ~Alive(w)
                                   /\ job.state = "running" /\ job.pid = 0
                                   /\ req[r].copy.state = "running"
         /\ req[r].pc = "save" => req[r].copy.state = "running" /\ req[r].copy.pid = count.spawned
    /\ \A w \in Worker : w > count.spawned => worker[w] = Gone

\* A worker that was not told to stop ends when its rsync has. What its rsync copied
\* stays whole, unless it is deleted, and then nobody is writing there.
CopiedWhole ==
    \A w \in Worker :
        /\ worker[w].pc \in {"ending", "end", "save"} /\ ~worker[w].stop => worker[w].rsync # "running"
        /\ worker[w].rsync = "ok" /\ worker[w].op = "backup" /\ worker[w].group \notin spoiled =>
             \/ copies[worker[w].group] = "whole"
             \/ /\ copies[worker[w].group] = "none"
                /\ \A v \in Worker : worker[v].rsync = "running" => worker[v].group # worker[w].group

IInv == TypeOK /\ LockInv /\ SoleCopier /\ CopiedWhole /\ ManifestHonest
=============================================================================
