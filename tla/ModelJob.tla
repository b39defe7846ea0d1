------------------------------ MODULE ModelJob ------------------------------
(***************************************************************************)
(* The model download job of nexusdash/modules/llama.py: one job file,     *)
(* written by the request threads under _model_job_lock and by detached    *)
(* worker processes that the lock does not reach. Reading and writing the  *)
(* file are separate steps, so each side may overwrite the other. Bytes    *)
(* and files are left out: a worker runs until it ends in some way.        *)
(***************************************************************************)
EXTENDS Naturals

CONSTANTS
    Requests,    \* request threads
    Groups,      \* models that can be asked for
    MaxWorkers,  \* bound: workers spawned
    MaxRestarts, \* bound: stops of the service
    MaxKills,    \* bound: workers that die without a word
    Nil

VARIABLES
    job,      \* MODEL_JOB_FILE
    lock,     \* _model_job_lock: the request that holds it, or Nil
    req,      \* each request thread
    worker,   \* each worker process; its number is its pid
    spawned,
    up,       \* the service runs
    restarts,
    kills,
    told      \* history: workers a cancel request found running

vars == <<job, lock, req, worker, spawned, up, restarts, kills, told>>

Pid == 0..MaxWorkers
Worker == 1..MaxWorkers
States == {"idle", "downloading", "cancelled", "error", "done"}
Job == [state : States, group : Groups \cup {Nil}, pid : Pid, cancel : BOOLEAN]

ReqIdle == [pc |-> "idle", group |-> Nil, copy |-> Nil]
ReqType == [pc : {"idle", "checked", "spawn", "save", "cancel", "signal"},
            group : Groups \cup {Nil}, copy : Job \cup {Nil}]

Unborn == [pc |-> "none", group |-> Nil, stop |-> FALSE, copy |-> Nil, outcome |-> "idle"]
WorkerType == [pc : {"none", "start", "init", "run", "flush", "end", "dead"},
               group : Groups \cup {Nil}, stop : BOOLEAN, copy : Job \cup {Nil},
               outcome : States]
Dead == [Unborn EXCEPT !.pc = "dead"]

Init ==
    /\ job = [state |-> "idle", group |-> Nil, pid |-> 0, cancel |-> FALSE]
    /\ lock = Nil
    /\ req = [r \in Requests |-> ReqIdle]
    /\ worker = [w \in Worker |-> Unborn]
    /\ spawned = 0
    /\ up = TRUE
    /\ restarts = 0
    /\ kills = 0
    /\ told = {}

----------------------------------------------------------------------------
Alive(w) == worker[w].pc \notin {"none", "dead"}

\* _pid_alive: signal 0 to pid 0 addresses the caller's own group and succeeds.
PidAlive(pid) == pid = 0 \/ Alive(pid)

\* Mutant of View: nobody asks whether the worker lives.
ViewTrusting(j) == j.state

\* _job_view: a job whose worker is gone is shown as interrupted.
View(j) == IF j.state = "downloading" /\ ~PidAlive(j.pid) THEN "interrupted" ELSE j.state

\* SIGTERM: a flag once the handler is installed, death before that.
Signalled(x) ==
    CASE x.pc \in {"start", "init"} -> Dead
      [] x.pc \in {"run", "flush", "end"} -> [x EXCEPT !.stop = TRUE]
      [] OTHER -> x

\* The service stops; its requests go, and systemd signals every process of
\* its control group, the detached workers included.
ServiceStops ==
    /\ up' = FALSE
    /\ lock' = Nil
    /\ req' = [r \in Requests |-> ReqIdle]
    /\ worker' = [w \in Worker |-> Signalled(worker[w])]

----------------------------------------------------------------------------
(* llama_model_pull: the check and the save are separate critical sections *)

PullCheck(r, g) ==
    /\ up
    /\ req[r].pc = "idle"
    /\ lock = Nil
    /\ View(job) # "downloading"
    /\ req' = [req EXCEPT ![r] = [ReqIdle EXCEPT !.pc = "checked", !.group = g]]
    /\ UNCHANGED <<job, lock, worker, spawned, up, restarts, kills, told>>

\* The repo listing or the space check refuses.
PullRefused(r) ==
    /\ req[r].pc = "checked"
    /\ req' = [req EXCEPT ![r] = ReqIdle]
    /\ UNCHANGED <<job, lock, worker, spawned, up, restarts, kills, told>>

PullSave(r) ==
    LET new == [state |-> "downloading", group |-> req[r].group, pid |-> 0, cancel |-> FALSE]
    IN  /\ req[r].pc = "checked"
        /\ lock = Nil
        /\ spawned < MaxWorkers
        /\ lock' = r
        /\ job' = new
        /\ req' = [req EXCEPT ![r].pc = "spawn", ![r].copy = new]
        /\ UNCHANGED <<worker, spawned, up, restarts, kills, told>>

\* Spawn the worker, the lock still held.
Spawn(r) ==
    /\ req[r].pc = "spawn"
    /\ spawned' = spawned + 1
    /\ worker' = [worker EXCEPT ![spawned'] = [Unborn EXCEPT !.pc = "start"]]
    /\ req' = [req EXCEPT ![r].pc = "save", ![r].copy.pid = spawned']
    /\ UNCHANGED <<job, lock, up, restarts, kills, told>>

\* Save the request's own copy of the job, now with the pid.
SpawnSave(r) ==
    /\ req[r].pc = "save"
    /\ job' = req[r].copy
    /\ lock' = Nil
    /\ req' = [req EXCEPT ![r] = ReqIdle]
    /\ UNCHANGED <<worker, spawned, up, restarts, kills, told>>

\* Mutant of Resume: a running download is not refused.
ResumeAnyway(r) ==
    LET new == [job EXCEPT !.state = "downloading", !.cancel = FALSE]
    IN  /\ up
        /\ req[r].pc = "idle"
        /\ lock = Nil
        /\ job.group # Nil
        /\ spawned < MaxWorkers
        /\ lock' = r
        /\ job' = new
        /\ req' = [req EXCEPT ![r] = [ReqIdle EXCEPT !.pc = "spawn", !.copy = new]]
        /\ UNCHANGED <<worker, spawned, up, restarts, kills, told>>

Resume(r) ==
    LET new == [job EXCEPT !.state = "downloading", !.cancel = FALSE]
    IN  /\ up
        /\ req[r].pc = "idle"
        /\ lock = Nil
        /\ View(job) \in {"interrupted", "error", "cancelled"}
        /\ job.group # Nil
        /\ spawned < MaxWorkers
        /\ lock' = r
        /\ job' = new
        /\ req' = [req EXCEPT ![r] = [ReqIdle EXCEPT !.pc = "spawn", !.copy = new]]
        /\ UNCHANGED <<worker, spawned, up, restarts, kills, told>>

----------------------------------------------------------------------------
(* llama_model_pull_cancel: flag under the lock, then the signal *)

CancelLoad(r) ==
    /\ up
    /\ req[r].pc = "idle"
    /\ lock = Nil
    /\ View(job) = "downloading"
    /\ lock' = r
    /\ req' = [req EXCEPT ![r] = [ReqIdle EXCEPT !.pc = "cancel",
                                  !.copy = [job EXCEPT !.cancel = TRUE]]]
    /\ told' = told \cup {w \in Worker : w = job.pid /\ Alive(w)}
    /\ UNCHANGED <<job, worker, spawned, up, restarts, kills>>

CancelSave(r) ==
    /\ req[r].pc = "cancel"
    /\ job' = req[r].copy
    /\ lock' = Nil
    /\ req' = [req EXCEPT ![r].pc = "signal"]
    /\ UNCHANGED <<worker, spawned, up, restarts, kills, told>>

\* Mutant of CancelSignal: the flag in the file is the only request to stop.
CancelFlagOnly(r) ==
    /\ req[r].pc = "signal"
    /\ req' = [req EXCEPT ![r] = ReqIdle]
    /\ UNCHANGED <<job, lock, worker, spawned, up, restarts, kills, told>>

\* SIGTERM to pid 0 goes to the process group of the service itself.
CancelSignal(r) ==
    /\ req[r].pc = "signal"
    /\ IF req[r].copy.pid = 0
       THEN ServiceStops
       ELSE /\ worker' = [worker EXCEPT ![req[r].copy.pid] = Signalled(@)]
            /\ req' = [req EXCEPT ![r] = ReqIdle]
            /\ UNCHANGED <<lock, up>>
    /\ UNCHANGED <<job, spawned, restarts, kills, told>>

----------------------------------------------------------------------------
(* cli_llama_fetch, the worker *)

WStart(w) ==
    /\ worker[w].pc = "start"
    /\ worker' = [worker EXCEPT ![w] =
         IF job.state = "downloading"
         THEN [@ EXCEPT !.pc = "init", !.group = job.group, !.copy = job]
         ELSE Dead]
    /\ UNCHANGED <<job, lock, req, spawned, up, restarts, kills, told>>

WInit(w) ==
    /\ worker[w].pc = "init"
    /\ job' = [worker[w].copy EXCEPT !.pid = w]
    /\ worker' = [worker EXCEPT ![w].pc = "run", ![w].copy = Nil]
    /\ UNCHANGED <<lock, req, spawned, up, restarts, kills, told>>

\* The cancel flag in the file, in case the signal was lost.
WPoll(w) ==
    /\ worker[w].pc = "run"
    /\ job.cancel
    /\ ~worker[w].stop
    /\ worker' = [worker EXCEPT ![w].stop = TRUE]
    /\ UNCHANGED <<job, lock, req, spawned, up, restarts, kills, told>>

\* flush: a job of another group supersedes this worker.
WFlushLoad(w) ==
    /\ worker[w].pc = "run"
    /\ ~worker[w].stop
    /\ worker' = [worker EXCEPT ![w] =
         IF job.group = @.group THEN [@ EXCEPT !.pc = "flush", !.copy = job]
         ELSE [@ EXCEPT !.stop = TRUE]]
    /\ UNCHANGED <<job, lock, req, spawned, up, restarts, kills, told>>

WFlushSave(w) ==
    /\ worker[w].pc = "flush"
    /\ job' = [worker[w].copy EXCEPT !.pid = w]
    /\ worker' = [worker EXCEPT ![w].pc = "run", ![w].copy = Nil]
    /\ UNCHANGED <<lock, req, spawned, up, restarts, kills, told>>

\* The transfer ends: stopped, complete, or with an exception. The job is read
\* once more, and left alone when it is another group's.
WEnds(w, outcome) ==
    /\ worker[w].pc = "run"
    /\ worker' = [worker EXCEPT ![w] =
         IF job.group = @.group
         THEN [@ EXCEPT !.pc = "end", !.copy = job, !.outcome = outcome]
         ELSE Dead]
    /\ UNCHANGED <<job, lock, req, spawned, up, restarts, kills, told>>

WStops(w) == worker[w].stop /\ WEnds(w, "cancelled")
WFinishes(w) == \/ ~worker[w].stop /\ WEnds(w, "done")
                \/ WEnds(w, "error")

WEndSave(w) ==
    /\ worker[w].pc = "end"
    /\ job' = [worker[w].copy EXCEPT !.state = worker[w].outcome,
                 !.cancel = @ /\ worker[w].outcome # "cancelled"]
    /\ worker' = [worker EXCEPT ![w] = Dead]
    /\ UNCHANGED <<lock, req, spawned, up, restarts, kills, told>>

----------------------------------------------------------------------------
(* The environment *)

\* A worker is killed (out of memory) and leaves the job as it is.
WKilled(w) ==
    /\ kills < MaxKills
    /\ Alive(w)
    /\ kills' = kills + 1
    /\ worker' = [worker EXCEPT ![w] = Dead]
    /\ UNCHANGED <<job, lock, req, spawned, up, restarts, told>>

\* systemctl restart, a deploy, or a crash of the service.
Stop ==
    /\ up
    /\ restarts < MaxRestarts
    /\ restarts' = restarts + 1
    /\ ServiceStops
    /\ UNCHANGED <<job, spawned, kills, told>>

\* systemd starts the unit when its old processes are gone.
Boot ==
    /\ ~up
    /\ \A w \in Worker : ~Alive(w)
    /\ up' = TRUE
    /\ UNCHANGED <<job, lock, req, worker, spawned, restarts, kills, told>>

----------------------------------------------------------------------------
Request(r) == PullSave(r) \/ Spawn(r) \/ SpawnSave(r) \/ CancelSave(r) \/ CancelSignal(r)
WorkerStep(w) == WStart(w) \/ WInit(w) \/ WFlushSave(w) \/ WStops(w) \/ WEndSave(w)

Next ==
    \/ \E r \in Requests :
         \/ \E g \in Groups : PullCheck(r, g)
         \/ PullRefused(r) \/ Resume(r) \/ CancelLoad(r) \/ Request(r)
    \/ \E w \in Worker : \/ WorkerStep(w) \/ WPoll(w) \/ WFlushLoad(w)
                         \/ WFinishes(w) \/ WKilled(w)
    \/ Stop
    \/ Boot

Spec == Init /\ [][Next]_vars

\* Threads and processes run on, and a worker looks at its stop flag at every
\* chunk; that a transfer completes is not assumed, nor that users act.
Fairness ==
    /\ \A r \in Requests : WF_vars(Request(r))
    /\ \A w \in Worker : WF_vars(WorkerStep(w)) /\ WF_vars(WPoll(w))

FairSpec == Spec /\ Fairness

----------------------------------------------------------------------------
(* Properties *)

\* Type invariant of every variable.
TypeOK ==
    /\ job \in Job
    /\ lock \in Requests \cup {Nil}
    /\ req \in [Requests -> ReqType]
    /\ worker \in [Worker -> WorkerType]
    /\ spawned \in Pid
    /\ up \in BOOLEAN
    /\ restarts \in 0..MaxRestarts
    /\ kills \in 0..MaxKills
    /\ told \subseteq Worker

\* At most one worker transfers at any time: a second pull, a resume after a
\* crash, and a cancel in between never start another beside it (the 409 of
\* llama_model_pull).
OneWorker == \A v, w \in Worker : Alive(v) /\ Alive(w) => v = w

\* A job that reads as downloading has a worker, or a request about to start one
\* (the docstring of _job_view), whatever workers were killed and restarts came
\* between. The one exception is a service that stopped between the save and the
\* spawn: it leaves pid 0, which always reads as alive.
ViewHonest ==
    View(job) = "downloading" =>
        \/ lock # Nil
        \/ \E w \in Worker : Alive(w)
        \/ restarts > 0 /\ job.pid = 0

----------------------------------------------------------------------------
(* What makes OneWorker and ViewHonest inductive *)

InLock == {"spawn", "save", "cancel"}

\* The fields that requests and workers hold where they need them.
Shape ==
    /\ \A r \in Requests : /\ req[r].pc \in InLock \cup {"signal"} => req[r].copy \in Job
                           /\ req[r].pc = "spawn" => spawned < MaxWorkers
    /\ \A w \in Worker : worker[w].pc \in {"init", "flush", "end"} => worker[w].copy \in Job

\* The lock is held by the one request that is between its load and its save.
LockInv ==
    /\ lock # Nil => req[lock].pc \in InLock
    /\ \A r \in Requests : req[r].pc \in InLock => lock = r

\* Pid 0 stays on file, or in a request's copy, only when the service stopped
\* between the save and the spawn.
PidsKnown ==
    /\ lock = Nil /\ job.state = "downloading" /\ job.pid = 0 => restarts > 0
    /\ \A r \in Requests : req[r].pc \in {"cancel", "signal"} /\ req[r].copy.pid = 0 => restarts > 0
    /\ \A r \in Requests : req[r].pc = "save" => req[r].copy.pid # 0
    /\ \A w \in Worker : worker[w].pc = "end" => worker[w].outcome # "downloading"

\* While a worker lives the job says so and names it, as do the copies that will be
\* saved over it, and no request is on its way to spawn. (One request at a time.)
SoleWorker ==
    /\ \A w \in Worker : Alive(w) =>
         /\ w = spawned
         /\ job.state = "downloading"
         /\ \/ job.pid = w
            \/ worker[w].pc \in {"start", "init"} /\ \E r \in Requests : req[r].pc = "save"
         /\ worker[w].pc \in {"init", "flush"} => worker[w].copy.state = "downloading"
         /\ \A r \in Requests :
              /\ req[r].pc \notin {"checked", "spawn"}
              /\ req[r].pc \in InLock => req[r].copy.state = "downloading" /\ req[r].copy.pid = w
    /\ \A r \in Requests : req[r].pc = "spawn" =>
         job.state = "downloading" /\ req[r].copy.state = "downloading"

----------------------------------------------------------------------------
\* A worker that a cancel found running stops, even though its own progress
\* writes may overwrite the flag that the cancel put in the file.
Cancelled(w) == w \in told
CancelStops == \A w \in Worker : Cancelled(w) ~> ~Alive(w)

=============================================================================
