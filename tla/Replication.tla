---------------------------- MODULE Replication ----------------------------
(***************************************************************************)
(* Scheduled snapshots of a ZFS dataset (nexusdash/modules/schedules.py)   *)
(* and their replication to another host (nexusdash/modules/               *)
(* replication.py). Each has a JSON file of what to do, a systemd timer    *)
(* that runs a tick, and a "run now" button that does the same in the web  *)
(* process. Ticks and requests load the whole file, work for as long as    *)
(* zfs and ssh take, and save the whole file: no lock spans the two.       *)
(***************************************************************************)
EXTENDS Naturals, FiniteSets, FiniteSetsExt

CONSTANTS
    Absent,        \* no file entry, no remote dataset
    Failed,        \* a listing of the other host that did not come
    Keeps,         \* retention counts an admin may ask for
    Interval,      \* time between two scheduled snapshots
    MaxTime,       \* bound: clock
    MaxSnaps,      \* bound: snapshots taken
    MaxRequests,   \* bound: requests and ticks
    MaxCrashes     \* bound: processes that die half-way

VARIABLES
    snaps,      \* the dataset's snapshots: [id, auto], numbered as they were taken
    remote,     \* the replica's snapshots (ids), or Absent
    sched,      \* schedules.json: the dataset's schedule
    job,        \* replication.json: the dataset's job
    timer,      \* the two systemd timers
    pr,         \* the processes: two ticks and a request of the dashboard
    now, taken, requests, crashes,
    limit,      \* history: the keep count of the latest pruning
    debt,       \* history: a snapshot came, or failed to go, after its list
    overlapped  \* history: two replications were in flight at once

bounds == <<now, taken, requests, crashes>>
history == <<limit, debt, overlapped>>
vars == <<snaps, remote, sched, job, timer, pr, bounds, history>>

Procs == {"snaptick", "repltick", "web"}
Idle == [pc |-> "idle"]
Never == 0
Schedule == [on : BOOLEAN, keep : Keeps, last : Nat]
Job == [on : BOOLEAN, recursive : BOOLEAN, status : {"never", "ok", "error"}]

LocalIds == {s.id : s \in snaps}
Autos == {s.id : s \in {x \in snaps : x.auto}}

Init ==
    /\ snaps \in {{}, {[id |-> 1, auto |-> FALSE]}}
    /\ remote = Absent
    /\ sched \in {Absent} \cup [on : {TRUE}, keep : Keeps \ {0}, last : {Never}]
    /\ job \in {Absent} \cup [on : {TRUE}, recursive : BOOLEAN, status : {"never"}]
    /\ timer = [snap |-> sched # Absent, repl |-> job # Absent]
    /\ pr = [p \in Procs |-> Idle]
    /\ now = 1 /\ taken = Cardinality(snaps) /\ requests = 0 /\ crashes = 0
    /\ limit = 0 /\ debt = TRUE /\ overlapped = FALSE

Goto(p, state) == pr' = [pr EXCEPT ![p] = state]
Begin(p, state) == /\ pr[p].pc = "idle" /\ requests < MaxRequests
                   /\ requests' = requests + 1
                   /\ Goto(p, state)

----------------------------------------------------------------------------
(* The schedule: its requests and its runs *)

SchedActive == sched # Absent /\ sched.on /\ sched.keep > 0

\* snap_schedule_save keeps the run history of the entry it replaces.
SchedSave ==
    /\ \E on \in BOOLEAN, keep \in Keeps :
          Begin("web", [pc |-> "write", sched |->
              [on |-> on, keep |-> keep,
               last |-> IF sched = Absent THEN Never ELSE sched.last]])
    /\ UNCHANGED <<snaps, remote, sched, job, timer, now, taken, crashes, history>>

SchedDelete ==
    /\ Begin("web", [pc |-> "write", sched |-> Absent])
    /\ UNCHANGED <<snaps, remote, sched, job, timer, now, taken, crashes, history>>

SchedWrite ==
    /\ pr["web"].pc = "write"
    /\ sched' = pr["web"].sched
    /\ Goto("web", [pc |-> "sync", which |-> "snap"])
    /\ UNCHANGED <<snaps, remote, job, timer, bounds, history>>

\* A tick runs what is due; the button runs the schedule whatever its state.
Due(s) == s.last = Never \/ now - s.last >= Interval

AutosnapTick ==
    /\ SchedActive /\ Due(sched)
    /\ Begin("snaptick", [pc |-> "take", sched |-> [sched EXCEPT !.last = now]])
    /\ UNCHANGED <<snaps, remote, sched, job, timer, now, taken, crashes, history>>

SchedRun ==
    /\ sched # Absent /\ sched.keep > 0
    /\ Begin("web", [pc |-> "take", sched |-> [sched EXCEPT !.last = now]])
    /\ UNCHANGED <<snaps, remote, sched, job, timer, now, taken, crashes, history>>

\* autosnap_one: a snapshot that fails prunes nothing; the run is recorded anyway.
TakeSnapshot(p) ==
    /\ pr[p].pc = "take"
    /\ \/ /\ taken < MaxSnaps
          /\ taken' = taken + 1
          /\ snaps' = snaps \cup {[id |-> taken + 1, auto |-> TRUE]}
          /\ debt' = TRUE
          /\ Goto(p, [pr[p] EXCEPT !.pc = "prune"])
       \/ Goto(p, [pr[p] EXCEPT !.pc = "save"]) /\ UNCHANGED <<snaps, taken, debt>>
    /\ UNCHANGED <<remote, sched, job, timer, now, requests, crashes, limit, overlapped>>

Newer(i) == {j \in Autos : j > i}

\* Mutant of Surplus: one too many is kept.
SurplusOffByOne(keep) == IF keep > 0 THEN {i \in Autos : Cardinality(Newer(i)) > keep} ELSE {}

\* All but the newest, of the snapshots this feature made.
Surplus(keep) == IF keep > 0 THEN {i \in Autos : Cardinality(Newer(i)) >= keep} ELSE {}

\* The result of zfs list is not looked at: one that failed lists nothing.
ListAutosnaps(p) ==
    /\ pr[p].pc = "prune"
    /\ \E listed \in BOOLEAN :
          /\ Goto(p, [pc |-> "destroy", sched |-> pr[p].sched,
                      victims |-> IF listed THEN Surplus(pr[p].sched.keep) ELSE {}])
          /\ limit' = IF listed THEN pr[p].sched.keep ELSE limit
          /\ debt' = ~listed
    /\ UNCHANGED <<snaps, remote, sched, job, timer, bounds, overlapped>>

\* zfs destroy, oldest first; one that fails is passed over.
DestroySnapshot(p) ==
    /\ pr[p].pc = "destroy" /\ pr[p].victims # {}
    /\ LET v == Min(pr[p].victims) IN
       /\ Goto(p, [pr[p] EXCEPT !.victims = @ \ {v}])
       /\ \/ snaps' = {s \in snaps : s.id # v} /\ UNCHANGED debt
          \/ UNCHANGED snaps /\ debt' = TRUE
    /\ UNCHANGED <<remote, sched, job, timer, bounds, limit, overlapped>>

\* The file as it was loaded, with the time of this run.
SaveSchedule(p) ==
    /\ pr[p].pc = "save" \/ (pr[p].pc = "destroy" /\ pr[p].victims = {})
    /\ sched' = pr[p].sched
    /\ Goto(p, Idle)
    /\ UNCHANGED <<snaps, remote, job, timer, bounds, history>>

----------------------------------------------------------------------------
(* The replication job *)

JobActive == job # Absent /\ job.on

JobSave ==
    /\ \E on \in BOOLEAN, rec \in BOOLEAN :
          Begin("web", [pc |-> "jobwrite", job |->
              [on |-> on, recursive |-> rec,
               status |-> IF job = Absent THEN "never" ELSE job.status]])
    /\ UNCHANGED <<snaps, remote, sched, job, timer, now, taken, crashes, history>>

JobDelete ==
    /\ Begin("web", [pc |-> "jobwrite", job |-> Absent])
    /\ UNCHANGED <<snaps, remote, sched, job, timer, now, taken, crashes, history>>

JobWrite ==
    /\ pr["web"].pc = "jobwrite"
    /\ job' = pr["web"].job
    /\ Goto("web", [pc |-> "sync", which |-> "repl"])
    /\ UNCHANGED <<snaps, remote, sched, timer, bounds, history>>

SyncTimer ==
    /\ pr["web"].pc = "sync"
    /\ timer' = [timer EXCEPT ![pr["web"].which] =
                    IF pr["web"].which = "snap" THEN SchedActive ELSE JobActive]
    /\ Goto("web", Idle)
    /\ UNCHANGED <<snaps, remote, sched, job, bounds, history>>

Replicating(p) == pr[p].pc \in {"listed", "answered", "jobsave"}

\* replicate_job lists the source first; without snapshots the run is an error.
Replicate(p) ==
    /\ p \in {"repltick", "web"}
    /\ job # Absent /\ (p = "web" \/ job.on)
    /\ Begin(p, IF snaps = {} THEN [pc |-> "jobsave", job |-> [job EXCEPT !.status = "error"]]
                ELSE [pc |-> "listed", job |-> job, local |-> LocalIds])
    /\ overlapped' = (overlapped \/ \E o \in Procs \ {p} : Replicating(o))
    /\ UNCHANGED <<snaps, remote, sched, job, timer, now, taken, crashes, limit, debt>>

\* What the other host says: the list, that there is no such dataset, or a failure.
\* Mutant of Answer: a listing that failed is taken for a dataset that is not there.
AnswerGuess(listing) == IF listing = Failed THEN Absent ELSE listing

Answer(listing) == listing

RemoteSnaps(p) ==
    /\ pr[p].pc = "listed"
    /\ \E listing \in {remote, Failed} :
          Goto(p, IF Answer(listing) = Failed
                  THEN [pc |-> "jobsave", job |-> [pr[p].job EXCEPT !.status = "error"]]
                  ELSE [pc |-> "answered", job |-> pr[p].job, local |-> pr[p].local,
                        remote |-> Answer(listing)])
    /\ UNCHANGED <<snaps, remote, sched, job, timer, bounds, history>>

Latest(p) == Max(pr[p].local)
Common(p) == pr[p].local \cap pr[p].remote
Base(p) == Max(Common(p))

\* What the receiver accepts: zfs recv -F of a full stream replaces what is there;
\* an increment goes on top of its base, which must be the replica's latest
\* snapshot, except that a recursive stream first drops what the source no longer
\* has. What a stream names must still be on the source.
Full(p) == pr[p].remote = Absent /\ Latest(p) \in LocalIds
Increment(p) ==
    /\ pr[p].remote # Absent /\ remote # Absent
    /\ Common(p) # {} /\ Base(p) # Latest(p)
    /\ {Base(p), Latest(p)} \subseteq LocalIds
    /\ Base(p) \in remote /\ (pr[p].job.recursive \/ Base(p) = Max(remote))

Kept(p) ==
    IF Full(p) THEN {}
    ELSE IF pr[p].job.recursive THEN {i \in remote \cap LocalIds : i <= Base(p)}
    ELSE remote

Sent(p) ==
    IF Full(p) /\ ~pr[p].job.recursive THEN {Latest(p)}
    ELSE {i \in LocalIds : i <= Latest(p) /\ (Full(p) \/ i > Base(p))}

\* A transfer that breaks keeps the snapshots that arrived whole, oldest first.
Transfer(p) ==
    /\ pr[p].pc = "answered"
    /\ LET done(s) == Goto(p, [pc |-> "jobsave", job |-> [pr[p].job EXCEPT !.status = s]])
           current == pr[p].remote # Absent /\ Common(p) # {} /\ Base(p) = Latest(p)
       IN \/ current /\ done("ok") /\ UNCHANGED remote
          \/ ~current /\ done("error") /\ UNCHANGED remote
          \/ /\ Full(p) \/ Increment(p)
             /\ \/ remote' = Kept(p) \cup Sent(p) /\ done("ok")
                \/ /\ \E n \in Sent(p) : remote' = Kept(p) \cup {i \in Sent(p) : i < n}
                   /\ remote' # {} /\ done("error")
    /\ UNCHANGED <<snaps, sched, job, timer, bounds, history>>

SaveJob(p) ==
    /\ pr[p].pc = "jobsave"
    /\ job' = pr[p].job
    /\ Goto(p, Idle)
    /\ UNCHANGED <<snaps, remote, sched, timer, bounds, history>>

----------------------------------------------------------------------------
(* The rest of the world *)

Clock ==
    /\ now < MaxTime
    /\ now' = now + 1
    /\ UNCHANGED <<snaps, remote, sched, job, timer, pr, taken, requests, crashes, history>>

\* The admin of the other host follows the advice of the error message.
RemoteDestroyed ==
    /\ remote # Absent
    /\ requests < MaxRequests /\ requests' = requests + 1
    /\ remote' = Absent
    /\ UNCHANGED <<snaps, sched, job, timer, pr, now, taken, crashes, history>>

Dies(p) ==
    /\ pr[p].pc # "idle" /\ crashes < MaxCrashes
    /\ crashes' = crashes + 1
    /\ Goto(p, Idle)
    /\ debt' = (debt \/ pr[p].pc = "destroy")
    /\ UNCHANGED <<snaps, remote, sched, job, timer, now, taken, requests, limit, overlapped>>

Next ==
    \/ SchedSave \/ SchedDelete \/ SchedWrite \/ AutosnapTick \/ SchedRun
    \/ JobSave \/ JobDelete \/ JobWrite \/ SyncTimer
    \/ \E p \in Procs :
          \/ TakeSnapshot(p) \/ ListAutosnaps(p) \/ DestroySnapshot(p) \/ SaveSchedule(p)
          \/ Replicate(p) \/ RemoteSnaps(p) \/ Transfer(p) \/ SaveJob(p) \/ Dies(p)
    \/ Clock \/ RemoteDestroyed

Spec == Init /\ [][Next]_vars

----------------------------------------------------------------------------
\* A pruning has a keep count, and a replication saw a snapshot of its source.
ProcType ==
    {Idle}
    \cup [pc : {"write"}, sched : Schedule \cup {Absent}]
    \cup [pc : {"jobwrite"}, job : Job \cup {Absent}]
    \cup [pc : {"sync"}, which : {"snap", "repl"}]
    \cup [pc : {"take", "prune", "save"}, sched : {s \in Schedule : s.keep > 0}]
    \cup [pc : {"jobsave"}, job : Job]
    \cup [pc : {"destroy"}, sched : Schedule, victims : SUBSET (1..taken)]
    \cup [pc : {"listed"}, job : Job, local : (SUBSET (1..taken)) \ {{}}]
    \cup [pc : {"answered"}, job : Job, local : (SUBSET (1..taken)) \ {{}},
          remote : {Absent} \cup SUBSET (1..taken)]

TypeOK ==
    /\ taken \in Nat /\ now \in Nat /\ limit \in {0} \cup Keeps
    /\ snaps \subseteq [id : 1..taken, auto : BOOLEAN]
    /\ remote = Absent \/ remote \subseteq 1..taken
    /\ sched = Absent \/ sched \in Schedule
    /\ job = Absent \/ job \in Job
    /\ timer \in [snap : BOOLEAN, repl : BOOLEAN]
    /\ pr \in [Procs -> ProcType]
    /\ {debt, overlapped} \subseteq BOOLEAN

\* When no pruning is under way, the automatic snapshots are within the keep
\* count of the latest pruning that saw its list, whatever ticks, "run now" and
\* dying processes do to each other (autosnap_prune). It is excused while a
\* snapshot came after that list, one of it would not go, or a later listing
\* failed: until a pruning sees its list again.
Retention ==
    (~debt /\ \A p \in Procs : pr[p].pc # "destroy") => Cardinality(Autos) <= limit

\* A replica that exists never loses a snapshot the source still has, whatever
\* the listing of the other host answered and however transfers break, as long
\* as replications of the job do not overlap (the docstring of _remote_snaps).
ReplicaGrows ==
    (remote # Absent /\ remote' # Absent /\ ~overlapped) =>
        remote \cap LocalIds \subseteq remote'

HistoryKept == [][ReplicaGrows]_vars

----------------------------------------------------------------------------
(* What makes them inductive *)

\* What no pruning under way is about to destroy is within the keep count.
Doomed == UNION {pr[p].victims : p \in {q \in Procs : pr[q].pc = "destroy"}}
Pruned == ~debt => Cardinality(Autos \ Doomed) <= limit

\* One process replicates, and what it knows of the two hosts is still so, but for
\* what the source took or destroyed since.
OneSender == \A p, q \in Procs : Replicating(p) /\ Replicating(q) => p = q
KnowsBoth ==
    \A p \in Procs :
        /\ pr[p].pc \in {"listed", "answered"} /\ remote # Absent =>
              remote \cap LocalIds \subseteq pr[p].local
        /\ pr[p].pc = "answered" => remote = Absent \/ remote = pr[p].remote

IInv == TypeOK /\ Pruned /\ (~overlapped => OneSender /\ KnowsBoth)
=============================================================================
