------------------------------- MODULE Locate -------------------------------
(***************************************************************************)
(* Finding a drive by its light (nexusdash/modules/disks.py, disk_locate   *)
(* and _locate_worker): the threads of the server start, restart and stop  *)
(* one worker thread per disk, which turns the enclosure LED on, blinks    *)
(* the activity light until its time is over or it is told to stop, and    *)
(* turns the LED off. One disk: the table of jobs has an entry for each.   *)
(***************************************************************************)
EXTENDS Naturals

CONSTANTS
    Threads,      \* request threads of the server
    MaxWorkers,   \* bound: jobs started
    MaxRestarts   \* bound: restarts of the service

VARIABLES
    job,       \* _locate_jobs: the worker registered for the disk, 0 for none
    worker,    \* the worker threads: where they are, and their stop event
    request,   \* the request of each thread
    led,       \* is the LED on
    started,   \* workers started so far
    restarts,
    orphaned   \* history: a restart left the LED on and nothing was done since

vars == <<job, worker, request, led, started, restarts, orphaned>>

Worker == 1..MaxWorkers
Idle == [pc |-> "idle"]
Unborn == [pc |-> "gone", stop |-> FALSE]

Init ==
    /\ job = 0 /\ led = FALSE /\ started = 0 /\ restarts = 0 /\ orphaned = FALSE
    /\ worker = [w \in Worker |-> Unborn]
    /\ request = [t \in Threads |-> Idle]

----------------------------------------------------------------------------
(* disk_locate *)

\* _locate_stop: the job is taken out of the table under the lock.
Pop(t) ==
    /\ request[t].pc = "idle"
    /\ \E then \in {"off", "register"} :
          request' = [request EXCEPT ![t] = [pc |-> "popped", old |-> job, then |-> then]]
    /\ job' = 0
    /\ UNCHANGED <<worker, led, started, restarts, orphaned>>

\* and its event set after the lock is given back.
SetEvent(t) ==
    /\ request[t].pc = "popped"
    /\ worker' = [w \in Worker |-> IF w = request[t].old
                                   THEN [worker[w] EXCEPT !.stop = TRUE] ELSE worker[w]]
    /\ request' = [request EXCEPT ![t] = [pc |-> request[t].then]]
    /\ UNCHANGED <<job, led, started, restarts, orphaned>>

\* {"stop": true} also turns the LED off itself.
TurnOff(t) ==
    /\ request[t].pc = "off"
    /\ led' = FALSE /\ orphaned' = FALSE
    /\ request' = [request EXCEPT ![t] = Idle]
    /\ UNCHANGED <<job, worker, started, restarts>>

\* The new job overwrites whatever another thread has registered since the pop.
Register(t) ==
    /\ request[t].pc = "register"
    /\ started < MaxWorkers /\ started' = started + 1
    /\ job' = started'
    /\ request' = [request EXCEPT ![t] = [pc |-> "spawn", worker |-> started']]
    /\ UNCHANGED <<worker, led, restarts, orphaned>>

Spawn(t) ==
    /\ request[t].pc = "spawn"
    /\ worker' = [worker EXCEPT ![request[t].worker].pc = "on"]
    /\ request' = [request EXCEPT ![t] = Idle]
    /\ UNCHANGED <<job, led, started, restarts, orphaned>>

----------------------------------------------------------------------------
(* _locate_worker *)

LightOn(w) ==
    /\ worker[w].pc = "on"
    /\ led' = TRUE
    /\ worker' = [worker EXCEPT ![w].pc = "blink"]
    /\ UNCHANGED <<job, request, started, restarts, orphaned>>

\* Mutant of LightOff: who stops the worker turns the LED off.
LightOffUnlessStopped(w) ==
    /\ worker[w].pc = "blink"
    /\ led' = (led /\ worker[w].stop) /\ orphaned' = FALSE
    /\ worker' = [worker EXCEPT ![w].pc = "leave"]
    /\ UNCHANGED <<job, request, started, restarts>>

\* The time is over, or the event is set.
LightOff(w) ==
    /\ worker[w].pc = "blink"
    /\ led' = FALSE /\ orphaned' = FALSE
    /\ worker' = [worker EXCEPT ![w].pc = "leave"]
    /\ UNCHANGED <<job, request, started, restarts>>

\* A worker takes only its own job out of the table.
Leave(w) ==
    /\ worker[w].pc = "leave"
    /\ job' = IF job = w THEN 0 ELSE job
    /\ worker' = [worker EXCEPT ![w] = Unborn]
    /\ UNCHANGED <<request, led, started, restarts, orphaned>>

\* Daemon threads and the table go with the process; the LED stays as it is.
Restart ==
    /\ restarts < MaxRestarts /\ restarts' = restarts + 1
    /\ job' = 0
    /\ worker' = [w \in Worker |-> Unborn]
    /\ request' = [t \in Threads |-> Idle]
    /\ orphaned' = led
    /\ UNCHANGED <<led, started>>

----------------------------------------------------------------------------
Next ==
    \/ \E t \in Threads : Pop(t) \/ SetEvent(t) \/ TurnOff(t) \/ Register(t) \/ Spawn(t)
    \/ \E w \in Worker : LightOn(w) \/ LightOff(w) \/ Leave(w)
    \/ Restart

Spec == Init /\ [][Next]_vars

----------------------------------------------------------------------------
(* Properties *)

Alive(w) == worker[w].pc # "gone"
AboutToSpawn(w) == \E t \in Threads : request[t].pc = "spawn" /\ request[t].worker = w

\* When every worker is gone the LED is off, and the table names no worker that is
\* gone, however starts and stops of several threads overlapped - also when one
\* overwrote the job of another, which nobody can stop any more. A restart of the
\* service while the LED is on leaves it on until the next locate ends or stops.
DarkAtRest ==
    /\ led => orphaned \/ \E w \in Worker : Alive(w)
    /\ job # 0 => Alive(job) \/ AboutToSpawn(job)

----------------------------------------------------------------------------
(* What makes DarkAtRest inductive *)

WorkerState == [pc : {"gone", "on", "blink", "leave"}, stop : BOOLEAN]
RequestState ==
    [pc : {"idle", "off", "register"}]
    \cup [pc : {"popped"}, old : 0..MaxWorkers, then : {"off", "register"}]
    \cup [pc : {"spawn"}, worker : Worker]

\* Type invariant of every variable.
TypeOK ==
    /\ job \in 0..MaxWorkers
    /\ worker \in [Worker -> WorkerState]
    /\ request \in [Threads -> RequestState]
    /\ led \in BOOLEAN /\ orphaned \in BOOLEAN
    /\ started \in 0..MaxWorkers
    /\ restarts \in 0..MaxRestarts

\* A worker about to be spawned is a new one, and no other thread's.
SpawnsAreFresh ==
    \A t \in Threads : request[t].pc = "spawn" =>
        /\ request[t].worker <= started
        /\ worker[request[t].worker].pc = "gone"
        /\ \A u \in Threads \ {t} :
              request[u].pc = "spawn" => request[u].worker # request[t].worker

\* A number that no job has had yet has no worker.
UnusedAreGone == \A w \in Worker : w > started => worker[w].pc = "gone"

\* A LED that is on has a worker that will turn it off.
LitHasOwner == led => orphaned \/ \E w \in Worker : worker[w].pc = "blink"

JobHasOwner == job # 0 => Alive(job) \/ AboutToSpawn(job)

IInv == TypeOK /\ SpawnsAreFresh /\ UnusedAreGone /\ LitHasOwner /\ JobHasOwner
=============================================================================
