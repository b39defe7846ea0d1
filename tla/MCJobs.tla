------------------------------ MODULE MCJobs -------------------------------
(***************************************************************************)
(* Small instances for TLC of the jobs that run beside the requests that   *)
(* start them, with the fairness of their threads and processes: the       *)
(* system updates and the model download. They share no state; `which`     *)
(* names the one a behaviour is of.                                        *)
(***************************************************************************)
EXTENDS Naturals, FiniteSets

CONSTANTS
    Nil,
    Requests,     \* request threads that ask for updates
    Checks,       \* background check threads
    CheckFails,   \* whether a check may fail
    MaxApplies,   \* bound: successful applies
    Pullers,      \* request threads that ask for downloads
    Groups,       \* models that can be asked for
    MaxWorkers,   \* bound: download workers spawned
    MaxRestarts,  \* bound: stops of the service
    MaxKills      \* bound: download workers killed

ASSUME BoundsAssumption ==
    {MaxApplies, MaxWorkers, MaxRestarts, MaxKills} \subseteq Nat
ASSUME NilAssumption == Nil \notin Pullers

VARIABLES
    which,  \* the component of this behaviour
    \* its variables, in the order it declares them
    s1, s2, s3, s4, s5, s6, s7, s8, s9

vars == <<which, s1, s2, s3, s4, s5, s6, s7, s8, s9>>

Idle == "-"

Upd == INSTANCE UpdatesJob WITH Failed <- Nil, world <- s1, cache <- s2,
    checking <- s3, running <- s4, req <- s5, check <- s6, apply <- s7

Pull == INSTANCE ModelJob WITH Requests <- Pullers, job <- s1, lock <- s2,
    req <- s3, worker <- s4, spawned <- s5, up <- s6, restarts <- s7,
    kills <- s8, told <- s9

Init ==
    \/ which = "Upd" /\ Upd!Init /\ s8 = Idle /\ s9 = Idle
    \/ which = "Pull" /\ Pull!Init

Next ==
    \/ /\ which = "Upd" /\ Upd!Next
       /\ UNCHANGED <<which, s8, s9>>
    \/ /\ which = "Pull" /\ Pull!Next
       /\ UNCHANGED <<which>>

Spec == Init /\ [][Next]_vars

\* The fairness of the two components (UpdatesJob!Fairness, ModelJob!Fairness).
Fairness ==
    /\ \A c \in Checks : WF_vars(which = "Upd" /\ Upd!CheckStep(c) /\ UNCHANGED <<which, s8, s9>>)
    /\ WF_vars(which = "Upd" /\ Upd!ApplyStep /\ UNCHANGED <<which, s8, s9>>)
    /\ \A r \in Pullers : WF_vars(which = "Pull" /\ Pull!Request(r) /\ UNCHANGED which)
    /\ \A w \in 1..MaxWorkers :
         /\ WF_vars(which = "Pull" /\ Pull!WorkerStep(w) /\ UNCHANGED which)
         /\ WF_vars(which = "Pull" /\ Pull!WPoll(w) /\ UNCHANGED which)

FairSpec == Spec /\ Fairness

----------------------------------------------------------------------------
(* Properties, each of the component that defines it *)

\* The flag `checking` is never left set with no check behind it (_refresh).
FlagHasOwner == which = "Upd" => Upd!FlagHasOwner

\* An apply is never started over a running one (api_updates_apply).
OneApply == [][which = "Upd" => Upd!HelperEnteredIdle]_vars

\* The page is not told forever that an apply is running (_apply_thread).
ApplyEnds == (which = "Upd" /\ Upd!IsRunning) ~> (which = "Upd" /\ ~Upd!IsRunning)

\* At most one worker transfers at any time (llama_model_pull, llama_model_pull_resume).
OneWorker == which = "Pull" => Pull!OneWorker

\* A job that reads as downloading has a worker, or a request about to start one,
\* whatever workers were killed and restarts came between (_job_view).
ViewHonest == which = "Pull" => Pull!ViewHonest

\* A worker that a cancel found running stops, even though its own progress
\* writes may overwrite the flag in the file (llama_model_pull_cancel).
CancelStops ==
    \A w \in 1..MaxWorkers : (which = "Pull" /\ Pull!Cancelled(w)) ~> (which = "Pull" /\ ~Pull!Alive(w))
===========================================================================
