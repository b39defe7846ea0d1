------------------------------ MODULE Compose ------------------------------
(***************************************************************************)
(* A compose stack the dashboard manages (nexusdash/modules/               *)
(* docker_compose.py): a directory with one file, and the containers that  *)
(* `docker compose` made of it. A new text is written first and judged by  *)
(* `docker compose config` afterwards; what a stack consists of is asked   *)
(* of the daemon, and a daemon that does not answer counts as one without  *)
(* containers. Nothing is locked.                                          *)
(***************************************************************************)
EXTENDS Naturals

CONSTANTS
    Threads,      \* request threads
    Absent,       \* no directory
    ListFails,    \* may the daemon fail to list its containers
    MaxRequests,  \* bound: requests
    MaxCrashes    \* bound: restarts of the dashboard

VARIABLES
    file,      \* the compose file of the stack
    up,        \* its containers
    th, requests, crashes,
    disturbed, \* history: two requests overlapped, or the dashboard restarted in one
    unheard    \* history: a deletion was told of no containers by a daemon that failed

vars == <<file, up, th, requests, crashes, disturbed, unheard>>

Text == {"one", "two", "bad"}
Idle == [pc |-> "idle"]

Init ==
    /\ file \in {Absent, "one"}
    /\ up \in (IF file = Absent THEN {"none"} ELSE {"none", "running"})
    /\ th = [t \in Threads |-> Idle]
    /\ requests = 0 /\ crashes = 0
    /\ disturbed = FALSE /\ unheard = FALSE

Goto(t, state) == th' = [th EXCEPT ![t] = state]
Begin(t, next) ==
    /\ th[t] = Idle /\ requests < MaxRequests
    /\ requests' = requests + 1
    /\ Goto(t, next)
    /\ disturbed' = (disturbed \/ \E o \in Threads \ {t} : th[o] # Idle)
    /\ UNCHANGED <<up, crashes>>

\* _discover_stacks: from the labels of the containers and the directories.
Listed == {up} \cup (IF ListFails THEN {"none"} ELSE {})

----------------------------------------------------------------------------
CreateStack(t) == \E text \in Text :
    /\ file = Absent
    /\ file' = text
    /\ Begin(t, [pc |-> "validate", prev |-> Absent])
    /\ UNCHANGED unheard

SaveFile(t) == \E text \in Text :
    /\ file # Absent
    /\ Begin(t, [pc |-> "write", text |-> text, prev |-> file])
    /\ UNCHANGED <<file, unheard>>

\* The directory may be gone by now: the request ends with an error.
Write(t) ==
    /\ th[t].pc = "write"
    /\ IF file = Absent THEN Goto(t, Idle) /\ UNCHANGED file
       ELSE file' = th[t].text /\ Goto(t, [pc |-> "validate", prev |-> th[t].prev])
    /\ UNCHANGED <<up, requests, crashes, disturbed, unheard>>

\* A text that compose rejects gives way to the previous one, or the directory goes.
Validate(t) ==
    /\ th[t].pc = "validate"
    /\ file' = IF file # "bad" \/ (file = Absent /\ th[t].prev # Absent) THEN file ELSE th[t].prev
    /\ Goto(t, Idle)
    /\ UNCHANGED <<up, requests, crashes, disturbed, unheard>>

\* Mutant of Deletable: stopped containers do not count.
DeletableStopped(seen) == seen # "running"

Deletable(seen) == seen = "none"

DeleteStack(t) ==
    /\ file # Absent
    /\ \E seen \in Listed :
          /\ Begin(t, IF Deletable(seen) THEN [pc |-> "remove"] ELSE Idle)
          /\ unheard' = (unheard \/ seen # up)
    /\ UNCHANGED file

Remove(t) ==
    /\ th[t].pc = "remove"
    /\ file' = Absent
    /\ Goto(t, Idle)
    /\ UNCHANGED <<up, requests, crashes, disturbed, unheard>>

Action(t) == \E a \in {"up", "down", "stop", "start"} :
    /\ file # Absent \/ up # "none"
    /\ Begin(t, [pc |-> "act", action |-> a])
    /\ UNCHANGED <<file, unheard>>

\* compose needs a directory and a file it accepts; down never takes volumes along.
Act(t) ==
    /\ th[t].pc = "act"
    /\ up' \in {up} \cup
         (IF file \in {Absent, "bad"} THEN {}
          ELSE CASE th[t].action = "up"    -> {"running"}
                 [] th[t].action = "down"  -> {"none"}
                 [] th[t].action = "stop"  -> {IF up = "none" THEN up ELSE "stopped"}
                 [] th[t].action = "start" -> {IF up = "none" THEN up ELSE "running"})
    /\ Goto(t, Idle)
    /\ UNCHANGED <<file, requests, crashes, disturbed, unheard>>

Crash ==
    /\ crashes < MaxCrashes /\ \E t \in Threads : th[t] # Idle
    /\ crashes' = crashes + 1
    /\ th' = [t \in Threads |-> Idle]
    /\ disturbed' = TRUE
    /\ UNCHANGED <<file, up, requests, unheard>>

Next ==
    \/ \E t \in Threads :
         \/ CreateStack(t) \/ SaveFile(t) \/ Write(t) \/ Validate(t)
         \/ DeleteStack(t) \/ Remove(t) \/ Action(t) \/ Act(t)
    \/ Crash

Spec == Init /\ [][Next]_vars

----------------------------------------------------------------------------
(* Properties *)

\* "Stack still has containers - bring it down first": a stack with containers
\* keeps the file they are managed by, when each request is answered before the
\* next (compose_delete).
ContainersHaveFile == (up # "none" /\ ~disturbed) => file # Absent

\* The same when no deletion was told of no containers by a daemon that had failed.
ContainersManaged == ~unheard => ContainersHaveFile

----------------------------------------------------------------------------
(* What makes ContainersManaged inductive *)

Request ==
    [pc : {"idle", "remove"}]
    \cup [pc : {"write"}, text : Text, prev : Text]
    \cup [pc : {"validate"}, prev : Text \cup {Absent}]
    \cup [pc : {"act"}, action : {"up", "down", "stop", "start"}]

\* Type invariant of every variable.
TypeOK ==
    /\ file \in Text \cup {Absent}
    /\ up \in {"none", "stopped", "running"}
    /\ th \in [Threads -> Request]
    /\ requests \in Nat /\ crashes \in Nat
    /\ disturbed \in BOOLEAN /\ unheard \in BOOLEAN

\* As long as nothing is disturbed one request runs at a time,
OneAtATime ==
    ~disturbed => \A t, o \in Threads : th[t] # Idle /\ th[o] # Idle => t = o

\* and the step it is at tells what became of the stack since it began: a removal was
\* granted to a stack without containers, and a first text that may yet be rejected
\* belongs to one, as long as the daemon was heard.
Granted ==
    ~disturbed /\ ~unheard => \A t \in Threads :
        /\ th[t].pc = "remove" => up = "none"
        /\ th[t].pc \in {"write", "validate"} => file # Absent
        /\ th[t].pc = "validate" /\ th[t].prev = Absent => up = "none"

IInv == TypeOK /\ OneAtATime /\ Granted /\ ContainersManaged
=============================================================================
