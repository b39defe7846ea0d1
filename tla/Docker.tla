------------------------------- MODULE Docker -------------------------------
(***************************************************************************)
(* The containers page (nexusdash/modules/docker.py) for one service: a    *)
(* container under a name, made of an image tag, with one anonymous volume.*)
(* Applying a pulled image replaces the container in up to nine calls to   *)
(* the daemon; any of them may fail, and other requests run in between.    *)
(* Image 1 is the one in service, 2 the newer one. A call that fails may   *)
(* have been carried out all the same (docker_request gave up on it).      *)
(***************************************************************************)
EXTENDS Naturals, FiniteSets

CONSTANTS
    Threads,      \* request threads
    Absent,       \* no container, no tag
    AutoRemove,   \* may containers be of the kind the daemon removes when they stop
    MaxIds,       \* bound: containers ever created
    MaxRequests,  \* bound: requests
    MaxFaults     \* bound: calls to the daemon that fail, replacements that exit

VARIABLES
    cts,       \* the daemon's containers, by id
    tag,       \* the image the service's tag names on this host
    registry,  \* the image it names at the registry
    th, made, requests, faults,
    want,      \* history: whether the admin's latest request left the service running
    data,      \* history: the volume of the service the admin created
    mixed      \* history: "none": no requests overlapped, and no call did what its
               \* answer denies; "blurred": replacements overlapped, or one did; "other"

vars == <<cts, tag, registry, th, made, requests, faults, want, data, mixed>>

Ids == 1..MaxIds
Image == {1, 2}
Container == [name : {"app", "parked"}, image : Image, up : BOOLEAN, rm : BOOLEAN, vol : Ids]
Idle == [pc |-> "idle"]

Here(c) == cts[c] # Absent
Named(n) == {c \in Ids : Here(c) /\ cts[c].name = n}
Serving == {c \in Named("app") : cts[c].up}

Init ==
    /\ \E up, rm \in BOOLEAN :
          /\ rm => AutoRemove /\ up
          /\ cts = [c \in Ids |-> IF c = 1 THEN [name |-> "app", image |-> 1, up |-> up,
                                                 rm |-> rm, vol |-> 1] ELSE Absent]
          /\ want = up
    /\ tag = 1 /\ registry = 1
    /\ th = [t \in Threads |-> Idle]
    /\ made = 1 /\ requests = 0 /\ faults = 0
    /\ data = 1 /\ mixed = "none"

Goto(t, state) == th' = [th EXCEPT ![t] = state]
Done(t) == Goto(t, Idle)
\* One more call fails.
Fault == faults < MaxFaults /\ faults' = faults + 1
\* The host is no longer what the request was told.
Blur == mixed' = IF mixed = "none" THEN "blurred" ELSE mixed

\* Two replacements by clone may overlap; any other overlap is noted.
Recreating(t) == th[t].pc \notin {"idle", "pull", "create", "startnew", "compose"}
Begin(t, next, kind) ==
    /\ th[t] = Idle /\ requests < MaxRequests
    /\ requests' = requests + 1
    /\ Goto(t, next)
    /\ LET others == {o \in Threads \ {t} : th[o] # Idle} IN
       mixed' = IF others = {} THEN mixed
                ELSE IF kind = "recreate" /\ mixed # "other" /\ \A o \in others : Recreating(o)
                THEN "blurred" ELSE "other"

----------------------------------------------------------------------------
(* Requests of one call *)

\* The daemon stops a container; one of the auto-remove kind is gone then.
Stopped(c) == [cts EXCEPT ![c] = IF @.rm THEN Absent ELSE [@ EXCEPT !.up = FALSE]]
Started(c) == [cts EXCEPT ![c].up = TRUE]

\* start, stop, kill and restart; a paused container counts as running.
Action(t) == \E c \in Ids :
    /\ Here(c)
    /\ Begin(t, Idle, "action")
    /\ \/ cts' = Started(c) /\ want' = (IF cts[c].name = "app" THEN TRUE ELSE want)
       \/ cts[c].up /\ cts' = Stopped(c) /\ want' = (IF cts[c].name = "app" THEN FALSE ELSE want)
    /\ UNCHANGED <<tag, registry, made, faults, data>>

\* A running container goes only by force; its anonymous volume goes only with
\* the last container that uses it.
Delete(t) == \E c \in Ids :
    /\ Here(c)
    /\ Begin(t, Idle, "delete")
    /\ cts' = [cts EXCEPT ![c] = Absent]
    /\ want' = (want /\ cts[c].name # "app")
    /\ data' = IF \E o \in Ids \ {c} : Here(o) /\ cts[o].vol = data THEN data ELSE 0
    /\ UNCHANGED <<tag, registry, made, faults>>

ImageDelete(t) ==
    /\ Begin(t, Idle, "image")
    /\ tag' = Absent
    /\ UNCHANGED <<cts, registry, made, faults, want, data>>

----------------------------------------------------------------------------
(* Pull, and create a container: an image that is not here is pulled once *)

PullRequest(t) ==
    /\ Begin(t, [pc |-> "pull", create |-> FALSE], "pull")
    /\ UNCHANGED <<cts, tag, registry, made, faults, want, data>>

Pull(t) ==
    /\ th[t].pc = "pull"
    /\ \/ tag' = registry /\ UNCHANGED faults
          /\ Goto(t, IF th[t].create THEN [pc |-> "create", retry |-> FALSE] ELSE Idle)
       \/ Fault /\ UNCHANGED tag /\ Done(t)
    /\ UNCHANGED <<cts, registry, made, requests, want, data, mixed>>

CreateRequest(t) ==
    /\ Named("app") = {}
    /\ Begin(t, [pc |-> "create", retry |-> TRUE], "create")
    /\ UNCHANGED <<cts, tag, registry, made, faults, want, data>>

\* A name that is taken, or an image that is still not here, ends the request.
Create(t) ==
    /\ th[t].pc = "create"
    /\ IF tag # Absent /\ Named("app") = {}
       THEN /\ made < MaxIds /\ made' = made + 1
            /\ cts' = [cts EXCEPT ![made + 1] = [name |-> "app", image |-> tag, up |-> FALSE,
                                                 rm |-> FALSE, vol |-> made + 1]]
            /\ data' = made + 1 /\ want' = FALSE
            /\ Goto(t, [pc |-> "startnew", id |-> made + 1])
       ELSE /\ UNCHANGED <<made, cts, data, want>>
            /\ Goto(t, IF tag = Absent /\ th[t].retry THEN [pc |-> "pull", create |-> TRUE] ELSE Idle)
    /\ UNCHANGED <<tag, registry, requests, faults, mixed>>

StartNew(t) ==
    /\ th[t].pc = "startnew"
    /\ \/ Here(th[t].id) /\ cts' = Started(th[t].id) /\ want' = TRUE /\ UNCHANGED faults
       \/ ~Here(th[t].id) /\ UNCHANGED <<cts, want, faults>>
       \/ Fault /\ UNCHANGED <<cts, want>>
    /\ Done(t)
    /\ UNCHANGED <<tag, registry, made, requests, data, mixed>>

----------------------------------------------------------------------------
(* Recreate. `c` is the container as it was inspected, `new` its replacement *)

\* A container that runs the tag's image already, or whose tag is not here, is refused.
RecreateRequest(t) == \E c \in Named("app") :
    /\ tag \notin {Absent, cts[c].image}
    /\ \E compose \in BOOLEAN :
          Begin(t, [pc |-> IF compose THEN "compose" ELSE IF cts[c].up THEN "stop" ELSE "park",
                    id |-> c, new |-> Absent, name |-> cts[c].name,
                    up |-> cts[c].up, rm |-> cts[c].rm, vol |-> cts[c].vol],
                IF compose THEN "compose" ELSE "recreate")
    /\ UNCHANGED <<cts, tag, registry, made, faults, want, data>>

Unhindered == UNCHANGED <<tag, registry, requests, want, data, mixed>>

\* `docker compose up` replaces the service's container by itself, and starts it. One
\* that does not stay up is not looked at, and nothing is put back.
ComposeUp(t) ==
    /\ th[t].pc = "compose"
    /\ \/ /\ Here(th[t].id) /\ tag # Absent
          /\ \E up \in BOOLEAN :
                /\ cts' = [cts EXCEPT ![th[t].id].image = tag, ![th[t].id].up = up]
                /\ IF up THEN UNCHANGED <<faults, mixed>> ELSE Fault /\ Blur
          /\ want' = TRUE
       \/ ~(Here(th[t].id) /\ tag # Absent) /\ UNCHANGED <<cts, want, faults, mixed>>
       \/ Fault /\ UNCHANGED <<cts, want, mixed>>
    /\ Done(t)
    /\ UNCHANGED <<tag, registry, made, requests, data>>

Old(t) == th[t].id
Proceed(t, pc) == Goto(t, [th[t] EXCEPT !.pc = pc])

\* Before anything is moved: an error ends the request.
Stop(t) ==
    /\ th[t].pc = "stop"
    /\ \/ Here(Old(t)) /\ cts' = Stopped(Old(t)) /\ Proceed(t, "park") /\ UNCHANGED faults
       \/ ~Here(Old(t)) /\ Done(t) /\ UNCHANGED <<cts, faults>>
       \/ Fault /\ Done(t) /\ UNCHANGED cts
    /\ UNCHANGED made /\ Unhindered

Renamed(c, n) == [cts EXCEPT ![c].name = n]

Park(t) ==
    /\ th[t].pc = "park"
    /\ \/ Here(Old(t)) /\ cts' = Renamed(Old(t), "parked") /\ Proceed(t, "replace") /\ UNCHANGED faults
       \/ ~Here(Old(t)) /\ Proceed(t, "restart") /\ UNCHANGED <<cts, faults>>
       \/ Fault /\ Proceed(t, "restart") /\ UNCHANGED cts
    /\ UNCHANGED made /\ Unhindered

\* The old container could not be moved aside, or was just put back.
Restart(t) ==
    /\ th[t].pc = "restart"
    /\ \/ th[t].up /\ Here(Old(t)) /\ cts' = Started(Old(t)) /\ UNCHANGED faults
       \/ ~(th[t].up /\ Here(Old(t))) /\ UNCHANGED <<cts, faults>>
       \/ th[t].up /\ Fault /\ UNCHANGED cts
    /\ Done(t)
    /\ UNCHANGED made /\ Unhindered

\* Mutant of Carried: the replacement gets an anonymous volume of its own.
CarriedFresh(t) == made + 1

\* _dk_recreate_body: anonymous volumes are carried over by name.
Carried(t) == th[t].vol

Replace(t) ==
    /\ th[t].pc = "replace"
    /\ \/ /\ tag # Absent /\ Named(th[t].name) = {}
          /\ made < MaxIds /\ made' = made + 1
          /\ cts' = [cts EXCEPT ![made + 1] = [name |-> th[t].name, image |-> tag, up |-> FALSE,
                                               rm |-> th[t].rm, vol |-> Carried(t)]]
          /\ Goto(t, [th[t] EXCEPT !.pc = IF th[t].up THEN "start" ELSE "remove", !.new = made + 1])
          /\ UNCHANGED faults
       \/ ~(tag # Absent /\ Named(th[t].name) = {})
          /\ Proceed(t, "drop") /\ UNCHANGED <<made, cts, faults>>
       \/ Fault /\ Proceed(t, "drop") /\ UNCHANGED <<made, cts>>
    /\ Unhindered

\* The extra networks are connected before the start; either call may fail.
Start(t) ==
    /\ th[t].pc = "start"
    /\ \/ Here(th[t].new) /\ cts' = Started(th[t].new) /\ Proceed(t, "settle") /\ UNCHANGED faults
       \/ ~Here(th[t].new) /\ Proceed(t, "drop") /\ UNCHANGED <<cts, faults>>
       \/ Fault /\ Proceed(t, "drop") /\ UNCHANGED cts
    /\ UNCHANGED made /\ Unhindered

\* The newer image may not stay up: that counts as a failure too.
Exits(t) ==
    /\ th[t].pc = "settle" /\ Here(th[t].new) /\ cts[th[t].new].up
    /\ Fault
    /\ cts' = Stopped(th[t].new)
    /\ UNCHANGED <<th, made>> /\ Unhindered

\* Mutant of Settle: the replacement is not looked at again.
SettleBlindly(t) ==
    /\ th[t].pc = "settle"
    /\ Proceed(t, "remove")
    /\ UNCHANGED <<cts, made, faults>> /\ Unhindered

Settle(t) ==
    /\ th[t].pc = "settle"
    /\ \/ Proceed(t, IF Here(th[t].new) /\ cts[th[t].new].up THEN "remove" ELSE "drop")
          /\ UNCHANGED faults
       \/ Fault /\ Proceed(t, "drop")
    /\ UNCHANGED <<cts, made>> /\ Unhindered

\* put_back: delete the replacement, rename, start; the first error ends it.
Drop(t) ==
    /\ th[t].pc = "drop"
    /\ \/ th[t].new = Absent /\ Proceed(t, "unpark") /\ UNCHANGED <<cts, faults>>
       \/ th[t].new # Absent /\ UNCHANGED faults
          /\ IF Here(th[t].new)
             THEN cts' = [cts EXCEPT ![th[t].new] = Absent] /\ Proceed(t, "unpark")
             ELSE UNCHANGED cts /\ Done(t)
       \/ th[t].new # Absent /\ Fault /\ UNCHANGED cts /\ Done(t)
    /\ UNCHANGED made /\ Unhindered

Unpark(t) ==
    /\ th[t].pc = "unpark"
    /\ \/ /\ Here(Old(t)) /\ Named(th[t].name) = {}
          /\ cts' = Renamed(Old(t), th[t].name) /\ Proceed(t, "restart") /\ UNCHANGED faults
       \/ ~(Here(Old(t)) /\ Named(th[t].name) = {}) /\ Done(t) /\ UNCHANGED <<cts, faults>>
       \/ Fault /\ Done(t) /\ UNCHANGED cts
    /\ UNCHANGED made /\ Unhindered

\* The previous container goes, its volumes stay. One that runs again is kept.
Remove(t) ==
    /\ th[t].pc = "remove"
    /\ \/ /\ UNCHANGED faults
          /\ cts' = IF Here(Old(t)) /\ ~cts[Old(t)].up THEN [cts EXCEPT ![Old(t)] = Absent] ELSE cts
       \/ Fault /\ UNCHANGED cts
    /\ Done(t)
    /\ UNCHANGED made /\ Unhindered

\* The wait for a call ends, and the daemon carries it out: the request takes it for
\* failed. (Where a call that failed ends the request as one that succeeded does, or
\* a later failure would, there is no step of its own.)
GivenUp(t) ==
    /\ \/ th[t].pc = "stop" /\ Here(Old(t)) /\ cts' = Stopped(Old(t)) /\ Done(t)
       \/ th[t].pc = "park" /\ Here(Old(t))
          /\ cts' = Renamed(Old(t), "parked") /\ Proceed(t, "restart")
       \/ th[t].pc = "start" /\ Here(th[t].new)
          /\ cts' = Started(th[t].new) /\ Proceed(t, "drop")
       \/ th[t].pc = "drop" /\ th[t].new # Absent /\ Here(th[t].new)
          /\ cts' = [cts EXCEPT ![th[t].new] = Absent] /\ Done(t)
       \/ th[t].pc = "unpark" /\ Here(Old(t)) /\ Named(th[t].name) = {}
          /\ cts' = Renamed(Old(t), th[t].name) /\ Done(t)
    /\ Fault /\ Blur
    /\ UNCHANGED <<tag, registry, made, requests, want, data>>

\* So for the creation: the replacement's id is not known, and nobody drops it.
ReplaceGivenUp(t) ==
    /\ th[t].pc = "replace" /\ tag # Absent /\ Named(th[t].name) = {}
    /\ made < MaxIds /\ made' = made + 1
    /\ cts' = [cts EXCEPT ![made + 1] = [name |-> th[t].name, image |-> tag, up |-> FALSE,
                                         rm |-> th[t].rm, vol |-> Carried(t)]]
    /\ Proceed(t, "drop")
    /\ Fault /\ Blur
    /\ UNCHANGED <<tag, registry, requests, want, data>>

Publish ==
    /\ registry = 1 /\ registry' = 2
    /\ UNCHANGED <<cts, tag, th, made, requests, faults, want, data, mixed>>

Next ==
    \/ \E t \in Threads :
         \/ Action(t) \/ Delete(t) \/ ImageDelete(t) \/ PullRequest(t) \/ Pull(t)
         \/ CreateRequest(t) \/ Create(t) \/ StartNew(t)
         \/ RecreateRequest(t) \/ ComposeUp(t) \/ Stop(t) \/ Park(t) \/ Restart(t) \/ Replace(t)
         \/ Start(t) \/ Exits(t) \/ Settle(t) \/ Drop(t) \/ Unpark(t) \/ Remove(t)
         \/ GivenUp(t) \/ ReplaceGivenUp(t)
    \/ Publish

Spec == Init /\ [][Next]_vars

----------------------------------------------------------------------------
(* Properties *)

AtRest == \A t \in Threads : th[t] = Idle

\* "The old one parked under another name until the new one is seen running, put
\* back if it is not": with one failure at most (a call, or the newer image), a service
\* the admin left running runs when each request is answered before the next
\* (_dk_recreate_clone). Two failures are excused for good, for nothing puts them back: a
\* call that was given up on and carried out all the same, and a container that
\* `docker compose up` left not running.
ServiceBack == (AtRest /\ want /\ mixed = "none" /\ faults <= 1) => Serving # {}

\* "No v=1: named AND anonymous volumes stay - the new container uses them": some
\* container holds the service's data until the admin deletes it, whatever fails, carried
\* out or not, and however replacements overlap (_dk_recreate_body).
DataKept == (data # 0 /\ mixed # "other") => \E c \in Ids : Here(c) /\ cts[c].vol = data

----------------------------------------------------------------------------
(* What makes DataKept inductive *)

\* A replacement has its new container from the moment it is made.
Replacement ==
    {r \in [pc : {"compose", "stop", "park", "restart", "replace", "start", "settle", "drop",
                  "unpark", "remove"},
            id : Ids, new : Ids \cup {Absent}, name : {"app", "parked"}, up : BOOLEAN,
            rm : BOOLEAN, vol : Ids] :
       /\ r.pc \in {"compose", "stop", "park", "replace"} => r.new = Absent
       /\ r.pc \in {"start", "settle", "remove"} => r.new # Absent}
Request ==
    [pc : {"idle"}] \cup [pc : {"pull"}, create : BOOLEAN] \cup [pc : {"create"}, retry : BOOLEAN]
    \cup [pc : {"startnew"}, id : Ids] \cup Replacement

\* Type invariant of every variable.
TypeOK ==
    /\ cts \in [Ids -> {Absent} \cup Container]
    /\ tag \in Image \cup {Absent} /\ registry \in Image
    /\ th \in [Threads -> Request]
    /\ made \in Ids /\ requests \in Nat /\ faults \in Nat
    /\ want \in BOOLEAN /\ mixed \in {"none", "blurred", "other"}
    /\ data \in 0..MaxIds

\* The daemon keeps a container that stops.
NoneAutoRemoved ==
    ~AutoRemove =>
        /\ \A c \in Ids : Here(c) => ~cts[c].rm
        /\ \A t \in Threads : th[t] \in Replacement => ~th[t].rm

\* Overlapping requests are replacements by clone, unless the history says otherwise.
OnlyClones ==
    mixed # "other" => \A t, o \in Threads :
        t # o /\ th[t] # Idle /\ th[o] # Idle => Recreating(t) /\ Recreating(o)

IdsAreMade == \A c \in Ids : Here(c) => c <= made

\* A replacement and its thread. The new container runs the image of the tag, so that no
\* other request takes it for an old one.
HasNew(t) == th[t] \in Replacement /\ th[t].new # Absent
Faithful(t) ==
    /\ HasNew(t) =>
         /\ th[t].new <= made /\ th[t].new # Old(t)
         /\ Here(th[t].new) => cts[th[t].new].vol = th[t].vol /\ cts[th[t].new].image = tag
    /\ th[t] \in Replacement =>
         /\ Old(t) <= made
         /\ Here(Old(t)) => cts[Old(t)].vol = th[t].vol
         /\ th[t].pc = "remove" => Here(th[t].new)

Faithfully ==
    mixed # "other" =>
        /\ \A t \in Threads : Faithful(t)
        /\ \A t, o \in Threads :
              t # o /\ HasNew(t) /\ th[o] \in Replacement =>
                  th[t].new # Old(o) /\ th[t].new # th[o].new

\* A container that no thread may still drop.
Settled(c) ==
    /\ Here(c)
    /\ \A t \in Threads :
          HasNew(t) /\ th[t].pc \in {"start", "settle", "drop"} => th[t].new # c

DataSettled ==
    (data # 0 /\ mixed # "other") => \E c \in Ids : Settled(c) /\ cts[c].vol = data

IInv == TypeOK /\ NoneAutoRemoved /\ OnlyClones /\ IdsAreMade /\ Faithfully /\ DataSettled

----------------------------------------------------------------------------
(* What makes ServiceBack inductive: while requests never overlapped, how far a request has *)
(* come tells which containers there are                                                    *)

Called(c, n) == Here(c) /\ cts[c].name = n

\* A request that has not moved the old container aside leaves the service as it found it.
Untouched(t) == th[t].pc \in {"idle", "pull", "create", "startnew", "compose", "stop"}

Placed(t) ==
    /\ th[t].pc \in {"startnew", "compose", "stop", "park", "restart"} => Called(th[t].id, "app")
    /\ th[t] \in Replacement => tag # Absent /\ th[t].name = "app"
    /\ th[t].pc \in {"replace", "start", "settle", "drop", "unpark", "remove"} => Called(Old(t), "parked")
    /\ th[t].pc \in {"start", "settle", "drop", "remove"} /\ HasNew(t) => Called(th[t].new, "app")
    /\ th[t].pc \in {"replace", "unpark"} \/ (th[t].pc = "drop" /\ ~HasNew(t)) => Named("app") = {}
    /\ th[t].pc \in {"restart", "drop", "unpark"} => faults > 0
    /\ th[t].pc = "settle" => cts[th[t].new].up \/ faults > 0
    /\ th[t].pc = "remove" /\ th[t].up => cts[th[t].new].up

ServiceKept ==
    mixed = "none" =>
        /\ \A t, o \in Threads : t # o => th[t] = Idle \/ th[o] = Idle
        /\ \A c, d \in Named("app") : c = d
        /\ \A t \in Threads : Placed(t)
        /\ want /\ faults <= 1 =>
             /\ \A t \in Threads : th[t] \in Replacement => th[t].up
             /\ (\A t \in Threads : Untouched(t)) => Serving # {}
=============================================================================
