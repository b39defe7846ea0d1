----------------------------- MODULE Instances ------------------------------
(***************************************************************************)
(* System containers and virtual machines (nexusdash/modules/containers:   *)
(* instances.py, portforward.py, client.py). A request is a sequence of    *)
(* calls to the LXD daemon, each of which takes effect at once or is       *)
(* refused; requests of other threads come between the calls. A PUT writes *)
(* the whole object that was read before it. Snapshots, backups and images *)
(* are kept by the daemon and do not appear.                               *)
(***************************************************************************)
EXTENDS Naturals, FiniteSets

CONSTANTS
    Threads,     \* request threads of the server
    Names,       \* names of instances
    Absent,      \* no instance of that name
    MaxMacs,     \* bound: addresses handed out by the daemon
    MaxRequests  \* bound: requests

VARIABLES
    inst,      \* the instances: address in the config (0: none yet), has a forward
    wire,      \* the address a running instance uses, 0 when it is stopped
    req,       \* the request of each thread
    macs,      \* addresses handed out
    requests,
    shared     \* history: instances whose address may be another's, see MacsDiffer

vars == <<inst, wire, req, macs, requests, shared>>

Idle == [pc |-> "idle"]
New == [mac |-> 0, forward |-> FALSE]

Init ==
    /\ inst = [n \in Names |-> Absent]
    /\ wire = [n \in Names |-> 0]
    /\ req = [t \in Threads |-> Idle]
    /\ macs = 0 /\ requests = 0 /\ shared = {}

Running(n) == wire[n] # 0

----------------------------------------------------------------------------
(* The daemon *)

\* Starting gives an instance an address if its config has none.
Start(n) ==
    /\ inst[n] # Absent /\ ~Running(n)
    /\ LET mac == IF inst[n].mac = 0 THEN macs + 1 ELSE inst[n].mac
       IN  /\ mac <= MaxMacs
           /\ macs' = IF mac > macs THEN mac ELSE macs
           /\ inst' = [inst EXCEPT ![n].mac = mac]
           /\ wire' = [wire EXCEPT ![n] = mac]
           /\ shared' = IF mac > macs THEN shared \ {n} ELSE shared

StopIt(n) ==
    /\ wire' = [wire EXCEPT ![n] = 0]
    /\ UNCHANGED <<inst, macs, shared>>

\* A full update keeps a running instance on its address.
Put(n, object) ==
    /\ inst' = [inst EXCEPT ![n] = object]
    /\ UNCHANGED <<wire, macs>>

Refused == UNCHANGED <<inst, wire, macs, shared>>
Answer(t) == req' = [req EXCEPT ![t] = Idle] /\ UNCHANGED requests
Then(t, next) == req' = [req EXCEPT ![t] = next]
Begin(t) == req[t].pc = "idle" /\ requests < MaxRequests /\ requests' = requests + 1

----------------------------------------------------------------------------
(* Requests of one call *)

\* instance_state
SetState(t, n) ==
    /\ Begin(t) /\ UNCHANGED req
    /\ IF Running(n) THEN StopIt(n) ELSE Start(n)

\* instance_proxy_add: a PATCH adds the device to what is there.
AddForward(t, n) ==
    /\ Begin(t) /\ UNCHANGED req
    /\ inst[n] # Absent
    /\ inst' = [inst EXCEPT ![n].forward = TRUE]
    /\ UNCHANGED <<wire, macs, shared>>

\* instance_rename: the daemon wants it stopped.
Rename(t, n, new) ==
    /\ Begin(t) /\ UNCHANGED req
    /\ inst[n] # Absent /\ inst[new] = Absent /\ ~Running(n)
    /\ inst' = [inst EXCEPT ![n] = Absent, ![new] = inst[n]]
    /\ shared' = IF n \in shared THEN (shared \ {n}) \cup {new} ELSE shared
    /\ UNCHANGED <<wire, macs>>

----------------------------------------------------------------------------
(* Requests of several calls *)

\* instance_create, which starts the instance if asked to
Create(t, n) ==
    /\ Begin(t)
    /\ inst[n] = Absent
    /\ inst' = [inst EXCEPT ![n] = New]
    /\ (UNCHANGED req \/ Then(t, [pc |-> "start", name |-> n]))
    /\ UNCHANGED <<wire, macs, shared>>

StartCreated(t) ==
    /\ req[t].pc = "start"
    /\ IF inst[req[t].name] # Absent /\ ~Running(req[t].name) /\ macs < MaxMacs
       THEN Start(req[t].name) ELSE Refused
    /\ Answer(t)

\* instance_delete: with force it is stopped first, and whether that worked is ignored.
Delete(t, n) ==
    /\ Begin(t)
    /\ \/ StopIt(n)
       \/ Refused
    /\ Then(t, [pc |-> "delete", name |-> n])

DeleteNow(t) ==
    /\ req[t].pc = "delete"
    /\ LET n == req[t].name
       IN  IF inst[n] = Absent \/ Running(n) THEN Refused
           ELSE /\ inst' = [inst EXCEPT ![n] = Absent]
                /\ shared' = shared \ {n}
                /\ UNCHANGED <<wire, macs>>
    /\ Answer(t)

\* instance_copy: the daemon copies the address along with the rest.
Copy(t, n, new) ==
    /\ Begin(t)
    /\ inst[n] # Absent /\ inst[new] = Absent
    /\ inst' = [inst EXCEPT ![new] = inst[n]]
    /\ shared' = shared \cup {new}
    /\ Then(t, [pc |-> "copied", name |-> new])
    /\ UNCHANGED <<wire, macs>>

\* Mutant of Stripped: the copy is written back as it was read.
StrippedNothing(object) == object

Stripped(object) == [object EXCEPT !.mac = 0]

CopyRead(t) ==
    /\ req[t].pc = "copied"
    /\ IF inst[req[t].name] = Absent \/ inst[req[t].name].mac = 0
       THEN Answer(t)
       ELSE /\ Then(t, [pc |-> "strip", name |-> req[t].name, object |-> inst[req[t].name]])
            /\ UNCHANGED requests
    /\ UNCHANGED <<inst, wire, macs, shared>>

\* The copy answers success; one that was started before keeps its address until
\* it is started again.
CopyStrip(t) ==
    /\ req[t].pc = "strip"
    /\ LET n == req[t].name
       IN  IF inst[n] = Absent THEN Refused
           ELSE /\ Put(n, Stripped(req[t].object))
                /\ shared' = IF Running(n) THEN shared ELSE shared \ {n}
    /\ Answer(t)

CopyFails(t) ==
    /\ req[t].pc \in {"copied", "strip"}
    /\ Refused /\ Answer(t)

\* instance_device_remove: a PATCH cannot delete keys, so the object read is put.
RemoveRead(t, n) ==
    /\ Begin(t)
    /\ inst[n] # Absent /\ inst[n].forward
    /\ Then(t, [pc |-> "remove", name |-> n, object |-> inst[n]])
    /\ UNCHANGED <<inst, wire, macs, shared>>

RemovePut(t) ==
    /\ req[t].pc = "remove"
    /\ LET n == req[t].name
       IN  IF inst[n] = Absent THEN Refused
           ELSE /\ Put(n, [req[t].object EXCEPT !.forward = FALSE])
                /\ shared' = IF inst[n].mac # req[t].object.mac THEN shared \cup {n} ELSE shared
    /\ Answer(t)

----------------------------------------------------------------------------
Next ==
    \E t \in Threads :
       \/ \E n \in Names :
            \/ SetState(t, n) \/ AddForward(t, n) \/ Create(t, n) \/ Delete(t, n) \/ RemoveRead(t, n)
            \/ \E new \in Names : Rename(t, n, new) \/ Copy(t, n, new)
       \/ StartCreated(t) \/ DeleteNow(t)
       \/ CopyRead(t) \/ CopyStrip(t) \/ CopyFails(t) \/ RemovePut(t)

Spec == Init /\ [][Next]_vars

----------------------------------------------------------------------------
(* Properties *)

\* Two running instances never use one address: "strip them so a running copy
\* doesn't collide with the source". Shared are copies whose request has not
\* answered success yet or was started before it did, and instances that a device
\* removal wrote back with an address it had read before the strip.
MacsDiffer ==
    \A n, m \in Names : n # m /\ Running(n) /\ wire[n] = wire[m] => {n, m} \cap shared # {}

----------------------------------------------------------------------------
(* What makes MacsDiffer inductive *)

Object == [mac : 0..MaxMacs, forward : BOOLEAN]
Request ==
    [pc : {"idle"}]
    \cup [pc : {"start", "delete", "copied"}, name : Names]
    \cup [pc : {"strip", "remove"}, name : Names, object : Object]

\* Type invariant of every variable.
TypeOK ==
    /\ inst \in [Names -> {Absent} \cup Object]
    /\ wire \in [Names -> 0..MaxMacs]
    /\ req \in [Threads -> Request]
    /\ macs \in 0..MaxMacs
    /\ requests \in Nat
    /\ shared \subseteq Names

\* The addresses an instance uses or will use when it is started.
Held(n) == ({wire[n]} \cup (IF inst[n] = Absent THEN {} ELSE {inst[n].mac})) \ {0}

\* An instance that is not there does not run.
GoneIsOff == \A n \in Names : inst[n] = Absent => ~Running(n)

\* Addresses are handed out in order, also those in the objects that requests hold.
HandedOut ==
    /\ \A n \in Names : \A mac \in Held(n) : mac <= macs
    /\ \A t \in Threads : req[t].pc \in {"strip", "remove"} => req[t].object.mac <= macs

\* Two instances that are not shared have no address in common, running or not.
Disjoint ==
    \A n, m \in Names : n # m /\ {n, m} \cap shared = {} => Held(n) \cap Held(m) = {}

IInv == TypeOK /\ GoneIsOff /\ HandedOut /\ Disjoint
=============================================================================
