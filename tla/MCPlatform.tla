---------------------------- MODULE MCPlatform -----------------------------
(***************************************************************************)
(* Small instances for TLC of the components that look after the host and  *)
(* what runs on it: storage, snapshots and replication, containers, disk   *)
(* health and alerts, model backups, and the files the dashboard keeps.    *)
(* They share no state, so a behaviour of this module is a behaviour of    *)
(* one of them, which `which` names: the run checks all side by side.      *)
(***************************************************************************)
EXTENDS Naturals, FiniteSets, TLC

CONSTANTS
    Threads,            \* request threads of the server
    Absent,
    Nil,
    \* storage
    Disks, StorageRequests,
    \* snapshots and replication
    Keeps, Interval, SnapTime, MaxSnaps, SnapRequests, SnapCrashes,
    \* containers, compose stacks, instances
    MaxContainers, DockerRequests, DockerFaults,
    StackRequests, StackCrashes,
    Names, MaxMacs, InstanceRequests,
    \* locating a drive, disk health and alerts
    LocateWorkers, LocateRestarts,
    Others, Window, MaxBad, HealthTime, HealthRequests, HealthFaults,
    \* model backups
    Groups, BackupWorkers, BackupFaults,
    \* files: processes beside the server that write them, writes to a document
    Ticks, Chunks, MaxOpens, FileCrashes,
    \* accounts, and the one of the first start
    Accounts, FirstAccount

ASSUME BoundsAssumption ==
    {StorageRequests, SnapTime, MaxSnaps, SnapRequests, SnapCrashes, MaxContainers,
     DockerRequests, DockerFaults, StackRequests, StackCrashes, MaxMacs, InstanceRequests,
     LocateWorkers, LocateRestarts, MaxBad, HealthTime, HealthRequests, HealthFaults,
     BackupWorkers, BackupFaults, Chunks, MaxOpens, FileCrashes} \subseteq Nat
ASSUME PositiveAssumption == MaxContainers > 0
ASSUME KeepsAssumption == Keeps \subseteq Nat

\* The values that stand for nothing are nobody and no number.
ASSUME NilAssumption == Nil \notin Threads \cup Groups \cup Nat
ASSUME AbsentAssumption == Absent \notin Threads \cup Ticks \cup Nat \cup {Nil}
ASSUME ProcessAssumption == "server" \notin Ticks /\ Threads \cap Ticks = {}
ASSUME AccountAssumption == IsFiniteSet(Accounts) /\ FirstAccount \in Accounts

VARIABLES
    which,  \* the component of this behaviour
    \* its variables, in the order it declares them
    s1, s2, s3, s4, s5, s6, s7, s8, s9, s10, s11, s12, s13

vars == <<which, s1, s2, s3, s4, s5, s6, s7, s8, s9, s10, s11, s12, s13>>

Idle == "-"

\* The threads of the server are one process, every tick is one of its own.
Writers == Threads \cup Ticks
Processes == {"server"} \cup Ticks
ProcessOf == [w \in Writers |-> IF w \in Threads THEN "server" ELSE w]

\* Requests about the accounts.
LaterAccounts == Accounts \ {FirstAccount}
Ask(kind, by, user, role, password) ==
    [kind |-> kind, by |-> by, user |-> user, token |-> Nil, role |-> role,
     password |-> password, old |-> Nil]
AccountRequests ==
    {Ask("users_create", FirstAccount, u, role, "p1") :
        u \in LaterAccounts, role \in {"admin", "readonly"}}
    \cup {Ask("users_set_role", by, u, role, Nil) :
             by \in Accounts, u \in Accounts, role \in {"admin", "readonly"}}
    \cup {Ask("users_delete", by, u, Nil, Nil) : by \in Accounts, u \in Accounts}

Rules == INSTANCE AuthRules WITH Users <- Accounts, Tokens <- {"tok"},
    Passwords <- {"p1"}, MaxDay <- 1

\* A restore may bring the store of a node where another account is the only one, an
\* administrator or not.
Brings(u, role) == [Rules!Bootstrap(u, "p1") EXCEPT !.users[u].role = role]
AccountBundles == {Brings(u, role) : u \in LaterAccounts, role \in {"admin", "readonly"}}

Sto == INSTANCE Storage WITH MaxRequests <- StorageRequests, holds <- s1,
    mounted <- s2, fstab <- s3, pool <- s4, vg <- s5, md <- s6, conf <- s7,
    th <- s8, requests <- s9, cleared <- s10, excused <- s11

Rep == INSTANCE Replication WITH Failed <- Nil, MaxTime <- SnapTime,
    MaxRequests <- SnapRequests, MaxCrashes <- SnapCrashes, snaps <- s1,
    remote <- s2, sched <- s3, job <- s4, timer <- s5, pr <- s6, now <- s7,
    taken <- s8, requests <- s9, crashes <- s10, limit <- s11, debt <- s12,
    overlapped <- s13

Doc == INSTANCE Docker WITH AutoRemove <- FALSE, MaxIds <- MaxContainers,
    MaxRequests <- DockerRequests, MaxFaults <- DockerFaults, cts <- s1,
    tag <- s2, registry <- s3, th <- s4, made <- s5, requests <- s6,
    faults <- s7, want <- s8, data <- s9, mixed <- s10

Stk == INSTANCE Compose WITH ListFails <- TRUE, MaxRequests <- StackRequests,
    MaxCrashes <- StackCrashes, file <- s1, up <- s2, th <- s3,
    requests <- s4, crashes <- s5, disturbed <- s6, unheard <- s7

Lxd == INSTANCE Instances WITH MaxRequests <- InstanceRequests, inst <- s1,
    wire <- s2, req <- s3, macs <- s4, requests <- s5, shared <- s6

Loc == INSTANCE Locate WITH MaxWorkers <- LocateWorkers,
    MaxRestarts <- LocateRestarts, job <- s1, worker <- s2, request <- s3,
    led <- s4, started <- s5, restarts <- s6, orphaned <- s7

Hea == INSTANCE Health WITH None <- Nil,
    MaxTime <- HealthTime, MaxRequests <- HealthRequests,
    MaxFaults <- HealthFaults, bad <- s1, wrong <- s2, smart <- s3,
    file <- s4, timer <- s5, tick <- s6, page <- s7, now <- s8,
    requests <- s9, faults <- s10, told <- s11, read <- s12, excused <- s13

Bak == INSTANCE Backup WITH Requests <- Threads, MaxWorkers <- BackupWorkers,
    MaxFaults <- BackupFaults, job <- s1, lock <- s2, req <- s3, worker <- s4,
    models <- s5, copies <- s6, manifest <- s7, up <- s8, count <- s9,
    spoiled <- s10

Fil == INSTANCE AtomicJson WITH Pids <- Processes, PidOf <- ProcessOf,
    Serialised <- TRUE, Original <- Nil, MaxCrashes <- FileCrashes,
    target <- s1, durable <- s2, tmp <- s3, data <- s4, synced <- s5,
    opens <- s6, call <- s7, lock <- s8, crashes <- s9

Acc == INSTANCE AuthStore WITH Users <- Accounts, Tokens <- {"tok"},
    Passwords <- {"p1"}, MaxDay <- 1, Requests <- AccountRequests,
    CliUsers <- LaterAccounts,
    Bundles <- AccountBundles,
    FirstAdmin <- FirstAccount, FirstPassword <- "p1", NoOne <- Absent,
    file <- s1, lock <- s2, thr <- s3, cli <- s4, today <- s5,
    restoring <- s6, unsound <- s7

Init ==
    \/ which = "Sto" /\ Sto!Init /\ s12 = Idle /\ s13 = Idle
    \/ which = "Rep" /\ Rep!Init
    \/ which = "Doc" /\ Doc!Init /\ s11 = Idle /\ s12 = Idle /\ s13 = Idle
    \/ which = "Stk" /\ Stk!Init /\ s8 = Idle /\ s9 = Idle /\ s10 = Idle /\ s11 = Idle /\ s12 = Idle /\ s13 = Idle
    \/ which = "Lxd" /\ Lxd!Init /\ s7 = Idle /\ s8 = Idle /\ s9 = Idle /\ s10 = Idle /\ s11 = Idle /\ s12 = Idle /\ s13 = Idle
    \/ which = "Loc" /\ Loc!Init /\ s8 = Idle /\ s9 = Idle /\ s10 = Idle /\ s11 = Idle /\ s12 = Idle /\ s13 = Idle
    \/ which = "Hea" /\ Hea!Init
    \/ which = "Bak" /\ Bak!Init /\ s11 = Idle /\ s12 = Idle /\ s13 = Idle
    \/ which = "Fil" /\ Fil!Init /\ s10 = Idle /\ s11 = Idle /\ s12 = Idle /\ s13 = Idle
    \/ which = "Acc" /\ Acc!Init /\ s8 = Idle /\ s9 = Idle /\ s10 = Idle /\ s11 = Idle /\ s12 = Idle /\ s13 = Idle

Next ==
    \/ /\ which = "Sto" /\ Sto!Next
       /\ UNCHANGED <<which, s12, s13>>
    \/ /\ which = "Rep" /\ Rep!Next
       /\ UNCHANGED <<which>>
    \/ /\ which = "Doc" /\ Doc!Next
       /\ UNCHANGED <<which, s11, s12, s13>>
    \/ /\ which = "Stk" /\ Stk!Next
       /\ UNCHANGED <<which, s8, s9, s10, s11, s12, s13>>
    \/ /\ which = "Lxd" /\ Lxd!Next
       /\ UNCHANGED <<which, s7, s8, s9, s10, s11, s12, s13>>
    \/ /\ which = "Loc" /\ Loc!Next
       /\ UNCHANGED <<which, s8, s9, s10, s11, s12, s13>>
    \/ /\ which = "Hea" /\ Hea!Next
       /\ UNCHANGED <<which>>
    \/ /\ which = "Bak" /\ Bak!Next
       /\ UNCHANGED <<which, s11, s12, s13>>
    \/ /\ which = "Fil" /\ Fil!Next
       /\ UNCHANGED <<which, s10, s11, s12, s13>>
    \/ /\ which = "Acc" /\ Acc!Next
       /\ UNCHANGED <<which, s8, s9, s10, s11, s12, s13>>

Spec == Init /\ [][Next]_vars

\* Absent is no container, no text of a stack and no instance.
ASSUME AbsentIsNone == Absent \notin Doc!Container \cup Stk!Text \cup Lxd!Object

\* Nil is no account and no record of one; a token is no account.
ASSUME NobodyAssumption == /\ Nil \notin Accounts \cup {"tok"} /\ "tok" \notin Accounts
                           /\ Nil \notin Rules!UserRec

Symmetry == Permutations(Threads) \cup Permutations(Groups)

----------------------------------------------------------------------------
(* Properties, each of the component that defines it *)

\* Storage: no series of requests clears a disk that a mount, a pool, a volume group or
\* an array in use has, unless two of them overlapped or zpool status failed; an array
\* nobody uses counts when mdadm.conf has it by its kernel name (disk_wipe_status).
LiveDisksKept == which = "Sto" => Sto!LiveDisksKept

\* Snapshots: what a pruning leaves is within its keep count, whatever ticks, runs
\* by hand and dying processes do to each other, unless zfs list or a destroy failed
\* (autosnap_prune).
Retention == which = "Rep" => Rep!Retention

\* Replication: a replica never loses a snapshot the source still has, whatever the
\* other host answered and however transfers break (_remote_snaps).
HistoryKept == [][which = "Rep" => Rep!ReplicaGrows]_vars

\* Containers: a service the admin left running runs again after a replacement in
\* which one thing failed, unless that was a call given up on and still carried out, or
\* an image that compose could not keep up (_dk_recreate_clone, dk_container_recreate).
ServiceBack == which = "Doc" => Doc!ServiceBack

\* Containers: some container holds the data of the service until the admin deletes
\* it, however replacements fail and overlap (_dk_recreate_body).
DataKept == which = "Doc" => Doc!DataKept

\* Compose: a stack with containers keeps the file they are managed by, one request at
\* a time, unless a deletion asked a daemon that did not answer (compose_delete).
ContainersManaged == which = "Stk" => Stk!ContainersManaged

\* Instances: two running instances do not use one address, except for the copies
\* that MacsDiffer of Instances names (instance_copy).
MacsDiffer == which = "Lxd" => Lxd!MacsDiffer

\* Locate: when every worker is gone the LED is off and no job is left (_locate_worker).
DarkAtRest == which = "Loc" => Loc!DarkAtRest

\* Alerts: the last message about an alert says whether it is on record
\* (cli_alerts_tick).
Informed == which = "Hea" => Hea!Informed

\* Backups: one worker at a time (_start_backup_job).
OneCopier == which = "Bak" => Bak!OneCopier

\* Backups: one with a manifest has the whole model, except as ManifestHonest of Backup
\* names (cli_llama_backup).
ManifestHonest == which = "Bak" => Bak!ManifestHonest

\* Files: a save takes effect once, whole, between its call and its return or not at
\* all; so a reader finds one complete document at any moment, and after a power loss
\* at worst the one that was on disk (write_json_atomic). The mapping is Promise of
\* AtomicJson.
SaveIsAtomic ==
    /\ which = "Fil" => Fil!Promise!AInit
    /\ [][which = "Fil" => [Fil!Promise!ANext]_(Fil!Promise!vars)]_vars

\* Files: the temporary file does not outlive a call whose process lives.
NoLitter == which = "Fil" => Fil!NoLitter

\* Accounts: an administrator remains when set-password and restores write beside
\* the server (cli_set_password, apply_bundle), except after the restores that
\* AdminRemains of AuthStore names.
AdminRemains == which = "Acc" => Acc!AdminRemains
===========================================================================
